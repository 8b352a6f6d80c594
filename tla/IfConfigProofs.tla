--------------------------- MODULE IfConfigProofs ---------------------------
(***************************************************************************)
(* What IfConfig promises for any number of handles, interfaces and names. *)
(***************************************************************************)
EXTENDS IfConfig, TLAPS, WellFoundedInduction

-----------------------------------------------------------------------------
(***************************************************************************)
(* The inductive invariant.                                                *)
(***************************************************************************)
\* Inside the IPv6 half of tuntap_set_ip the address is an IPv6 one.
Family == \A h \in Handles : pc[h] \in {"getindex", "del6", "set6"} => req[h].addr \in Addrs6

\* The types but for sock6, on which no step depends.
Shape == /\ link \in [Ifs -> Links]
         /\ tun_fd \in [Handles -> Ifs \cup {None, Gone}]
         /\ if_name \in [Handles -> IfNames \cup {NoName}]
         /\ flags \in [Handles -> SUBSET Flags]
         /\ hwaddr \in [Handles -> HwAddrs \cup {NoHw}]
         /\ pc \in [Handles -> {"idle", "setmask", "getindex", "del6", "set6"}]
         /\ req \in [Handles -> Reqs]
         /\ foreign \in [Ifs -> SUBSET Attrs]

UniqueNames ==
  \A i, j \in Ifs : Exists(i) /\ link[i].name = link[j].name => i = j

\* A descriptor is attached to an interface that exists, alone.
AttachedAlone ==
  \A h \in Handles : tun_fd[h] \in Ifs =>
    /\ Exists(tun_fd[h])
    /\ \A g \in Handles : tun_fd[g] = tun_fd[h] => g = h

\* The cached name is the interface's until somebody else changes it.
Renamed(h) == "name" \in foreign[tun_fd[h]]
NameKnown ==
  \A h \in Handles :
    tun_fd[h] \in Ifs /\ ~Renamed(h) => if_name[h] = link[tun_fd[h]].name

\* h may reach an interface that is not its own.
MayStray(h) == tun_fd[h] = Gone \/ (tun_fd[h] \in Ifs /\ Renamed(h))

\* A looked-up index is the device's, or was found under a name gone astray.
IndexKnown ==
  \A h \in Handles :
    req[h].ifc \in Ifs => pc[h] # "idle" /\ (req[h].ifc = tun_fd[h] \/ MayStray(h))

NamesInv == UniqueNames /\ AttachedAlone /\ NameKnown
Inv == Shape /\ Family /\ NamesInv /\ IndexKnown

-----------------------------------------------------------------------------
(***************************************************************************)
(* Arithmetic: the least number of a set, powers of two, digits.           *)
(***************************************************************************)

\* A set of natural numbers has a least one: the form of induction that the
\* provers can use.
LEMMA LeastNumber ==
  ASSUME NEW T, T \subseteq Nat, T # {}
  PROVE  \E m \in T : \A k \in T : m <= k
<1>1. IsWellFoundedOn(OpToRel(<, Nat), Nat)
  BY NatLessThanWellFounded
<1>2. PICK m \in T : \A k \in T : <<k, m>> \notin OpToRel(<, Nat)
  BY <1>1, WFMin, Zenon
<1>3. \A k \in T : ~(k < m)
  BY <1>2, Zenon DEF OpToRel
<1>4. QED  BY <1>3

\* The powers of two up to the width are positive integers.
LEMMA PowerPositive == \A n \in 0..W : 2^n \in Nat \ {0}
<1> DEFINE Bad == {n \in 0..W : 2^n \notin Nat \ {0}}
<1>1. SUFFICES ASSUME Bad # {} PROVE FALSE
  OBVIOUS
<1>2. PICK n \in Bad : \A k \in Bad : n <= k
  <2>1. Bad \subseteq Nat
    BY WidthAssumption
  <2>2. QED  BY <1>1, <2>1, LeastNumber, Zenon
<1>3. n # 0
  <2>1. 2^n \notin Nat \ {0}
    BY <1>2
  <2>2. 2^0 \in Nat \ {0}
    BY PowersAssumption
  <2>3. QED  BY <2>1, <2>2, Zenon
<1>4. n - 1 \in 0..(W - 1) /\ n - 1 \notin Bad
  BY <1>2, <1>3, WidthAssumption
<1>5. 2^(n - 1) \in Nat \ {0} /\ 2^((n - 1) + 1) = 2 * 2^(n - 1)
  BY <1>4, PowersAssumption, WidthAssumption
<1>6. (n - 1) + 1 = n
  BY <1>2, WidthAssumption
<1>7. QED  BY <1>2, <1>5, <1>6

\* The exponents add up.
LEMMA PowerSum ==
  ASSUME NEW m \in Nat, NEW n \in Nat, m + n <= W
  PROVE  2^(m + n) = 2^m * 2^n
<1> DEFINE Bad == {k \in 0..(W - m) : 2^(m + k) # 2^m * 2^k}
<1>1. SUFFICES ASSUME Bad # {} PROVE FALSE
  BY WidthAssumption
<1>2. PICK k \in Bad : \A j \in Bad : k <= j
  <2>1. Bad \subseteq Nat
    BY WidthAssumption
  <2>2. QED  BY <1>1, <2>1, LeastNumber, Zenon
<1>3. k # 0
  <2>1. m + 0 = m /\ 2^m * 1 = 2^m
    BY PowerPositive, WidthAssumption
  <2>2. QED  BY <1>2, <2>1, PowersAssumption
<1>4. k - 1 \in 0..(W - m) /\ k - 1 \notin Bad
  BY <1>2, <1>3, WidthAssumption
<1>5. 2^(m + (k - 1)) = 2^m * 2^(k - 1)
  BY <1>4
<1>6. 2^((m + (k - 1)) + 1) = 2 * 2^(m + (k - 1)) /\ 2^((k - 1) + 1) = 2 * 2^(k - 1)
  BY <1>4, PowersAssumption, WidthAssumption
<1>7. (m + (k - 1)) + 1 = m + k /\ (k - 1) + 1 = k
  BY <1>2, WidthAssumption
<1>8. 2^m \in Nat /\ 2^(k - 1) \in Nat
  BY <1>4, PowerPositive, WidthAssumption
<1>9. 2 * (2^m * 2^(k - 1)) = 2^m * (2 * 2^(k - 1))
  BY <1>8
<1>10. QED  BY <1>2, <1>5, <1>6, <1>7, <1>9

\* A greater exponent gives no smaller power.
LEMMA PowerGrows ==
  ASSUME NEW m \in 0..W, NEW n \in 0..W, m <= n
  PROVE  2^m <= 2^n
<1>1. n - m \in 0..W /\ m + (n - m) = n /\ W \in Nat
  BY WidthAssumption
<1>2. 2^n = 2^m * 2^(n - m) /\ 2^m \in Nat /\ 2^(n - m) \in Nat \ {0}
  BY <1>1, PowerSum, PowerPositive
<1>3. QED  BY <1>2

\* A division leaves a quotient and a remainder, no others fit, and they stay
\* below what the dividend stays below.
LEMMA Divided ==
  ASSUME NEW x \in Nat, NEW y \in Nat \ {0}
  PROVE  x \div y \in Nat /\ x % y \in 0..(y - 1) /\ x = (x \div y) * y + (x % y)
  OBVIOUS
\* A number below p followed by a digit below y is below p * y.
LEMMA AppendDigit ==
  ASSUME NEW p \in Nat \ {0}, NEW y \in Nat \ {0}, NEW x \in 0..(p - 1), NEW d \in 0..(y - 1)
  PROVE  p * y \in Nat \ {0} /\ x * y + d \in 0..(p * y - 1)
<1>1. x * y <= (p - 1) * y /\ (p - 1) * y = p * y - y
  OBVIOUS
<1>2. x * y \in Nat /\ p * y \in Nat \ {0}
  OBVIOUS
<1>3. QED  BY <1>1, <1>2

\* Quotient and remainder of q * y + r, for a remainder below y.
LEMMA Division ==
  ASSUME NEW y \in Nat \ {0}, NEW q \in Nat, NEW r \in 0..(y - 1)
  PROVE  (q * y + r) \div y = q /\ (q * y + r) % y = r
<1> DEFINE x == q * y + r
           p == x \div y
           s == x % y
<1>1. q * y \in Nat /\ x \in Nat
  OBVIOUS
<1>2. p \in Int /\ s \in 0..(y - 1) /\ x = p * y + s
  BY <1>1
<1>3. p = q
  <2>1. CASE p < q
    <3>1. p * y + y <= q * y
      <4>1. (p + 1) * y <= q * y
        BY <1>2, <2>1
      <4>2. QED  BY <1>2, <4>1
    <3>2. QED  BY <1>1, <1>2, <3>1
  <2>2. CASE q < p
    <3>1. q * y + y <= p * y
      <4>1. (q + 1) * y <= p * y
        BY <1>2, <2>2
      <4>2. QED  BY <1>2, <4>1
    <3>2. QED  BY <1>1, <1>2, <3>1
  <2>3. QED  BY <1>2, <2>1, <2>2
<1>4. QED  BY <1>1, <1>2, <1>3

-----------------------------------------------------------------------------
(***************************************************************************)
(* The bytes of a word, and the bits of a mask.                            *)
(***************************************************************************)
Digits == 0..(Byte - 1)

\* The word with these bytes, the first the highest.
Word(d3, d2, d1, d0) == ((d3 * Byte + d2) * Byte + d1) * Byte + d0

\* A byte has a positive number of values.
LEMMA BytePositive == Byte \in Nat \ {0}
  BY WidthAssumption, PowerPositive DEF Byte

\* Four bytes fill the width.
LEMMA OnesIs == Ones = 2^W - 1
<1> DEFINE q == W \div 4
<1>1. q \in Nat /\ W = ((q + q) + q) + q
  BY WidthAssumption
<1>2. 2^(q + q) = Byte * Byte
  BY <1>1, PowerSum DEF Byte
<1>3. 2^((q + q) + q) = 2^(q + q) * Byte
  <2>1. q + q \in Nat /\ (q + q) + q <= W
    BY <1>1
  <2>2. QED  BY <1>1, <2>1, PowerSum DEF Byte
<1>4. 2^(((q + q) + q) + q) = 2^((q + q) + q) * Byte
  <2>1. (q + q) + q \in Nat /\ ((q + q) + q) + q <= W
    BY <1>1
  <2>2. QED  BY <1>1, <2>1, PowerSum DEF Byte
<1>5. 2^W = Byte * Byte * Byte * Byte
  BY <1>1, <1>2, <1>3, <1>4
<1>6. QED  BY <1>5 DEF Ones

\* Every word has four bytes.
LEMMA WordOfBytes ==
  ASSUME NEW x \in Words
  PROVE  \E d3, d2, d1, d0 \in Digits : x = Word(d3, d2, d1, d0)
<1> DEFINE B == Byte
           y == x \div B
           z == y \div B
           t == z \div B
<1>1. B \in Nat \ {0} /\ x \in Nat /\ x <= B * B * B * B - 1
  BY BytePositive DEF Words, Ones
<1>2. y \in Nat /\ x % B \in Digits /\ x = y * B + (x % B)
  BY <1>1, Divided DEF Digits
<1>3. z \in Nat /\ y % B \in Digits /\ y = z * B + (y % B)
  BY <1>1, <1>2, Divided DEF Digits
<1>4. t \in Nat /\ z % B \in Digits /\ z = t * B + (z % B)
  BY <1>1, <1>3, Divided DEF Digits
<1>5. t \in Digits
  <2>1. SUFFICES ASSUME t >= B PROVE FALSE
    BY <1>1, <1>4 DEF Digits
  <2>2. B * B <= t * B /\ B * B \in Nat /\ t * B \in Nat
    BY <1>1, <1>4, <2>1
  <2>3. B * B <= z
    BY <1>1, <1>4, <2>2
  <2>4. (B * B) * B <= z * B /\ B * B * B \in Nat /\ z * B \in Nat
    BY <1>1, <1>3, <2>2, <2>3
  <2>5. B * B * B <= y
    BY <1>1, <1>3, <2>4
  <2>6. (B * B * B) * B <= y * B /\ B * B * B * B \in Nat /\ y * B \in Nat
    BY <1>1, <1>2, <2>4, <2>5
  <2>7. QED  BY <1>1, <1>2, <2>6
<1>6. x = Word(t, z % B, y % B, x % B)
  BY <1>2, <1>3, <1>4 DEF Word
<1>7. QED  BY <1>2, <1>3, <1>4, <1>5, <1>6

\* Four bytes are a word.
LEMMA WordIsWord ==
  ASSUME NEW d3 \in Digits, NEW d2 \in Digits, NEW d1 \in Digits, NEW d0 \in Digits
  PROVE  Word(d3, d2, d1, d0) \in Words
<1>1. d3 * Byte + d2 \in 0..(Byte * Byte - 1) /\ Byte * Byte \in Nat \ {0}
  BY BytePositive, AppendDigit DEF Digits
<1>2. /\ (d3 * Byte + d2) * Byte + d1 \in 0..(Byte * Byte * Byte - 1)
      /\ Byte * Byte * Byte \in Nat \ {0}
  BY <1>1, BytePositive, AppendDigit DEF Digits
<1>3. QED  BY <1>2, BytePositive, AppendDigit DEF Digits, Word, Words, Ones

\* htonl turns the order of the bytes round.
LEMMA HtonlReverses ==
  ASSUME NEW d3 \in Digits, NEW d2 \in Digits, NEW d1 \in Digits, NEW d0 \in Digits
  PROVE  htonl(Word(d3, d2, d1, d0)) = Word(d0, d1, d2, d3)
<1> DEFINE B == Byte
           z == d3 * B + d2
           y == z * B + d1
           x == y * B + d0
<1>1. B \in Nat \ {0} /\ d3 \in Nat /\ z \in Nat /\ y \in Nat /\ x \in Nat
  BY BytePositive DEF Digits
<1>2. x \div B = y /\ x % B = d0
  BY <1>1, Division DEF Digits
<1>3. y \div B = z /\ y % B = d1
  BY <1>1, Division DEF Digits
<1>4. z \div B = d3 /\ z % B = d2
  BY <1>1, Division DEF Digits
<1>5. d3 % B = d3
  BY <1>1 DEF Digits
<1>6. x \div (B * B) = z
  <2>1. x = z * (B * B) + (d1 * B + d0)
    BY <1>1 DEF Digits
  <2>2. B * B \in Nat \ {0} /\ d1 * B + d0 \in 0..(B * B - 1)
    BY <1>1, AppendDigit DEF Digits
  <2>3. QED  BY <1>1, <2>1, <2>2, Division
<1>7. x \div (B * B * B) = d3
  <2>1. x = d3 * (B * B * B) + ((d2 * B + d1) * B + d0)
    BY <1>1 DEF Digits
  <2>2. B * B \in Nat \ {0} /\ d2 * B + d1 \in 0..(B * B - 1)
    BY <1>1, AppendDigit DEF Digits
  <2>3. B * B * B \in Nat \ {0} /\ (d2 * B + d1) * B + d0 \in 0..(B * B * B - 1)
    BY <1>1, <2>2, AppendDigit DEF Digits
  <2>4. QED  BY <1>1, <2>1, <2>3, Division
<1>8. QED  BY <1>2, <1>3, <1>4, <1>5, <1>6, <1>7 DEF htonl, Word

\* htonl undoes itself.
LEMMA HtonlTwice == \A x \in Words : htonl(htonl(x)) = x
  BY WordOfBytes, HtonlReverses

\* The bits at the top of the word are the ones of 2^W - 2^(W - n).
LEMMA TopBits ==
  ASSUME NEW n \in 0..W, NEW k \in 0..(W - 1)
  PROVE  Bit(2^W - 2^(W - n), k) = 1 <=> k >= W - n
<1> DEFINE x == 2^W - 2^(W - n)
           P == 2^k
<1>1. W \in Nat /\ W - n \in 0..W /\ k \in 0..W /\ W - k \in 1..W
  BY WidthAssumption
<1>2. P \in Nat \ {0} /\ 2^(W - n) \in Nat \ {0}
  BY <1>1, PowerPositive
<1>3. CASE k >= W - n
  <2>1. 2^W = P * 2^(W - k)
    <3>1. k + (W - k) = W
      BY <1>1
    <3>2. QED  BY <1>1, <3>1, PowerSum
  <2>2. 2^(W - k) = 2 * 2^(W - k - 1) /\ 2^(W - k - 1) \in Nat \ {0}
    <3>1. W - k - 1 \in 0..(W - 1) /\ (W - k - 1) + 1 = W - k
      BY <1>1
    <3>2. QED  BY <1>1, <3>1, PowersAssumption, PowerPositive
  <2>3. 2^(W - n) <= P
    BY <1>1, <1>3, PowerGrows
  <2> DEFINE a == 2^(W - k) - 1
             r == P - 2^(W - n)
  <2>4. a \in Nat /\ r \in 0..(P - 1) /\ x = a * P + r
    BY <1>2, <2>1, <2>2, <2>3
  <2>5. x \div P = a
    BY <1>2, <2>4, Division
  <2>6. a % 2 = 1
    BY <2>2
  <2>7. QED  BY <1>3, <2>5, <2>6 DEF Bit
<1>4. CASE k < W - n
  <2>1. 2^(W - n) = P * 2^(W - n - k)
    <3>1. k + (W - n - k) = W - n /\ W - n - k \in Nat
      BY <1>1, <1>4
    <3>2. QED  BY <1>1, <3>1, PowerSum
  <2>2. 2^(W - n - k) = 2 * 2^(W - n - k - 1) /\ 2^(W - n - k - 1) \in Nat \ {0}
    <3>1. W - n - k - 1 \in 0..(W - 1) /\ (W - n - k - 1) + 1 = W - n - k
      BY <1>1, <1>4
    <3>2. QED  BY <1>1, <3>1, PowersAssumption, PowerPositive
  <2>3. 2^W = 2^(W - n) * 2^n /\ 2^n \in Nat \ {0}
    <3>1. (W - n) + n = W
      BY <1>1
    <3>2. QED  BY <1>1, <3>1, PowerSum, PowerPositive
  <2> DEFINE b == 2^(W - n - k - 1) * (2^n - 1)
             a == 2 * b
  <2>4. b \in Nat /\ a \in Nat /\ x = a * P + 0
    BY <1>2, <2>1, <2>2, <2>3
  <2>5. x \div P = a
    BY <1>2, <2>4, Division
  <2>6. a % 2 = 0
    BY <2>4
  <2>7. Bit(x, k) = 0
    BY <2>5, <2>6 DEF Bit
  <2>8. ~(k >= W - n)
    BY <1>1, <1>4
  <2>9. QED  BY <2>7, <2>8
<1>5. QED  BY <1>1, <1>3, <1>4

\* The word before htonl.
LEMMA MaskBits ==
  ASSUME NEW n \in 0..W
  PROVE  Not(ShiftRight(Ones, n)) = 2^W - 2^(W - n)
<1>1. W \in Nat /\ W - n \in 0..W /\ n + (W - n) = W
  BY WidthAssumption
<1>2. 2^n \in Nat \ {0} /\ 2^(W - n) \in Nat \ {0} /\ 2^W = 2^n * 2^(W - n)
  BY <1>1, PowerPositive, PowerSum
<1>3. Ones = (2^(W - n) - 1) * 2^n + (2^n - 1)
  BY <1>2, OnesIs
<1>4. ShiftRight(Ones, n) = 2^(W - n) - 1
  <2>1. 2^(W - n) - 1 \in Nat /\ 2^n - 1 \in 0..(2^n - 1)
    BY <1>2
  <2>2. Ones \div 2^n = 2^(W - n) - 1
    BY <1>2, <1>3, <2>1, Division
  <2>3. QED  BY <2>2 DEF ShiftRight
<1>5. QED  BY <1>2, <1>4, OnesIs DEF Not

\* tuntap_set_ip of src/tuntap.c: the mask it computes for a prefix length up
\* to the width, read in network order, has the bits of the prefix set and no
\* other.
THEOREM MaskIsPrefix == \A n \in 0..W : \A m \in Masks(n) : IsPrefix(m, n)
<1> SUFFICES ASSUME NEW n \in 0..W, NEW m \in Masks(n) PROVE IsPrefix(m, n)
  OBVIOUS
<1> DEFINE x == 2^W - 2^(W - n)
<1>1. 2^W \in Nat \ {0} /\ 2^(W - n) \in Nat \ {0} /\ 2^(W - n) <= 2^W
  <2>1. W - n \in 0..W /\ W \in 0..W /\ W - n <= W
    BY WidthAssumption
  <2>2. QED  BY <2>1, PowerGrows, PowerPositive
<1>2. x \in Words
  BY <1>1, OnesIs DEF Words
<1>3. m = htonl(x)
  <2>1. CASE n = W
    <3>1. W - n = 0
      BY <2>1, WidthAssumption
    <3>2. x = Ones
      BY <3>1, OnesIs, PowersAssumption
    <3>3. QED  BY <2>1, <3>2 DEF Masks
  <2>2. CASE n # W
    <3>1. n < W
      BY <2>2, WidthAssumption
    <3>2. QED  BY <2>2, <3>1, MaskBits DEF Masks
  <2>3. QED  BY <2>1, <2>2
<1>4. htonl(m) = x
  BY <1>2, <1>3, HtonlTwice
<1>5. QED  BY <1>4, TopBits DEF IsPrefix

-----------------------------------------------------------------------------
(***************************************************************************)
(* Types.                                                                  *)
(***************************************************************************)

\* The constants' assumptions, under the names the proofs cite.
LEMMA Constants == /\ None \notin Ifs /\ None \notin Handles
                   /\ Gone \notin Ifs /\ None # Gone
                   /\ NoName \notin IfNames /\ Netmasks \subseteq Int
                   /\ BadHws \subseteq HwAddrs /\ NoHw \notin HwAddrs
                   /\ Mtus \subseteq Int /\ AdminTouches \subseteq Attrs
  BY NoneAssumption, NameAssumption, NetmasksAssumption, HwAssumption,
     MtuAssumption, TouchesAssumption

\* The masks of tuntap_set_ip are words, whatever the width.
LEMMA HtonlWord == ASSUME NEW x \in Nat PROVE htonl(x) \in Words
<1>1. \A y \in Nat : y % Byte \in Digits
  BY BytePositive, Divided DEF Digits
<1>2. x \div Byte \in Nat /\ x \div (Byte * Byte) \in Nat
      /\ x \div (Byte * Byte * Byte) \in Nat
  <2>1. Byte * Byte \in Nat \ {0} /\ Byte * Byte * Byte \in Nat \ {0}
    BY BytePositive
  <2>2. QED  BY <2>1, BytePositive, Divided
<1>3. QED  BY <1>1, <1>2, WordIsWord DEF htonl, Word

\* Every mask that tuntap_set_ip may compute is a word.
LEMMA WordsHold ==
  /\ 0 \in Words
  /\ \A n \in Int : ~NetmaskRefused(n) => Masks(n) \subseteq Words
<1>1. Ones \in Nat
  BY OnesIs, PowerPositive, WidthAssumption
<1>2. ASSUME NEW n \in 0..W
      PROVE  Not(ShiftRight(Ones, n)) \in Nat
  <2>1. W - n \in 0..W /\ W \in 0..W
    BY WidthAssumption
  <2>2. 2^(W - n) <= 2^W /\ 2^W \in Nat /\ 2^(W - n) \in Nat
    BY <2>1, PowerGrows, PowerPositive
  <2>3. QED  BY <2>2, MaskBits
<1>3. ASSUME NEW n \in Int, ~NetmaskRefused(n)
      PROVE  Masks(n) \subseteq Words
  <2>1. n \in Nat /\ n % W \in 0..W /\ W \in Nat
    BY <1>3, WidthAssumption DEF NetmaskRefused
  <2>2. htonl(Ones) \in Words
    BY <1>1, HtonlWord
  <2>3. n < W => htonl(Not(ShiftRight(Ones, n))) \in Words
    BY <1>2, <2>1, HtonlWord
  <2>4. htonl(Not(ShiftRight(Ones, n % W))) \in Words
    BY <1>2, <2>1, HtonlWord
  <2>5. htonl(Not(0)) \in Words
    BY <1>1, HtonlWord DEF Not
  <2>6. QED  BY <2>1, <2>2, <2>3, <2>4, <2>5 DEF Masks
<1>4. QED  BY <1>1, <1>3 DEF Words

\* An interface keeps its type when one attribute is written with a value of
\* its type, and the marks stay sets of attributes.
LEMMA MarkShape ==
  ASSUME NEW w, NEW i \in Ifs, NEW attr \in Attrs,
         foreign \in [Ifs -> SUBSET Attrs], Mark(w, i, attr)
  PROVE  foreign' \in [Ifs -> SUBSET Attrs]
  BY DEF Mark

\* Writing an attribute of its type keeps the types of the interfaces.
LEMMA SetShape ==
  ASSUME Shape, NEW w, NEW i \in Ifs, NEW attr \in Attrs, NEW value, Set(w, i, attr, value),
         \/ attr = "name" /\ value \in IfNames
         \/ attr = "flags" /\ value \in SUBSET Flags
         \/ attr = "hwaddr" /\ value \in HwAddrs
         \/ attr = "mtu" /\ value \in Int
         \/ attr = "mask" /\ value \in Words \cup {ClassMask}
         \/ attr = "addr6" /\ value \in SUBSET (Addrs6 \X Int)
  PROVE  link' \in [Ifs -> Links] /\ foreign' \in [Ifs -> SUBSET Attrs]
<1>1. foreign' \in [Ifs -> SUBSET Attrs]
  BY MarkShape DEF Shape, Set
<1>2. link \in [Ifs -> Links] /\ link' = [link EXCEPT ![i] = [link[i] EXCEPT ![attr] = value]]
  BY DEF Shape, Set
<1>3. [link[i] EXCEPT ![attr] = value] \in Links
  <2>1. link[i] \in Links
    BY <1>2
  <2>2. QED  BY <2>1 DEF Links
<1>4. QED  BY <1>1, <1>2, <1>3

\* So does a new IPv4 address, with the mask of its class.
LEMMA SetAddrShape ==
  ASSUME Shape, NEW w, NEW i \in Ifs, NEW addr \in Addrs4 \cup {NoAddr}, SetAddr(w, i, addr)
  PROVE  link' \in [Ifs -> Links] /\ foreign' \in [Ifs -> SUBSET Attrs]
<1>1. foreign' \in [Ifs -> SUBSET Attrs]
  BY MarkShape DEF Shape, SetAddr, Attrs
<1>2. [link[i] EXCEPT !.addr = addr, !.mask = ClassMask] \in Links
  <2>1. link[i] \in Links
    BY DEF Shape
  <2>2. QED  BY <2>1 DEF Links
<1>3. QED  BY <1>1, <1>2 DEF Shape, SetAddr

\* The interfaces that are made and that are absent are of their types.
LEMMA AbsentShape ==
  Absent \in Links /\ \A type \in Modes : FreshLinks(type) \subseteq Links
<1>1. Absent \in Links
  BY WordsHold DEF Absent, Links
<1>2. ASSUME NEW type \in Modes, NEW name \in IfNames, NEW hw \in HwAddrs \cup {NoHw}
      PROVE  NewLink(type, name, hw) \in Links
  BY <1>1 DEF Links, NewLink
<1>3. ASSUME NEW type \in Modes, NEW new \in FreshLinks(type)
      PROVE  new \in Links
  <2>1. PICK name \in FreeNames, hw \in NewHws(type) :
               new = NewLink(type, name, hw)
    BY <1>3 DEF FreshLinks
  <2>2. name \in IfNames /\ hw \in HwAddrs \cup {NoHw}
    BY DEF FreeNames, NewHws
  <2>3. QED  BY <1>2, <2>1, <2>2
<1>4. QED  BY <1>1, <1>3

\* A deletion keeps the types.
LEMMA RemoveShape ==
  ASSUME Shape, NEW i \in Ifs, Remove(i)
  PROVE  /\ link' \in [Ifs -> Links]
         /\ foreign' \in [Ifs -> SUBSET Attrs]
         /\ req' \in [Handles -> Reqs]
<1>1. ASSUME NEW g \in Handles
      PROVE  [req[g] EXCEPT !.ifc = None] \in Reqs
  BY DEF Shape, Reqs
<1>2. QED  BY <1>1, AbsentShape DEF Shape, Remove

\* So do the arguments of a tuntap_set_ip, whose masks are words.
LEMMA ReqShape ==
  /\ NoReq \in Reqs
  /\ \A a \in Addrs4 \cup Addrs6, n \in Netmasks : ~NetmaskRefused(n) =>
       \A m \in Masks(n) \cup {0} :
         [addr |-> a, netmask |-> n, mask |-> m, ifc |-> None] \in Reqs
<1>1. ASSUME NEW n \in Netmasks, ~NetmaskRefused(n), NEW m \in Masks(n) \cup {0}
      PROVE  n \in Int /\ m \in Words
  BY <1>1, Constants, WordsHold
<1>2. 0 \in Words
  BY WordsHold
<1>3. QED  BY <1>1, <1>2 DEF NoReq, Reqs
\* The first state has the types.
LEMMA InitShape == Init => Shape
  BY AbsentShape, ReqShape DEF Init, Shape

\* A start keeps the types, also of the address it saves or fails to.
LEMMA StartShape ==
  ASSUME Shape, NEW h \in Handles, NEW type \in Modes, tuntap_start(h, type)
  PROVE  Shape'
<1>1. PICK i \in Ifs :
        /\ \/ \E new \in FreshLinks(type) : link' = [link EXCEPT ![i] = new]
           \/ link' = link
        /\ tun_fd' = [tun_fd EXCEPT ![h] = i]
        /\ if_name' = [if_name EXCEPT ![h] = link'[i].name]
        /\ flags' = [flags EXCEPT ![h] = link'[i].flags]
        /\ SaveHwaddr(h, i)
        /\ foreign' = [foreign EXCEPT ![i] = {}]
  BY DEF tuntap_start
<1>2. link' \in [Ifs -> Links]
  BY <1>1, AbsentShape DEF Shape
<1>3. /\ link'[i].name \in IfNames \cup {NoName}
      /\ link'[i].flags \in SUBSET Flags
      /\ link'[i].hwaddr \in HwAddrs \cup {NoHw}
  <2>1. link'[i] \in Links
    BY <1>2
  <2>2. QED  BY <2>1 DEF Links
<1>4. hwaddr' \in [Handles -> HwAddrs \cup {NoHw}]
  BY <1>1, <1>3 DEF Shape, SaveHwaddr
<1>5. QED  BY <1>1, <1>2, <1>3, <1>4 DEF Shape, tuntap_start, callVars

\* A release keeps the types, whether the interface stays or goes.
LEMMA ReleaseShape ==
  ASSUME Shape, NEW h \in Handles, tuntap_release(h)
  PROVE  Shape'
<1>1. /\ link' \in [Ifs -> Links]
      /\ foreign' \in [Ifs -> SUBSET Attrs]
      /\ req' \in [Handles -> Reqs]
  BY RemoveShape DEF Shape, tuntap_release
<1>2. QED  BY <1>1 DEF Shape, tuntap_release

\* The calls of one ioctl.
LEMMA CallShape ==
  ASSUME Shape, NEW h \in Handles,
         \/ tuntap_up(h) \/ tuntap_down(h)
         \/ \E mtu \in Mtus : tuntap_set_mtu(h, mtu)
         \/ \E hw \in HwAddrs : tuntap_set_hwaddr(h, hw)
         \/ \E name \in IfNames : tuntap_set_ifname(h, name)
  PROVE  Shape'
<1>1. ASSUME NEW new, SetFlags(h, new), new \in SUBSET Flags
      PROVE  Shape'
  <2>1. link' \in [Ifs -> Links] /\ foreign' \in [Ifs -> SUBSET Attrs]
    BY <1>1, SetShape DEF SetFlags, Shape, Attrs
  <2>2. QED  BY <1>1, <2>1 DEF SetFlags, Shape, callVars
<1>2. CASE tuntap_up(h) \/ tuntap_down(h)
  BY <1>1, <1>2 DEF tuntap_up, tuntap_down, Shape, Flags
<1>3. ASSUME NEW mtu \in Mtus, tuntap_set_mtu(h, mtu)
      PROVE  Shape'
  <2>1. link' \in [Ifs -> Links] /\ foreign' \in [Ifs -> SUBSET Attrs]
    BY <1>3, SetShape, Constants DEF tuntap_set_mtu, Shape, Attrs
  <2>2. QED  BY <1>3, <2>1 DEF tuntap_set_mtu, Shape, devVars, callVars
<1>4. ASSUME NEW hw \in HwAddrs, tuntap_set_hwaddr(h, hw)
      PROVE  Shape'
  <2>1. link' \in [Ifs -> Links] /\ foreign' \in [Ifs -> SUBSET Attrs]
    BY <1>4, SetShape DEF tuntap_set_hwaddr, Shape, Attrs
  <2>2. QED  BY <1>4, <2>1 DEF tuntap_set_hwaddr, Shape, callVars
<1>5. ASSUME NEW name \in IfNames, tuntap_set_ifname(h, name)
      PROVE  Shape'
  <2>1. link' \in [Ifs -> Links] /\ foreign' \in [Ifs -> SUBSET Attrs]
    BY <1>5, SetShape DEF tuntap_set_ifname, Shape, Attrs
  <2>2. if_name' \in [Handles -> IfNames \cup {NoName}]
    BY <1>5 DEF tuntap_set_ifname, CacheName, Shape
  <2>3. QED  BY <1>5, <2>1, <2>2 DEF tuntap_set_ifname, Shape, callVars
<1>6. QED  BY <1>2, <1>3, <1>4, <1>5

\* The steps of tuntap_set_ip.
LEMMA SetIpShape ==
  ASSUME Shape, Family, NEW h \in Handles,
         \/ \E addr \in Addrs4, n \in Netmasks : set_ipv4_addr(h, addr, n)
         \/ \E addr \in Addrs6, n \in Netmasks : set_ipv6_socket(h, addr, n)
         \/ set_ipv4_mask(h) \/ get_index_ok(h) \/ get_index_fails(h)
         \/ del_addr6(h) \/ set_addr6(h)
  PROVE  Shape'
<1> DEFINE LinkShape == link' \in [Ifs -> Links] /\ foreign' \in [Ifs -> SUBSET Attrs]
           CallOK == /\ pc' \in [Handles -> {"idle", "setmask", "getindex", "del6", "set6"}]
                     /\ req' \in [Handles -> Reqs]
<1>1. req[h] \in Reqs
  BY DEF Shape
<1>2. Return(h) => CallOK
  BY ReqShape DEF Return, Goto, Shape
<1>3. ASSUME NEW addr \in Addrs4, NEW n \in Netmasks, set_ipv4_addr(h, addr, n)
      PROVE  Shape'
  <2>2. LinkShape
    BY <1>3, SetAddrShape DEF set_ipv4_addr, Shape
  <2>3. CallOK
    BY <1>3, ReqShape DEF set_ipv4_addr, Goto, Shape
  <2>4. QED  BY <1>3, <2>2, <2>3 DEF set_ipv4_addr, Shape, devVars
<1>4. ASSUME NEW addr \in Addrs6, NEW n \in Netmasks, set_ipv6_socket(h, addr, n)
      PROVE  Shape'
  <2>2. CallOK
    BY <1>4, ReqShape DEF set_ipv6_socket, Goto, Shape, callVars
  <2>3. QED  BY <1>4, <2>2 DEF set_ipv6_socket, Shape, devVars
<1>5. CASE set_ipv4_mask(h)
  <2>1. req[h].mask \in Words \cup {ClassMask}
    BY <1>1 DEF Reqs
  <2>2. LinkShape
    BY <1>5, <2>1, SetShape DEF set_ipv4_mask, Shape, Attrs
  <2>3. QED  BY <1>2, <1>5, <2>2 DEF set_ipv4_mask, Shape, devVars
<1>6. CASE get_index_ok(h)
  <2>1. \A i \in Ifs : [req[h] EXCEPT !.ifc = i] \in Reqs
    BY <1>1 DEF Reqs
  <2>2. CallOK
    BY <1>6, <2>1 DEF get_index_ok, Goto, Shape
  <2>3. QED  BY <1>6, <2>2 DEF get_index_ok, Shape, devVars
<1>7. CASE get_index_fails(h)
  BY <1>2, <1>7 DEF get_index_fails, Shape, devVars
<1>8. CASE del_addr6(h)
  <2>1. LinkShape
    <3>1. ASSUME NEW i \in Ifs
          PROVE  [link[i] EXCEPT !.addr6 = @ \ {<<AnyAddr6, 0>>}] \in Links
      <4>1. link[i] \in Links
        BY DEF Shape
      <4>2. QED  BY <4>1 DEF Links
    <3>2. QED  BY <1>8, <3>1 DEF del_addr6, Shape
  <2>2. QED  BY <1>8, <2>1 DEF del_addr6, Goto, Shape, devVars
<1>9. CASE set_addr6(h)
  <2>1. ASSUME NEW i \in Ifs
        PROVE  link[i].addr6 \cup {<<req[h].addr, req[h].netmask>>}
                 \in SUBSET (Addrs6 \X Int)
    <3>1. link[i] \in Links
      BY DEF Shape
    <3>2. req[h].addr \in Addrs6 /\ req[h].netmask \in Int
      BY <1>1, <1>9 DEF set_addr6, Family, Reqs
    <3>3. QED  BY <3>1, <3>2 DEF Links
  <2>2. LinkShape
    BY <1>9, <2>1, SetShape DEF set_addr6, Shape, Attrs
  <2>3. QED  BY <1>2, <1>9, <2>2 DEF set_addr6, Shape, devVars
<1>10. QED  BY <1>3, <1>4, <1>5, <1>6, <1>7, <1>8, <1>9

\* So does what somebody else does.
LEMMA AdminShape ==
  ASSUME Shape, NEW i \in Ifs, Admin(i)
  PROVE  Shape'
<1>1. CASE AdminSets(i)
  <2>1. link' \in [Ifs -> Links] /\ foreign' \in [Ifs -> SUBSET Attrs]
    <3>2. CASE \E a \in Addrs4 \cup {NoAddr} : SetAddr(None, i, a)
      BY <3>2, SetAddrShape
    <3>3. CASE \E f \in SUBSET Flags : Set(None, i, "flags", f)
      BY <3>3, SetShape DEF Attrs
    <3>4. CASE \E hw \in HwAddrs : Set(None, i, "hwaddr", hw)
      BY <3>4, SetShape DEF Attrs
    <3>5. CASE \E name \in IfNames : Set(None, i, "name", name)
      BY <3>5, SetShape DEF Attrs
    <3>6. QED  BY <1>1, <3>2, <3>3, <3>4, <3>5 DEF AdminSets
  <2>2. QED  BY <1>1, <2>1 DEF AdminSets, Shape, devVars, callVars
<1>2. CASE AdminDeletes(i)
  BY <1>2, RemoveShape DEF AdminDeletes, Shape
<1>3. CASE AdminCreates(i)
  BY <1>3, AbsentShape DEF AdminCreates, Shape, devVars, callVars
<1>4. QED  BY <1>1, <1>2, <1>3 DEF Admin

\* Every step keeps the types.
LEMMA ShapeStep == Shape /\ Family /\ [Next]_vars => Shape'
<1>1. CASE UNCHANGED vars
  BY <1>1 DEF vars, devVars, callVars, Shape
<1>2. ASSUME Shape, Family, NEW h \in Handles, Life(h) \/ Configure(h)
      PROVE  Shape'
  BY <1>2, StartShape, ReleaseShape, CallShape, SetIpShape DEF Life, Configure
<1>3. QED  BY <1>1, <1>2, AdminShape DEF Next

\* Every step keeps a call within its family of addresses.
LEMMA FamilyStep == Shape /\ Family /\ [Next]_vars => Family'
<1> SUFFICES ASSUME Shape, Family, [Next]_vars PROVE Family'
  OBVIOUS
<1>0. /\ pc \in [Handles -> {"idle", "setmask", "getindex", "del6", "set6"}]
      /\ req \in [Handles -> Reqs]
  BY DEF Shape
<1>1. CASE UNCHANGED callVars
  BY <1>1 DEF Family, callVars
<1>2. CASE pc' = pc /\ \E i \in Ifs : Remove(i)
  <2>1. \A g \in Handles : req'[g].addr = req[g].addr
    BY <1>0, <1>2 DEF Remove, Reqs
  <2>2. QED  BY <1>2, <2>1 DEF Family
<1>3. ASSUME NEW h \in Handles, pc'[h] \in {"idle", "setmask"} \/ req'[h].addr \in Addrs6,
             \A g \in Handles \ {h} : pc'[g] = pc[g] /\ req'[g] = req[g]
      PROVE  Family'
  BY <1>3 DEF Family
<1>4. ASSUME NEW h \in Handles, Life(h)
      PROVE  Family'
  BY <1>1, <1>2, <1>4 DEF Life, tuntap_start, tuntap_release, callVars, Family
<1>5. ASSUME NEW h \in Handles, Configure(h)
      PROVE  Family'
  <2>1. CASE \/ \E addr \in Addrs4, n \in Netmasks : set_ipv4_addr(h, addr, n)
             \/ set_ipv4_mask(h) \/ get_index_fails(h) \/ set_addr6(h)
    BY <1>0, <1>1, <1>3, <2>1
       DEF set_ipv4_addr, set_ipv4_mask, get_index_fails, set_addr6, Return, Goto, Family
  <2>2. CASE \E addr \in Addrs6, n \in Netmasks : set_ipv6_socket(h, addr, n)
    BY <1>0, <1>1, <1>3, <2>2 DEF set_ipv6_socket, Goto
  <2>3. CASE get_index_ok(h) \/ del_addr6(h)
    <3>1. \A i \in Ifs : [req[h] EXCEPT !.ifc = i].addr = req[h].addr
      BY <1>0 DEF Reqs
    <3>2. QED  BY <1>0, <1>3, <2>3, <3>1 DEF get_index_ok, del_addr6, Goto, Family
  <2>4. QED
    BY <1>1, <1>5, <2>1, <2>2, <2>3
       DEF Configure, tuntap_up, tuntap_down, SetFlags, tuntap_set_mtu,
           tuntap_set_hwaddr, tuntap_set_ifname
<1>6. ASSUME NEW i \in Ifs, Admin(i)
      PROVE  Family'
  BY <1>1, <1>2, <1>6 DEF Admin, AdminSets, AdminDeletes, AdminCreates
<1>7. QED  BY <1>1, <1>4, <1>5, <1>6 DEF Next, vars

-----------------------------------------------------------------------------
(***************************************************************************)
(* What a write changes.                                                   *)
(***************************************************************************)

\* A write of one attribute leaves the others, and what is known of them.
LEMMA SetKeeps ==
  ASSUME Shape, NEW w, NEW i \in Ifs, NEW attr \in Attrs, NEW value, Set(w, i, attr, value)
  PROVE  /\ \A j \in Ifs \ {i} : link'[j] = link[j] /\ foreign'[j] = foreign[j]
         /\ \A a \in Attrs \ {attr} : a \in foreign'[i] <=> a \in foreign[i]
         /\ link'[i].type = link[i].type
         /\ attr # "name" => link'[i].name = link[i].name
         /\ attr # "flags" => link'[i].flags = link[i].flags
         /\ attr # "hwaddr" => link'[i].hwaddr = link[i].hwaddr
         /\ attr # "addr" => link'[i].addr = link[i].addr
         /\ attr = "name" => link'[i].name = value
         /\ attr = "flags" => link'[i].flags = value
         /\ attr = "hwaddr" => link'[i].hwaddr = value
         /\ attr = "mask" => link'[i].mask = value
<1>1. foreign \in [Ifs -> SUBSET Attrs] /\ link \in [Ifs -> Links] /\ link[i] \in Links
  BY DEF Shape
<1>2. link' = [link EXCEPT ![i] = [link[i] EXCEPT ![attr] = value]] /\ Mark(w, i, attr)
  BY DEF Set
<1>3. \A a \in Attrs \ {attr} : a \in foreign'[i] <=> a \in foreign[i]
  BY <1>1, <1>2 DEF Mark
<1>4. \A j \in Ifs \ {i} : foreign'[j] = foreign[j]
  BY <1>1, <1>2 DEF Mark
<1>5. link'[i] = [link[i] EXCEPT ![attr] = value]
  BY <1>1, <1>2
<1>6. /\ link'[i].type = link[i].type
      /\ attr # "name" => link'[i].name = link[i].name
      /\ attr # "flags" => link'[i].flags = link[i].flags
      /\ attr # "hwaddr" => link'[i].hwaddr = link[i].hwaddr
      /\ attr # "addr" => link'[i].addr = link[i].addr
      /\ attr = "name" => link'[i].name = value
      /\ attr = "flags" => link'[i].flags = value
      /\ attr = "hwaddr" => link'[i].hwaddr = value
      /\ attr = "mask" => link'[i].mask = value
  BY <1>1, <1>5 DEF Links, Attrs
<1>7. QED  BY <1>1, <1>2, <1>3, <1>4, <1>6

\* A new address changes address and mask of one interface, and no more.
LEMMA SetAddrKeeps ==
  ASSUME Shape, NEW w, NEW i \in Ifs, NEW addr, SetAddr(w, i, addr)
  PROVE  /\ \A j \in Ifs \ {i} : link'[j] = link[j] /\ foreign'[j] = foreign[j]
         /\ \A a \in Attrs \ {"addr"} : a \in foreign'[i] <=> a \in foreign[i]
         /\ link'[i].type = link[i].type
         /\ link'[i].name = link[i].name
         /\ link'[i].flags = link[i].flags
         /\ link'[i].hwaddr = link[i].hwaddr
<1>1. foreign \in [Ifs -> SUBSET Attrs] /\ link \in [Ifs -> Links] /\ link[i] \in Links
  BY DEF Shape
<1>2. \A a \in Attrs \ {"addr"} : a \in foreign'[i] <=> a \in foreign[i]
  BY <1>1 DEF SetAddr, Mark
<1>3. \A j \in Ifs \ {i} : foreign'[j] = foreign[j]
  BY <1>1 DEF SetAddr, Mark
<1>4. link'[i] \in {link[i], [link[i] EXCEPT !.addr = addr, !.mask = ClassMask]}
  BY <1>1 DEF SetAddr
<1>5. /\ link'[i].type = link[i].type
      /\ link'[i].name = link[i].name
      /\ link'[i].flags = link[i].flags
      /\ link'[i].hwaddr = link[i].hwaddr
  BY <1>1, <1>4 DEF Links
<1>6. QED  BY <1>1, <1>2, <1>3, <1>5 DEF SetAddr

\* Whose write it was: the device's own is known to it, any other marked.
LEMMA SetMarks ==
  ASSUME Shape, NEW w, NEW i \in Ifs, NEW attr \in Attrs, NEW value, Set(w, i, attr, value)
  PROVE  ~(w \in Handles /\ tun_fd[w] = i) => attr \in foreign'[i]
  BY DEF Shape, Set, Mark

\* A device that renames its own interface marks no name as foreign.
LEMMA OwnRename ==
  ASSUME Shape, NEW h \in Handles, NEW i \in Ifs, NEW value,
         Set(h, i, "name", value), tun_fd[h] = i
  PROVE  foreign' = foreign
  BY DEF Shape, Set, Mark

\* A step that concerns no name.
Inert ==
  /\ tun_fd' = tun_fd /\ if_name' = if_name
  /\ \A i \in Ifs : /\ link'[i].name = link[i].name
                    /\ "name" \in foreign'[i] <=> "name" \in foreign[i]

\* A step that concerns no name, descriptor or mark of a name keeps the names.
LEMMA InertKeeps == Shape /\ NamesInv /\ Inert => NamesInv'
<1> SUFFICES ASSUME Shape, NamesInv, Inert PROVE NamesInv'
  OBVIOUS
<1>1. UniqueNames' /\ AttachedAlone'
  BY DEF NamesInv, UniqueNames, AttachedAlone, Exists, Inert, Shape
<1>2. NameKnown'
  BY DEF NamesInv, NameKnown, Renamed, Inert, Shape
<1>3. QED  BY <1>1, <1>2 DEF NamesInv

\* Writing another attribute than the name is such a step.
LEMMA SetInert ==
  ASSUME Shape, NEW w, NEW i \in Ifs, NEW attr \in Attrs \ {"name"}, NEW value,
         \/ Set(w, i, attr, value)
         \/ SetAddr(w, i, value)
         \/ link' = link /\ foreign' = foreign,
         UNCHANGED <<tun_fd, if_name>>
  PROVE  Inert
<1>1. "name" \in Attrs
  BY DEF Attrs
<1>2. CASE Set(w, i, attr, value)
  <2>1. /\ \A j \in Ifs \ {i} : link'[j] = link[j] /\ foreign'[j] = foreign[j]
        /\ \A a \in Attrs \ {attr} : a \in foreign'[i] <=> a \in foreign[i]
        /\ link'[i].name = link[i].name
    BY <1>2, SetKeeps
  <2>2. QED  BY <1>1, <2>1 DEF Inert
<1>3. CASE SetAddr(w, i, value)
  <2>1. /\ \A j \in Ifs \ {i} : link'[j] = link[j] /\ foreign'[j] = foreign[j]
        /\ \A a \in Attrs \ {"addr"} : a \in foreign'[i] <=> a \in foreign[i]
        /\ link'[i].name = link[i].name
    BY <1>3, SetAddrKeeps
  <2>2. QED  BY <1>1, <2>1 DEF Inert
<1>4. QED  BY <1>2, <1>3 DEF Inert
\* A cached name leads to the device's interface unless that was renamed.
LEMMA ReachesOwn ==
  ASSUME Shape, NamesInv, NEW h \in Handles, NEW i \in Ifs, Reaches(h, i)
  PROVE  i = tun_fd[h] \/ MayStray(h)
<1>1. tun_fd[h] \in Ifs \cup {Gone}
  BY DEF Shape, Reaches, Started
<1>2. CASE tun_fd[h] \in Ifs /\ ~Renamed(h)
  <2>1. link[i].name = link[tun_fd[h]].name /\ Exists(i)
    BY <1>2 DEF NamesInv, NameKnown, Reaches
  <2>2. QED  BY <1>2, <2>1 DEF NamesInv, UniqueNames
<1>3. QED  BY <1>1, <1>2 DEF MayStray

-----------------------------------------------------------------------------
(***************************************************************************)
(* Names.                                                                  *)
(***************************************************************************)
LEMMA NewLinkName ==
  ASSUME NEW type \in Modes, NEW new \in FreshLinks(type)
  PROVE  new.name # NoName /\ \A i \in Ifs : link[i].name # new.name
<1>1. PICK name \in FreeNames, hw \in NewHws(type) : new = NewLink(type, name, hw)
  BY DEF FreshLinks
<1>2. new.name = name
  BY <1>1 DEF NewLink, Absent
<1>3. QED  BY <1>2, Constants DEF FreeNames, Free

\* A start keeps the names: the interface it attaches is attached to none.
LEMMA StartNames ==
  ASSUME Inv, NEW h \in Handles, NEW type \in Modes, tuntap_start(h, type)
  PROVE  NamesInv'
<1>0. Shape /\ NamesInv /\ Shape'
  BY StartShape DEF Inv
<1>1. PICK i \in Ifs :
        /\ \/ ~Exists(i) /\ \E new \in FreshLinks(type) : link' = [link EXCEPT ![i] = new]
           \/ Exists(i) /\ ~Attached(i) /\ link' = link
        /\ tun_fd' = [tun_fd EXCEPT ![h] = i]
        /\ if_name' = [if_name EXCEPT ![h] = link'[i].name]
        /\ foreign' = [foreign EXCEPT ![i] = {}]
  BY DEF tuntap_start
<1>2. ~Attached(i)
  BY <1>0, <1>1 DEF NamesInv, AttachedAlone, Attached
<1>3. /\ \A j \in Ifs \ {i} : link'[j] = link[j] /\ foreign'[j] = foreign[j]
      /\ link'[i].name # NoName
      /\ \A j \in Ifs \ {i} : link[j].name # link'[i].name
  <2>1. CASE Exists(i) /\ link' = link
    BY <1>0, <1>1, <2>1 DEF Shape, Exists, NamesInv, UniqueNames
  <2>2. ASSUME NEW new \in FreshLinks(type), link' = [link EXCEPT ![i] = new]
        PROVE  link'[i] = new /\ \A j \in Ifs \ {i} : link'[j] = link[j]
    BY <1>0, <2>2 DEF Shape
  <2>3. QED  BY <1>0, <1>1, <2>1, <2>2, NewLinkName DEF Shape
<1>4. \A g \in Handles \ {h} : tun_fd'[g] = tun_fd[g] /\ if_name'[g] = if_name[g] /\ tun_fd[g] # i
  BY <1>0, <1>1, <1>2 DEF Shape, Attached
<1>5. tun_fd'[h] = i /\ if_name'[h] = link'[i].name
  BY <1>0, <1>1 DEF Shape
<1>6. UniqueNames'
  BY <1>0, <1>3 DEF NamesInv, UniqueNames, Exists
<1>7. AttachedAlone'
  BY <1>0, <1>3, <1>4, <1>5 DEF NamesInv, AttachedAlone, Exists, Shape
<1>8. NameKnown'
  BY <1>0, <1>3, <1>4, <1>5 DEF NamesInv, NameKnown, Renamed, Shape
<1>9. QED  BY <1>6, <1>7, <1>8 DEF NamesInv

\* An interface that nobody is attached to any more is removed.
LEMMA RemoveNames ==
  ASSUME Inv, Shape', NEW i \in Ifs, Remove(i), if_name' \in [Handles -> IfNames \cup {NoName}],
         \A g \in Handles :
           /\ tun_fd'[g] \in Ifs => tun_fd'[g] = tun_fd[g] /\ if_name'[g] = if_name[g]
           /\ tun_fd'[g] # i
  PROVE  NamesInv'
<1>0. Shape /\ NamesInv
  BY DEF Inv
<1>1. /\ \A j \in Ifs \ {i} : link'[j] = link[j] /\ foreign'[j] = foreign[j]
      /\ link'[i].name = NoName
  BY <1>0 DEF Remove, Shape, Absent
<1>2. UniqueNames'
  BY <1>0, <1>1 DEF NamesInv, UniqueNames, Exists
<1>3. AttachedAlone'
  BY <1>0, <1>1 DEF NamesInv, AttachedAlone, Exists
<1>4. NameKnown'
  BY <1>0, <1>1 DEF NamesInv, NameKnown, Renamed
<1>5. QED  BY <1>2, <1>3, <1>4 DEF NamesInv

\* A release keeps the names.
LEMMA ReleaseNames ==
  ASSUME Inv, NEW h \in Handles, tuntap_release(h)
  PROVE  NamesInv'
<1>0. Shape /\ NamesInv /\ Shape'
  BY ReleaseShape DEF Inv
<1>1. /\ tun_fd' = [tun_fd EXCEPT ![h] = None]
      /\ if_name' = [if_name EXCEPT ![h] = NoName]
  BY DEF tuntap_release
<1>2. /\ tun_fd'[h] = None
      /\ \A g \in Handles \ {h} : tun_fd'[g] = tun_fd[g] /\ if_name'[g] = if_name[g]
  BY <1>0, <1>1 DEF Shape
<1>3. CASE tun_fd[h] \in Ifs /\ Remove(tun_fd[h])
  <2>1. \A g \in Handles : /\ tun_fd'[g] \in Ifs => tun_fd'[g] = tun_fd[g] /\ if_name'[g] = if_name[g]
                           /\ tun_fd'[g] # tun_fd[h]
    BY <1>0, <1>2, <1>3, Constants DEF NamesInv, AttachedAlone
  <2>2. if_name' \in [Handles -> IfNames \cup {NoName}]
    BY <1>0 DEF Shape
  <2>3. QED  BY <1>0, <1>3, <2>1, <2>2, RemoveNames
<1>4. CASE UNCHANGED <<link, foreign>>
  BY <1>0, <1>2, <1>4, Constants
     DEF NamesInv, UniqueNames, AttachedAlone, NameKnown, Exists, Renamed, Shape
<1>5. QED  BY <1>3, <1>4 DEF tuntap_release

\* A rename to a free name keeps the names: the device that renames its own
\* caches the name, anybody else marks it.
LEMMA RenameNames ==
  ASSUME Inv, NEW w, NEW i \in Ifs, NEW name \in IfNames, Set(w, i, "name", name), Exists(i),
         tun_fd' = tun_fd, \A j \in Ifs \ {i} : link[j].name # name,
         \A g \in Handles : g = w \/ if_name'[g] = if_name[g],
         w \in Handles => Reaches(w, i) /\ if_name'[w] = name
  PROVE  NamesInv'
<1>0. Shape /\ NamesInv /\ "name" \in Attrs
  BY DEF Inv, Attrs
<1>1. /\ \A j \in Ifs \ {i} : link'[j] = link[j] /\ foreign'[j] = foreign[j]
      /\ link'[i].name = name
  <2>1. PICK attr \in Attrs : attr = "name"
    BY <1>0
  <2>2. Set(w, i, attr, name)
    BY <2>1
  <2>3. /\ \A j \in Ifs \ {i} : link'[j] = link[j] /\ foreign'[j] = foreign[j]
        /\ attr = "name" => link'[i].name = name
    BY <1>0, <2>2, SetKeeps
  <2>4. QED  BY <2>1, <2>3
<1>2. UniqueNames'
  BY <1>0, <1>1 DEF NamesInv, UniqueNames, Exists
<1>3. AttachedAlone'
  BY <1>0, <1>1, Constants DEF NamesInv, AttachedAlone, Exists
<1>4. ASSUME NEW g \in Handles, tun_fd[g] \in Ifs, "name" \notin foreign'[tun_fd[g]]
      PROVE  if_name'[g] = link'[tun_fd[g]].name
  <2>1. CASE tun_fd[g] = i
    <3>1. w \in Handles /\ tun_fd[w] = i
      BY <1>0, <1>4, <2>1, SetMarks
    <3>2. g = w
      BY <1>0, <2>1, <3>1 DEF NamesInv, AttachedAlone
    <3>3. QED  BY <1>1, <2>1, <3>1, <3>2
  <2>2. CASE tun_fd[g] # i
    <3>1. ~Renamed(g) /\ link'[tun_fd[g]].name = link[tun_fd[g]].name
      BY <1>1, <1>4, <2>2 DEF Renamed
    <3>2. ~MayStray(g)
      BY <1>4, <3>1, Constants DEF MayStray
    <3>3. g # w
      BY <1>0, <2>2, <3>2, ReachesOwn
    <3>4. QED  BY <1>0, <1>4, <3>1, <3>3 DEF NamesInv, NameKnown
  <2>3. QED  BY <2>1, <2>2
<1>5. NameKnown'
  BY <1>4 DEF NameKnown, Renamed
<1>6. QED  BY <1>2, <1>3, <1>5 DEF NamesInv
\* The calls that concern no name.
Plain(h) ==
  \/ tuntap_up(h) \/ tuntap_down(h)
  \/ \E mtu \in Mtus : tuntap_set_mtu(h, mtu)
  \/ \E hw \in HwAddrs : tuntap_set_hwaddr(h, hw)
SetIp(h) ==
  \/ \E addr \in Addrs4, n \in Netmasks : set_ipv4_addr(h, addr, n)
  \/ \E addr \in Addrs6, n \in Netmasks : set_ipv6_socket(h, addr, n)
  \/ set_ipv4_mask(h) \/ get_index_ok(h) \/ get_index_fails(h)
  \/ del_addr6(h) \/ set_addr6(h)

\* The configuration calls are those that concern no name, and the rename.
LEMMA Configures ==
  ASSUME NEW h \in Handles, Configure(h)
  PROVE  Plain(h) \/ SetIp(h) \/ \E name \in IfNames : tuntap_set_ifname(h, name)
  BY DEF Configure, Plain, SetIp

\* No configuration call but the rename concerns a name.
LEMMA CallInert ==
  ASSUME Shape, NEW h \in Handles, Plain(h) \/ SetIp(h)
  PROVE  Inert
<1> DEFINE Still == UNCHANGED <<tun_fd, if_name>>
           Quiet == link' = link /\ foreign' = foreign
<1>0. {"flags", "mtu", "hwaddr", "addr", "mask", "addr6"} \subseteq Attrs \ {"name"}
  BY DEF Attrs
<1>1. CASE tuntap_up(h) \/ tuntap_down(h)
  <2>1. /\ Still
        /\ Quiet \/ \E i \in Ifs : \E value : Set(h, i, "flags", value)
    BY <1>1 DEF tuntap_up, tuntap_down, SetFlags
  <2>2. QED  BY <1>0, <2>1, SetInert DEF Inert
<1>2. ASSUME NEW mtu \in Mtus, tuntap_set_mtu(h, mtu)
      PROVE  Inert
  <2>1. /\ Still
        /\ Quiet \/ \E i \in Ifs : Set(h, i, "mtu", mtu)
    BY <1>2 DEF tuntap_set_mtu, devVars
  <2>2. QED  BY <1>0, <2>1, SetInert DEF Inert
<1>3. ASSUME NEW hw \in HwAddrs, tuntap_set_hwaddr(h, hw)
      PROVE  Inert
  <2>1. /\ Still
        /\ Quiet \/ \E i \in Ifs : Set(h, i, "hwaddr", hw)
    BY <1>3 DEF tuntap_set_hwaddr
  <2>2. QED  BY <1>0, <2>1, SetInert DEF Inert
<1>4. ASSUME NEW addr \in Addrs4, NEW n \in Netmasks, set_ipv4_addr(h, addr, n)
      PROVE  Inert
  <2>1. /\ Still
        /\ Quiet \/ \E i \in Ifs : SetAddr(h, i, addr)
    BY <1>4 DEF set_ipv4_addr, devVars
  <2>2. QED  BY <1>0, <2>1, SetInert DEF Inert
<1>5. CASE set_ipv4_mask(h)
  <2>1. /\ Still
        /\ Quiet \/ \E i \in Ifs : Set(h, i, "mask", req[h].mask)
    BY <1>5 DEF set_ipv4_mask, devVars
  <2>2. QED  BY <1>0, <2>1, SetInert DEF Inert
<1>6. CASE \/ \E addr \in Addrs6, n \in Netmasks : set_ipv6_socket(h, addr, n)
           \/ get_index_ok(h) \/ get_index_fails(h)
  BY <1>6 DEF set_ipv6_socket, get_index_ok, get_index_fails, devVars, Inert
<1>7. CASE del_addr6(h)
  <2>1. ASSUME NEW i \in Ifs
        PROVE  [link[i] EXCEPT !.addr6 = @ \ {<<AnyAddr6, 0>>}].name = link[i].name
    <3>1. link[i] \in Links
      BY DEF Shape
    <3>2. QED  BY <3>1 DEF Links
  <2>2. \A i \in Ifs : link'[i].name = link[i].name
    BY <1>7, <2>1 DEF del_addr6, Shape
  <2>3. QED  BY <1>7, <2>2 DEF del_addr6, devVars, Inert
<1>8. CASE set_addr6(h)
  <2>1. /\ Still
        /\ Quiet \/ \E i \in Ifs : \E value : Set(h, i, "addr6", value)
    BY <1>8 DEF set_addr6, devVars
  <2>2. QED  BY <1>0, <2>1, SetInert DEF Inert
<1>9. QED  BY <1>1, <1>2, <1>3, <1>4, <1>5, <1>6, <1>7, <1>8 DEF Plain, SetIp

\* tuntap_set_ifname keeps the names.
LEMMA IfnameNames ==
  ASSUME Inv, NEW h \in Handles, NEW name \in IfNames, tuntap_set_ifname(h, name)
  PROVE  NamesInv'
<1>0. Shape /\ NamesInv
  BY DEF Inv
<1>1. CASE UNCHANGED <<link, foreign, if_name>>
  BY <1>0, <1>1, InertKeeps DEF tuntap_set_ifname, Inert
<1>2. ASSUME NEW i \in Ifs, Reaches(h, i), \A j \in Ifs \ {i} : link[j].name # name,
             Set(h, i, "name", name), CacheName(h, name)
      PROVE  NamesInv'
  <2>1. /\ if_name'[h] = name
        /\ \A g \in Handles : g = h \/ if_name'[g] = if_name[g]
    BY <1>0, <1>2 DEF CacheName, Shape
  <2>2. tun_fd' = tun_fd /\ Exists(i)
    BY <1>2 DEF tuntap_set_ifname, Reaches
  <2>3. QED  BY <1>2, <2>1, <2>2, RenameNames
<1>3. QED  BY <1>1, <1>2 DEF tuntap_set_ifname

\* Renames, deletions and creations by somebody else keep the names.
LEMMA AdminNames ==
  ASSUME Inv, NEW i \in Ifs, Admin(i)
  PROVE  NamesInv'
<1>0. Shape /\ NamesInv /\ Shape'
  BY AdminShape DEF Inv
<1>1. CASE AdminSets(i)
  <2>0. UNCHANGED <<tun_fd, if_name>> /\ Exists(i)
    BY <1>1 DEF AdminSets, devVars
  <2>1. CASE \E attr \in {"flags", "hwaddr"} : \E value : Set(None, i, attr, value)
    <3>1. {"flags", "hwaddr"} \subseteq Attrs \ {"name"}
      BY DEF Attrs
    <3>2. Inert
      BY <1>0, <2>0, <2>1, <3>1, SetInert
    <3>3. QED  BY <1>0, <3>2, InertKeeps
  <2>2. CASE \E value : SetAddr(None, i, value)
    <3>1. PICK attr \in Attrs \ {"name"} : attr = "addr"
      BY DEF Attrs
    <3>2. Inert
      BY <1>0, <2>0, <2>2, <3>1, SetInert
    <3>3. QED  BY <1>0, <3>2, InertKeeps
  <2>3. ASSUME NEW name \in IfNames, Free(name), Set(None, i, "name", name)
        PROVE  NamesInv'
    BY <2>0, <2>3, RenameNames, Constants DEF Free
  <2>4. QED  BY <1>1, <2>1, <2>2, <2>3 DEF AdminSets
<1>2. CASE AdminDeletes(i)
  <2>1. \A g \in Handles :
          /\ tun_fd'[g] \in Ifs => tun_fd'[g] = tun_fd[g] /\ if_name'[g] = if_name[g]
          /\ tun_fd'[g] # i
    BY <1>2, Constants DEF AdminDeletes
  <2>2. if_name' \in [Handles -> IfNames \cup {NoName}]
    BY <1>0 DEF Shape
  <2>3. QED  BY <1>0, <1>2, <2>1, <2>2, RemoveNames DEF AdminDeletes
<1>3. CASE AdminCreates(i)
  <2>1. PICK type \in Modes : \E new \in FreshLinks(type) : link' = [link EXCEPT ![i] = new]
    BY <1>3 DEF AdminCreates
  <2>2. PICK new \in FreshLinks(type) : link' = [link EXCEPT ![i] = new]
    BY <2>1
  <2>3. /\ link'[i] = new /\ \A j \in Ifs \ {i} : link'[j] = link[j]
        /\ new.name # NoName /\ \A j \in Ifs : link[j].name # new.name
    BY <1>0, <2>2, NewLinkName DEF Shape
  <2>4. ~Exists(i) /\ UNCHANGED <<foreign, tun_fd, if_name>>
    BY <1>3 DEF AdminCreates, devVars
  <2>5. UniqueNames'
    BY <1>0, <2>3 DEF NamesInv, UniqueNames, Exists
  <2>6. AttachedAlone'
    BY <1>0, <2>3, <2>4 DEF NamesInv, AttachedAlone, Exists
  <2>7. NameKnown'
    BY <1>0, <2>3, <2>4 DEF NamesInv, NameKnown, AttachedAlone, Renamed
  <2>8. QED  BY <2>5, <2>6, <2>7 DEF NamesInv
<1>4. QED  BY <1>1, <1>2, <1>3 DEF Admin

\* Every step keeps the names.
LEMMA NamesStep == Inv /\ [Next]_vars => NamesInv'
<1> SUFFICES ASSUME Inv, [Next]_vars PROVE NamesInv'
  OBVIOUS
<1>0. Shape /\ NamesInv
  BY DEF Inv
<1>1. CASE UNCHANGED vars
  BY <1>0, <1>1, InertKeeps DEF vars, devVars, Inert
<1>2. ASSUME NEW h \in Handles, Life(h)
      PROVE  NamesInv'
  BY <1>2, StartNames, ReleaseNames DEF Life
<1>3. ASSUME NEW h \in Handles, Configure(h)
      PROVE  NamesInv'
  BY <1>0, <1>3, Configures, CallInert, InertKeeps, IfnameNames
<1>4. QED  BY <1>1, <1>2, <1>3, AdminNames DEF Next
-----------------------------------------------------------------------------
(***************************************************************************)
(* The looked-up index, and the invariant.                                 *)
(***************************************************************************)
IndexOK(h) == req[h].ifc \in Ifs => pc[h] # "idle" /\ (req[h].ifc = tun_fd[h] \/ MayStray(h))

\* What a rename marked stays marked while the device is attached.
StaysRenamed(h) ==
  tun_fd'[h] = tun_fd[h] /\ (tun_fd[h] \in Ifs /\ Renamed(h) => "name" \in foreign'[tun_fd[h]])

\* An index that is kept stays known, if the name of its device stays marked.
LEMMA IndexKeeps ==
  ASSUME Inv, NEW h \in Handles, StaysRenamed(h),
         req'[h].ifc \in Ifs => req'[h].ifc = req[h].ifc /\ pc'[h] # "idle"
  PROVE  IndexOK(h)'
  BY DEF Inv, IndexKnown, IndexOK, MayStray, StaysRenamed, Renamed

\* No configuration call takes the mark off a name.
LEMMA ConfigureStays ==
  ASSUME Inv, NEW h \in Handles, Configure(h), NEW g \in Handles
  PROVE  StaysRenamed(g)
<1>0. Shape /\ NamesInv
  BY DEF Inv
<1>1. CASE Inert
  BY <1>1 DEF Inert, StaysRenamed, Renamed
<1>2. ASSUME NEW name \in IfNames, tuntap_set_ifname(h, name)
      PROVE  StaysRenamed(g)
  <2>1. tun_fd' = tun_fd /\ (foreign' = foreign \/ \E i \in Ifs : Mark(h, i, "name"))
    BY <1>2 DEF tuntap_set_ifname, Set
  <2>2. QED  BY <1>0, <2>1 DEF Shape, Mark, StaysRenamed, Renamed
<1>3. QED  BY <1>0, <1>1, <1>2, Configures, CallInert

\* Every step keeps what is known of the index that tuntap_sys_set_ipv6 found.
LEMMA IndexStep == Inv /\ [Next]_vars => IndexKnown'
<1> SUFFICES ASSUME Inv, [Next]_vars, NEW g \in Handles PROVE IndexOK(g)'
  BY DEF IndexKnown, IndexOK
<1>0. Shape /\ NamesInv /\ IndexOK(g) /\ req[g] \in Reqs
  BY DEF Inv, Shape, IndexKnown, IndexOK
<1>1. CASE UNCHANGED vars
  <2>1. StaysRenamed(g)
    BY <1>1 DEF vars, devVars, StaysRenamed, Renamed
  <2>2. req' = req /\ pc' = pc
    BY <1>1 DEF vars, callVars
  <2>3. QED  BY <1>0, <2>1, <2>2, IndexKeeps DEF IndexOK
<1>2. ASSUME NEW h \in Handles, NEW type \in Modes, tuntap_start(h, type)
      PROVE  IndexOK(g)'
  <2>1. req' = req /\ pc' = pc /\ pc[h] = "idle"
    BY <1>2 DEF tuntap_start, callVars
  <2>2. PICK i \in Ifs :
          /\ ~Exists(i) \/ ~Attached(i)
          /\ tun_fd' = [tun_fd EXCEPT ![h] = i] /\ foreign' = [foreign EXCEPT ![i] = {}]
    BY <1>2 DEF tuntap_start
  <2>3. CASE g = h
    BY <1>0, <2>1, <2>3 DEF IndexOK
  <2>4. CASE g # h
    <3>1. tun_fd[g] # i
      BY <1>0, <2>2 DEF NamesInv, AttachedAlone, Attached
    <3>2. StaysRenamed(g)
      BY <1>0, <2>2, <2>4, <3>1 DEF StaysRenamed, Renamed, Shape
    <3>3. QED  BY <1>0, <2>1, <3>2, IndexKeeps DEF IndexOK
  <2>5. QED  BY <2>3, <2>4
<1>3. ASSUME NEW h \in Handles, tuntap_release(h)
      PROVE  IndexOK(g)'
  <2>1. req'[g].ifc \in Ifs => req'[g].ifc = req[g].ifc
    BY <1>0, <1>3, Constants DEF tuntap_release, Remove, Reqs
  <2>2. pc' = pc /\ pc[h] = "idle" /\ tun_fd' = [tun_fd EXCEPT ![h] = None]
    BY <1>3 DEF tuntap_release
  <2>3. CASE g = h
    BY <1>0, <2>1, <2>2, <2>3 DEF IndexOK
  <2>4. CASE g # h
    <3>1. tun_fd[h] \in Ifs => tun_fd[g] # tun_fd[h]
      BY <1>0, <2>4 DEF NamesInv, AttachedAlone
    <3>2. StaysRenamed(g)
      BY <1>0, <1>3, <2>2, <2>4, <3>1 DEF tuntap_release, Remove, StaysRenamed, Renamed, Shape
    <3>3. QED  BY <1>0, <2>1, <2>2, <3>2, IndexKeeps DEF IndexOK
  <2>5. QED  BY <2>3, <2>4
<1>4. ASSUME NEW h \in Handles, Configure(h)
      PROVE  IndexOK(g)'
  <2>0. StaysRenamed(g)
    BY <1>4, ConfigureStays
  <2>1. CASE UNCHANGED <<pc, req>>
    BY <1>0, <2>0, <2>1, IndexKeeps DEF IndexOK
  <2>2. CASE Return(h)
    <3>1. g = h => req'[g].ifc = None
      BY <1>0, <2>2 DEF Return, NoReq, Shape
    <3>2. g # h => req'[g] = req[g] /\ pc'[g] = pc[g]
      BY <1>0, <2>2 DEF Return, Goto, Shape
    <3>3. QED  BY <1>0, <2>0, <3>1, <3>2, IndexKeeps, Constants DEF IndexOK
  <2>3. ASSUME NEW r, NEW step, r.ifc = None, req' = [req EXCEPT ![h] = r], Goto(h, step)
        PROVE  IndexOK(g)'
    <3>1. g = h => req'[g].ifc = None
      BY <1>0, <2>3 DEF Shape
    <3>2. g # h => req'[g] = req[g] /\ pc'[g] = pc[g]
      BY <1>0, <2>3 DEF Goto, Shape
    <3>3. QED  BY <1>0, <2>0, <3>1, <3>2, IndexKeeps, Constants DEF IndexOK
  <2>4. ASSUME NEW addr, NEW n \in Netmasks, set_ipv4_addr(h, addr, n) \/ set_ipv6_socket(h, addr, n)
        PROVE  IndexOK(g)'
    BY <2>1, <2>3, <2>4 DEF set_ipv4_addr, set_ipv6_socket, callVars
  <2>5. CASE get_index_ok(h)
    <3>1. PICK i \in Ifs : Reaches(h, i) /\ req' = [req EXCEPT ![h].ifc = i]
      BY <2>5 DEF get_index_ok
    <3>2. pc' = [pc EXCEPT ![h] = "del6"] /\ UNCHANGED <<foreign, tun_fd>>
      BY <2>5 DEF get_index_ok, Goto, devVars
    <3>3. i = tun_fd[h] \/ MayStray(h)
      BY <1>0, <3>1, ReachesOwn
    <3>4. CASE g = h
      <4>1. req'[g].ifc = i /\ pc'[g] # "idle"
        BY <1>0, <3>1, <3>2, <3>4 DEF Shape, Reqs
      <4>2. QED  BY <3>2, <3>3, <3>4, <4>1 DEF IndexOK, MayStray, Renamed
    <3>5. CASE g # h
      BY <1>0, <2>0, <3>1, <3>2, <3>5, IndexKeeps DEF IndexOK, Shape
    <3>6. QED  BY <3>4, <3>5
  <2>6. CASE del_addr6(h)
    BY <1>0, <2>0, <2>6, IndexKeeps DEF IndexOK, del_addr6, Goto, Shape
  <2>7. QED
    BY <1>4, <2>1, <2>2, <2>4, <2>5, <2>6
       DEF Configure, tuntap_up, tuntap_down, SetFlags, tuntap_set_mtu, tuntap_set_hwaddr,
           tuntap_set_ifname, set_ipv4_mask, get_index_fails, set_addr6, callVars
<1>5. ASSUME NEW i \in Ifs, AdminSets(i)
      PROVE  IndexOK(g)'
  <2>1. UNCHANGED <<pc, req, tun_fd>> /\ \E attr \in Attrs : Mark(None, i, attr)
    BY <1>5 DEF AdminSets, Set, SetAddr, devVars, callVars, Attrs
  <2>2. StaysRenamed(g)
    BY <1>0, <2>1, Constants DEF Mark, StaysRenamed, Renamed, Shape
  <2>3. QED  BY <1>0, <2>1, <2>2, IndexKeeps DEF IndexOK
<1>6. ASSUME NEW i \in Ifs, AdminDeletes(i)
      PROVE  IndexOK(g)'
  <2>1. (req'[g].ifc \in Ifs => req'[g].ifc = req[g].ifc) /\ pc' = pc
    BY <1>0, <1>6, Constants DEF AdminDeletes, Remove, Reqs
  <2>2. CASE tun_fd[g] = i
    <3>1. tun_fd'[g] = Gone
      BY <1>6, <2>2 DEF AdminDeletes
    <3>2. QED  BY <1>0, <2>1, <3>1 DEF IndexOK, MayStray
  <2>3. CASE tun_fd[g] # i
    <3>1. StaysRenamed(g)
      BY <1>0, <1>6, <2>3 DEF AdminDeletes, Remove, StaysRenamed, Renamed, Shape
    <3>2. QED  BY <1>0, <2>1, <3>1, IndexKeeps DEF IndexOK
  <2>4. QED  BY <2>2, <2>3
<1>7. ASSUME NEW i \in Ifs, AdminCreates(i)
      PROVE  IndexOK(g)'
  <2>1. UNCHANGED <<pc, req, tun_fd, foreign>>
    BY <1>7 DEF AdminCreates, devVars, callVars
  <2>2. QED  BY <1>0, <2>1, IndexKeeps DEF IndexOK, StaysRenamed, Renamed
<1>8. QED  BY <1>1, <1>2, <1>3, <1>4, <1>5, <1>6, <1>7 DEF Next, Life, Admin

\* The first state satisfies the invariant.
LEMMA InitInv == Init => Inv
<1> SUFFICES ASSUME Init PROVE Inv
  OBVIOUS
<1>1. Shape
  BY InitShape
<1>2. NamesInv
  BY Constants
     DEF Init, NamesInv, UniqueNames, AttachedAlone, NameKnown, Exists, Absent
<1>3. IndexKnown
  BY Constants DEF Init, IndexKnown, NoReq
<1>4. Family
  BY DEF Init, Family
<1>5. QED  BY <1>1, <1>2, <1>3, <1>4 DEF Inv

\* Names are unique, a descriptor is alone on its interface, the cached name
\* and a looked-up index lead to it until somebody else renames or deletes it.
THEOREM Invariance == Spec => []Inv
<1>1. Inv /\ [Next]_vars => Inv'
  BY ShapeStep, FamilyStep, NamesStep, IndexStep DEF Inv
<1>2. QED  BY <1>1, InitInv, PTL DEF Spec
-----------------------------------------------------------------------------
(***************************************************************************)
(* The properties.                                                         *)
(***************************************************************************)

\* A configuration call changes what it reaches by name or by index.
LEMMA Touches ==
  ASSUME Shape, NEW h \in Handles, Configure(h), NEW i \in Ifs, link'[i] # link[i]
  PROVE  Reaches(h, i) \/ i = req[h].ifc
<1>1. ASSUME NEW j \in Ifs, NEW attr \in Attrs, NEW value,
             Set(h, j, attr, value) \/ SetAddr(h, j, value)
      PROVE  i = j
  BY <1>1, SetKeeps, SetAddrKeeps
<1>2. {"name", "flags", "mtu", "hwaddr", "addr", "mask", "addr6"} \subseteq Attrs
  BY DEF Attrs
<1>3. CASE tuntap_up(h) \/ tuntap_down(h)
  BY <1>1, <1>2, <1>3 DEF tuntap_up, tuntap_down, SetFlags
<1>4. CASE \E mtu \in Mtus : tuntap_set_mtu(h, mtu)
  BY <1>1, <1>2, <1>4 DEF tuntap_set_mtu
<1>5. CASE \E hw \in HwAddrs : tuntap_set_hwaddr(h, hw)
  BY <1>1, <1>2, <1>5 DEF tuntap_set_hwaddr
<1>6. CASE \E name \in IfNames : tuntap_set_ifname(h, name)
  BY <1>1, <1>2, <1>6 DEF tuntap_set_ifname
<1>7. CASE \E addr \in Addrs4, n \in Netmasks : set_ipv4_addr(h, addr, n)
  BY <1>1, <1>2, <1>7 DEF set_ipv4_addr
<1>8. CASE set_ipv4_mask(h)
  BY <1>1, <1>2, <1>8 DEF set_ipv4_mask
<1>9. CASE set_addr6(h)
  BY <1>1, <1>2, <1>9 DEF set_addr6
<1>10. CASE del_addr6(h)
  BY <1>10 DEF del_addr6, Shape
<1>11. QED
  BY <1>3, <1>4, <1>5, <1>6, <1>7, <1>8, <1>9, <1>10
     DEF Configure, set_ipv6_socket, get_index_ok, get_index_fails

\* A configuration call changes an interface other than its device's only
\* after somebody else renamed or deleted the device's.
THEOREM CallsStayHome == Spec => NeverAstray
<1> DEFINE Home(h) ==
      Configure(h) => \A i \in Ifs : link'[i] # link[i] =>
        \/ i = tun_fd[h] \/ tun_fd[h] = Gone
        \/ tun_fd[h] \in Ifs /\ "name" \in foreign[tun_fd[h]]
<1>1. ASSUME Inv, NEW h \in Handles, Configure(h), NEW i \in Ifs, link'[i] # link[i]
      PROVE  i = tun_fd[h] \/ MayStray(h)
  BY <1>1, Touches, ReachesOwn DEF Inv, IndexKnown
<1>2. Inv => \A h \in Handles : Home(h)
  BY <1>1 DEF MayStray, Renamed
<1>3. Inv /\ [Next]_vars => [\A h \in Handles : Home(h)]_vars
  BY <1>2
<1>4. QED  BY <1>3, Invariance, PTL DEF Spec, NeverAstray

\* A step that leaves the flags, and all that casts doubt on them.
FlagsStay ==
  /\ flags' = flags /\ tun_fd' = tun_fd
  /\ \A i \in Ifs : /\ link'[i].flags = link[i].flags
                    /\ {"name", "flags"} \cap foreign[i] \subseteq foreign'[i]

\* A step that touches no flags keeps them known.
LEMMA FlagsStayKeeps == Shape /\ FlagsKnown /\ FlagsStay => FlagsKnown'
  BY DEF FlagsStay, FlagsKnown, Undisputed, Shape

\* Writing another attribute touches no flags.
LEMMA SetFlagsStay ==
  ASSUME Shape, NEW w, NEW i \in Ifs, NEW attr \in Attrs \ {"flags"}, NEW value,
         \/ Set(w, i, attr, value)
         \/ SetAddr(w, i, value)
         \/ link' = link /\ foreign' = foreign,
         UNCHANGED <<tun_fd, flags>>
  PROVE  FlagsStay
<1>1. {"name", "flags"} \subseteq Attrs
  BY DEF Attrs
<1>2. CASE Set(w, i, attr, value)
  <2>1. /\ \A j \in Ifs \ {i} : link'[j] = link[j] /\ foreign'[j] = foreign[j]
        /\ \A a \in Attrs \ {attr} : a \in foreign'[i] <=> a \in foreign[i]
        /\ link'[i].flags = link[i].flags
    BY <1>2, SetKeeps
  <2>2. attr = "name" => foreign[i] \subseteq foreign'[i]
    BY <1>2 DEF Set, Mark, Shape
  <2>3. {"name", "flags"} \cap foreign[i] \subseteq foreign'[i]
    BY <1>1, <2>1, <2>2
  <2>4. QED  BY <2>1, <2>3 DEF FlagsStay
<1>3. CASE SetAddr(w, i, value)
  <2>1. /\ \A j \in Ifs \ {i} : link'[j] = link[j] /\ foreign'[j] = foreign[j]
        /\ \A a \in Attrs \ {"addr"} : a \in foreign'[i] <=> a \in foreign[i]
        /\ link'[i].flags = link[i].flags
    BY <1>3, SetAddrKeeps
  <2>2. {"name", "flags"} \cap foreign[i] \subseteq foreign'[i]
    BY <1>1, <2>1
  <2>3. QED  BY <2>1, <2>2 DEF FlagsStay
<1>4. QED  BY <1>2, <1>3 DEF FlagsStay

\* The calls that write no flags.
LEMMA CallFlags ==
  ASSUME Shape, NEW h \in Handles, Configure(h), ~(tuntap_up(h) \/ tuntap_down(h))
  PROVE  FlagsStay
<1> DEFINE Still == UNCHANGED <<tun_fd, flags>>
           Quiet == link' = link /\ foreign' = foreign
<1>0. {"name", "mtu", "hwaddr", "addr", "mask", "addr6"} \subseteq Attrs \ {"flags"}
  BY DEF Attrs
<1>1. ASSUME NEW mtu \in Mtus, tuntap_set_mtu(h, mtu)
      PROVE  FlagsStay
  <2>1. /\ Still
        /\ Quiet \/ \E i \in Ifs : Set(h, i, "mtu", mtu)
    BY <1>1 DEF tuntap_set_mtu, devVars
  <2>2. QED  BY <1>0, <2>1, SetFlagsStay DEF FlagsStay
<1>2. ASSUME NEW hw \in HwAddrs, tuntap_set_hwaddr(h, hw)
      PROVE  FlagsStay
  <2>1. /\ Still
        /\ Quiet \/ \E i \in Ifs : Set(h, i, "hwaddr", hw)
    BY <1>2 DEF tuntap_set_hwaddr
  <2>2. QED  BY <1>0, <2>1, SetFlagsStay DEF FlagsStay
<1>3. ASSUME NEW name \in IfNames, tuntap_set_ifname(h, name)
      PROVE  FlagsStay
  <2>1. /\ Still
        /\ Quiet \/ \E i \in Ifs : Set(h, i, "name", name)
    BY <1>3 DEF tuntap_set_ifname
  <2>2. QED  BY <1>0, <2>1, SetFlagsStay DEF FlagsStay
<1>4. ASSUME NEW addr \in Addrs4, NEW n \in Netmasks, set_ipv4_addr(h, addr, n)
      PROVE  FlagsStay
  <2>1. /\ Still
        /\ Quiet \/ \E i \in Ifs : SetAddr(h, i, addr)
    BY <1>4 DEF set_ipv4_addr, devVars
  <2>2. QED  BY <1>0, <2>1, SetFlagsStay DEF FlagsStay
<1>5. CASE set_ipv4_mask(h)
  <2>1. /\ Still
        /\ Quiet \/ \E i \in Ifs : Set(h, i, "mask", req[h].mask)
    BY <1>5 DEF set_ipv4_mask, devVars
  <2>2. QED  BY <1>0, <2>1, SetFlagsStay DEF FlagsStay
<1>6. CASE \/ \E addr \in Addrs6, n \in Netmasks : set_ipv6_socket(h, addr, n)
           \/ get_index_ok(h) \/ get_index_fails(h)
  BY <1>6 DEF set_ipv6_socket, get_index_ok, get_index_fails, devVars, FlagsStay
<1>7. CASE del_addr6(h)
  <2>1. ASSUME NEW i \in Ifs
        PROVE  [link[i] EXCEPT !.addr6 = @ \ {<<AnyAddr6, 0>>}].flags = link[i].flags
    <3>1. link[i] \in Links
      BY DEF Shape
    <3>2. QED  BY <3>1 DEF Links
  <2>2. \A i \in Ifs : link'[i].flags = link[i].flags
    BY <1>7, <2>1 DEF del_addr6, Shape
  <2>3. QED  BY <1>7, <2>2 DEF del_addr6, devVars, FlagsStay
<1>8. CASE set_addr6(h)
  <2>1. /\ Still
        /\ Quiet \/ \E i \in Ifs : \E value : Set(h, i, "addr6", value)
    BY <1>8 DEF set_addr6, devVars
  <2>2. QED  BY <1>0, <2>1, SetFlagsStay DEF FlagsStay
<1>9. QED  BY <1>1, <1>2, <1>3, <1>4, <1>5, <1>6, <1>7, <1>8 DEF Configure

\* Flags that are written and cached are known; a foreign interface's owner
\* is warned by the mark.
LEMMA SetFlagsKnown ==
  ASSUME Inv, FlagsKnown, NEW h \in Handles, NEW new, SetFlags(h, new)
  PROVE  FlagsKnown'
<1>0. Shape /\ NamesInv /\ {"name", "flags"} \subseteq Attrs /\ tun_fd' = tun_fd
  BY DEF Inv, Attrs, SetFlags
<1>1. CASE UNCHANGED <<link, foreign, flags>>
  BY <1>0, <1>1, FlagsStayKeeps DEF FlagsStay
<1>2. ASSUME NEW i \in Ifs, Reaches(h, i), Set(h, i, "flags", new),
             flags' = [flags EXCEPT ![h] = new]
      PROVE  FlagsKnown'
  <2>0. PICK attr \in Attrs : attr = "flags"
    BY <1>0
  <2>1. Set(h, i, attr, new)
    BY <1>2, <2>0
  <2>2. /\ \A j \in Ifs \ {i} : link'[j] = link[j] /\ foreign'[j] = foreign[j]
        /\ \A a \in Attrs \ {attr} : a \in foreign'[i] <=> a \in foreign[i]
        /\ attr = "flags" => link'[i].flags = new
        /\ ~(tun_fd[h] = i) => attr \in foreign'[i]
    <3>1. ~(tun_fd[h] = i) => attr \in foreign'[i]
      BY <1>0, <2>1, SetMarks
    <3>2. QED  BY <1>0, <2>1, <3>1, SetKeeps
  <2>3. ASSUME NEW g \in Handles, Undisputed(g, "flags")'
        PROVE  flags'[g] = link'[tun_fd'[g]].flags
    <3>1. tun_fd[g] \in Ifs /\ "flags" \notin foreign'[tun_fd[g]] /\ "name" \notin foreign'[tun_fd[g]]
      BY <1>0, <2>3 DEF Undisputed
    <3>2. CASE tun_fd[g] = i
      <4>1. g = h
        BY <1>0, <2>0, <2>2, <3>1, <3>2 DEF NamesInv, AttachedAlone
      <4>2. QED  BY <1>0, <1>2, <2>0, <2>2, <3>2, <4>1 DEF Shape
    <3>3. CASE tun_fd[g] # i
      <4>1. ~Renamed(g) /\ Undisputed(g, "flags") /\ link'[tun_fd[g]] = link[tun_fd[g]]
        BY <2>2, <3>1, <3>3 DEF Undisputed, Renamed
      <4>2. g # h
        BY <1>0, <1>2, <3>1, <3>3, <4>1, ReachesOwn, Constants DEF MayStray
      <4>3. QED  BY <1>0, <1>2, <4>1, <4>2 DEF FlagsKnown, Shape
    <3>4. QED  BY <3>2, <3>3
  <2>4. QED  BY <2>3 DEF FlagsKnown
<1>3. QED  BY <1>1, <1>2 DEF SetFlags

\* A start saves the flags of the interface it attaches.
LEMMA StartFlags ==
  ASSUME Inv, FlagsKnown, NEW h \in Handles, NEW type \in Modes, tuntap_start(h, type)
  PROVE  FlagsKnown'
<1>0. Shape /\ NamesInv /\ Shape'
  BY StartShape DEF Inv
<1>1. PICK i \in Ifs :
        /\ ~Exists(i) \/ ~Attached(i)
        /\ link' = link \/ \E new : link' = [link EXCEPT ![i] = new]
        /\ tun_fd' = [tun_fd EXCEPT ![h] = i]
        /\ flags' = [flags EXCEPT ![h] = link'[i].flags]
        /\ foreign' = [foreign EXCEPT ![i] = {}]
  BY DEF tuntap_start
<1>2. ASSUME NEW g \in Handles, Undisputed(g, "flags")'
      PROVE  flags'[g] = link'[tun_fd'[g]].flags
  <2>1. CASE g = h
    BY <1>0, <1>1, <2>1 DEF Shape
  <2>2. CASE g # h
    <3>1. tun_fd'[g] = tun_fd[g] /\ flags'[g] = flags[g] /\ tun_fd[g] \in Ifs
      BY <1>0, <1>1, <1>2, <2>2 DEF Shape, Undisputed
    <3>2. tun_fd[g] # i
      BY <1>0, <1>1, <3>1 DEF NamesInv, AttachedAlone, Attached
    <3>3. link'[tun_fd[g]] = link[tun_fd[g]] /\ foreign'[tun_fd[g]] = foreign[tun_fd[g]]
      BY <1>0, <1>1, <3>1, <3>2 DEF Shape
    <3>4. QED  BY <1>2, <3>1, <3>3 DEF Undisputed, FlagsKnown
  <2>3. QED  BY <2>1, <2>2
<1>3. QED  BY <1>2 DEF FlagsKnown

\* A deletion takes an interface away, and no known flags.
LEMMA RemoveFlags ==
  ASSUME Shape, FlagsKnown, NEW i \in Ifs, Remove(i),
         \A g \in Handles :
           /\ tun_fd'[g] \in Ifs => tun_fd'[g] = tun_fd[g] /\ flags'[g] = flags[g]
           /\ tun_fd'[g] # i
  PROVE  FlagsKnown'
<1>1. \A j \in Ifs \ {i} : link'[j] = link[j] /\ foreign'[j] = foreign[j]
  BY DEF Remove, Shape
<1>2. QED  BY <1>1 DEF FlagsKnown, Undisputed

\* A release keeps the flags of the others known.
LEMMA ReleaseFlags ==
  ASSUME Inv, FlagsKnown, NEW h \in Handles, tuntap_release(h)
  PROVE  FlagsKnown'
<1>0. Shape /\ NamesInv
  BY DEF Inv
<1>1. /\ tun_fd'[h] = None
      /\ \A g \in Handles \ {h} : tun_fd'[g] = tun_fd[g] /\ flags'[g] = flags[g]
  BY <1>0 DEF tuntap_release, Shape
<1>2. CASE tun_fd[h] \in Ifs /\ Remove(tun_fd[h])
  <2>1. \A g \in Handles : /\ tun_fd'[g] \in Ifs => tun_fd'[g] = tun_fd[g] /\ flags'[g] = flags[g]
                           /\ tun_fd'[g] # tun_fd[h]
    BY <1>0, <1>1, <1>2, Constants DEF NamesInv, AttachedAlone
  <2>2. QED  BY <1>0, <1>2, <2>1, RemoveFlags
<1>3. CASE UNCHANGED <<link, foreign>>
  BY <1>1, <1>3, Constants DEF FlagsKnown, Undisputed
<1>4. QED  BY <1>2, <1>3 DEF tuntap_release

\* Flags that somebody else sets are marked.
LEMMA AdminFlags ==
  ASSUME Inv, FlagsKnown, NEW i \in Ifs, Admin(i)
  PROVE  FlagsKnown'
<1>0. Shape /\ NamesInv /\ {"name", "flags", "hwaddr", "addr"} \subseteq Attrs
  BY DEF Inv, Attrs
<1>1. CASE AdminSets(i)
  <2>0. UNCHANGED <<tun_fd, flags>>
    BY <1>1 DEF AdminSets, devVars
  <2>1. ASSUME NEW new, Set(None, i, "flags", new)
        PROVE  FlagsKnown'
    <3>1. PICK attr \in Attrs : attr = "flags"
      BY <1>0
    <3>2. /\ \A j \in Ifs \ {i} : link'[j] = link[j] /\ foreign'[j] = foreign[j]
          /\ attr \in foreign'[i]
      BY <1>0, <2>1, <3>1, SetKeeps, SetMarks, Constants
    <3>3. QED  BY <2>0, <3>1, <3>2 DEF FlagsKnown, Undisputed
  <2>2. ASSUME NEW attr \in {"name", "hwaddr", "addr"}, NEW new,
               Set(None, i, attr, new) \/ SetAddr(None, i, new)
        PROVE  FlagsKnown'
    <3>1. attr \in Attrs \ {"flags"}
      BY <1>0
    <3>2. FlagsStay
      BY <1>0, <2>0, <2>2, <3>1, SetFlagsStay
    <3>3. QED  BY <1>0, <3>2, FlagsStayKeeps
  <2>3. QED  BY <1>1, <2>1, <2>2 DEF AdminSets
<1>2. CASE AdminDeletes(i)
  <2>1. \A g \in Handles :
          /\ tun_fd'[g] \in Ifs => tun_fd'[g] = tun_fd[g] /\ flags'[g] = flags[g]
          /\ tun_fd'[g] # i
    BY <1>2, Constants DEF AdminDeletes
  <2>2. QED  BY <1>0, <1>2, <2>1, RemoveFlags DEF AdminDeletes
<1>3. CASE AdminCreates(i)
  <2>1. UNCHANGED <<foreign, tun_fd, flags>> /\ ~Exists(i)
    BY <1>3 DEF AdminCreates, devVars
  <2>2. \A j \in Ifs \ {i} : link'[j] = link[j]
    BY <1>0, <1>3 DEF AdminCreates, Shape
  <2>3. \A g \in Handles : tun_fd[g] # i
    BY <1>0, <2>1 DEF NamesInv, AttachedAlone
  <2>4. QED  BY <2>1, <2>2, <2>3 DEF FlagsKnown, Undisputed
<1>4. QED  BY <1>1, <1>2, <1>3 DEF Admin

\* The flags that tuntap_up and tuntap_down write back are the interface's
\* until somebody else changes them or the name.
THEOREM FlagsAreKnown == Spec => []FlagsKnown
<1>1. Init => FlagsKnown
  BY Constants DEF Init, FlagsKnown, Undisputed
<1>2. ASSUME Inv, FlagsKnown, [Next]_vars
      PROVE  FlagsKnown'
  <2>0. Shape
    BY <1>2 DEF Inv
  <2>1. CASE UNCHANGED vars
    BY <1>2, <2>0, <2>1, FlagsStayKeeps DEF vars, devVars, FlagsStay
  <2>2. ASSUME NEW h \in Handles, Life(h)
        PROVE  FlagsKnown'
    BY <1>2, <2>2, StartFlags, ReleaseFlags DEF Life
  <2>3. ASSUME NEW h \in Handles, Configure(h)
        PROVE  FlagsKnown'
    <3>1. CASE tuntap_up(h) \/ tuntap_down(h)
      BY <1>2, <3>1, SetFlagsKnown DEF tuntap_up, tuntap_down
    <3>2. QED  BY <1>2, <2>0, <2>3, <3>1, CallFlags, FlagsStayKeeps
  <2>4. QED  BY <1>2, <2>1, <2>2, <2>3, AdminFlags DEF Next
<1>3. QED  BY <1>1, <1>2, Invariance, PTL DEF Spec

-----------------------------------------------------------------------------
(***************************************************************************)
(* The cached link-layer address.                                          *)
(***************************************************************************)
AddressKnown(h) ==
  Undisputed(h, "hwaddr") /\ link[tun_fd[h]].type = "tap" =>
    hwaddr[h] = link[tun_fd[h]].hwaddr \/ hwaddr[h] \in BadHws
AllKnown == \A h \in Handles : AddressKnown(h)

\* For handle g, a step that leaves the address, and all that casts doubt on it.
HwStays(g) ==
  /\ hwaddr'[g] = hwaddr[g] /\ tun_fd'[g] = tun_fd[g]
  /\ \A i \in Ifs : i = tun_fd[g] =>
       /\ link'[i].hwaddr = link[i].hwaddr /\ link'[i].type = link[i].type
       /\ {"name", "hwaddr"} \cap foreign[i] \subseteq foreign'[i]

\* A step that touches neither side of the address of a device keeps it known.
LEMMA HwStaysKeeps ==
  ASSUME NEW g \in Handles, AddressKnown(g), HwStays(g) PROVE AddressKnown(g)'
  BY DEF HwStays, AddressKnown, Undisputed

\* Writing anything but the address, or somebody else's address.
LEMMA SetHwStays ==
  ASSUME Shape, NEW w, NEW i \in Ifs, NEW attr \in Attrs, NEW value, NEW g \in Handles,
         \/ Set(w, i, attr, value)
         \/ SetAddr(w, i, value)
         \/ link' = link /\ foreign' = foreign,
         attr = "hwaddr" => i # tun_fd[g],
         tun_fd' = tun_fd, hwaddr'[g] = hwaddr[g]
  PROVE  HwStays(g)
<1>1. {"name", "hwaddr"} \subseteq Attrs
  BY DEF Attrs
<1>2. CASE Set(w, i, attr, value)
  <2>1. /\ \A j \in Ifs \ {i} : link'[j] = link[j] /\ foreign'[j] = foreign[j]
        /\ \A a \in Attrs \ {attr} : a \in foreign'[i] <=> a \in foreign[i]
        /\ link'[i].type = link[i].type
        /\ attr # "hwaddr" => link'[i].hwaddr = link[i].hwaddr
    BY <1>2, SetKeeps
  <2>2. attr = "name" => foreign[i] \subseteq foreign'[i]
    BY <1>2 DEF Set, Mark, Shape
  <2>3. attr # "hwaddr" => {"name", "hwaddr"} \cap foreign[i] \subseteq foreign'[i]
    BY <1>1, <2>1, <2>2
  <2>4. QED  BY <2>1, <2>3 DEF HwStays
<1>3. CASE SetAddr(w, i, value)
  <2>1. /\ \A j \in Ifs \ {i} : link'[j] = link[j] /\ foreign'[j] = foreign[j]
        /\ \A a \in Attrs \ {"addr"} : a \in foreign'[i] <=> a \in foreign[i]
        /\ link'[i].type = link[i].type
        /\ link'[i].hwaddr = link[i].hwaddr
    BY <1>3, SetAddrKeeps
  <2>2. {"name", "hwaddr"} \cap foreign[i] \subseteq foreign'[i]
    BY <1>1, <2>1
  <2>3. QED  BY <2>1, <2>2 DEF HwStays
<1>4. QED  BY <1>2, <1>3 DEF HwStays

\* The calls that write no address.
LEMMA CallHw ==
  ASSUME Shape, NEW h \in Handles, Configure(h),
         ~ \E hw \in HwAddrs : tuntap_set_hwaddr(h, hw), NEW g \in Handles
  PROVE  HwStays(g)
<1> DEFINE Still == UNCHANGED <<tun_fd, hwaddr>>
           Quiet == link' = link /\ foreign' = foreign
<1>0. {"name", "mtu", "flags", "addr", "mask", "addr6"} \subseteq Attrs \ {"hwaddr"}
  BY DEF Attrs
<1>1. ASSUME NEW attr \in Attrs \ {"hwaddr"}, Still,
             Quiet \/ \E i \in Ifs : \E value : Set(h, i, attr, value)
      PROVE  HwStays(g)
  <2>1. CASE Quiet
    BY <1>1, <2>1 DEF HwStays
  <2>2. ASSUME NEW i \in Ifs, NEW value, Set(h, i, attr, value)
        PROVE  HwStays(g)
    BY <1>1, <2>2, SetHwStays
  <2>3. QED  BY <1>1, <2>1, <2>2
<1>2. CASE tuntap_up(h) \/ tuntap_down(h)
  BY <1>0, <1>1, <1>2 DEF tuntap_up, tuntap_down, SetFlags
<1>3. ASSUME NEW mtu \in Mtus, tuntap_set_mtu(h, mtu)
      PROVE  HwStays(g)
  <2>1. /\ Still
        /\ Quiet \/ \E i \in Ifs : \E value : Set(h, i, "mtu", value)
    BY <1>3 DEF tuntap_set_mtu, devVars
  <2>2. QED  BY <1>0, <1>1, <2>1
<1>4. CASE \E name \in IfNames : tuntap_set_ifname(h, name)
  BY <1>0, <1>1, <1>4 DEF tuntap_set_ifname
<1>5. ASSUME NEW addr \in Addrs4, NEW n \in Netmasks, set_ipv4_addr(h, addr, n)
      PROVE  HwStays(g)
  <2>1. /\ Still
        /\ Quiet \/ \E i \in Ifs : SetAddr(h, i, addr)
    BY <1>5 DEF set_ipv4_addr, devVars
  <2>2. CASE Quiet
    BY <2>1, <2>2 DEF HwStays
  <2>3. PICK attr \in Attrs \ {"hwaddr"} : TRUE
    BY <1>0
  <2>4. ASSUME NEW i \in Ifs, SetAddr(h, i, addr)
        PROVE  HwStays(g)
    BY <2>1, <2>4, SetHwStays
  <2>5. QED  BY <2>1, <2>2, <2>4
<1>6. CASE set_ipv4_mask(h)
  BY <1>0, <1>1, <1>6 DEF set_ipv4_mask, devVars
<1>7. CASE \/ \E addr \in Addrs6, n \in Netmasks : set_ipv6_socket(h, addr, n)
           \/ get_index_ok(h) \/ get_index_fails(h)
  BY <1>7 DEF set_ipv6_socket, get_index_ok, get_index_fails, devVars, HwStays
<1>8. CASE del_addr6(h)
  <2>1. ASSUME NEW i \in Ifs
        PROVE  LET new == [link[i] EXCEPT !.addr6 = @ \ {<<AnyAddr6, 0>>}] IN
               new.hwaddr = link[i].hwaddr /\ new.type = link[i].type
    <3>1. link[i] \in Links
      BY DEF Shape
    <3>2. QED  BY <3>1 DEF Links
  <2>2. \A i \in Ifs : link'[i].hwaddr = link[i].hwaddr /\ link'[i].type = link[i].type
    BY <1>8, <2>1 DEF del_addr6, Shape
  <2>3. QED  BY <1>8, <2>2 DEF del_addr6, devVars, HwStays
<1>9. CASE set_addr6(h)
  BY <1>0, <1>1, <1>9 DEF set_addr6, devVars
<1>10. QED  BY <1>2, <1>3, <1>4, <1>5, <1>6, <1>7, <1>8, <1>9 DEF Configure

\* An address that is cached was written, or refused; a foreign interface's
\* owner is warned by the mark.
LEMMA SetHwKnown ==
  ASSUME Inv, AllKnown, NEW h \in Handles, NEW hw \in HwAddrs, tuntap_set_hwaddr(h, hw),
         "SIOCSIFHWADDR" \notin Faults, NEW g \in Handles
  PROVE  AddressKnown(g)'
<1>0. /\ Shape /\ NamesInv /\ tun_fd' = tun_fd /\ hwaddr'[h] = hw
      /\ g # h => hwaddr'[g] = hwaddr[g]
  BY DEF Inv, tuntap_set_hwaddr, Shape
<1>1. PICK attr \in Attrs : attr = "hwaddr"
  BY DEF Attrs
<1>2. SUFFICES ASSUME Undisputed(g, "hwaddr")', link'[tun_fd[g]].type = "tap"
               PROVE  hwaddr'[g] = link'[tun_fd[g]].hwaddr \/ hwaddr'[g] \in BadHws
  BY <1>0 DEF AddressKnown
<1>3. tun_fd[g] \in Ifs /\ {"name", "hwaddr"} \cap foreign'[tun_fd[g]] = {}
  BY <1>0, <1>2 DEF Undisputed
<1>4. CASE \E i \in Ifs : Reaches(h, i) /\ GoodHw(i, hw) /\ Set(h, i, attr, hw)
  <2>1. PICK i \in Ifs : Reaches(h, i) /\ Set(h, i, attr, hw)
    BY <1>4
  <2>2. /\ \A j \in Ifs \ {i} : link'[j] = link[j] /\ foreign'[j] = foreign[j]
        /\ \A a \in Attrs \ {attr} : a \in foreign'[i] <=> a \in foreign[i]
        /\ ~(tun_fd[h] = i) => attr \in foreign'[i]
    BY <1>0, <2>1, SetKeeps, SetMarks
  <2>3. link'[i].hwaddr = hw
    <3>1. link[i] \in Links /\ link \in [Ifs -> Links]
      BY <1>0 DEF Shape
    <3>2. QED  BY <1>1, <2>1, <3>1 DEF Set, Links
  <2>4. CASE tun_fd[g] = i
    <3>1. g = h
      BY <1>0, <1>1, <1>3, <2>2, <2>4 DEF NamesInv, AttachedAlone
    <3>2. QED  BY <1>0, <2>3, <2>4, <3>1
  <2>5. CASE tun_fd[g] # i
    <3>1. link'[tun_fd[g]] = link[tun_fd[g]] /\ foreign'[tun_fd[g]] = foreign[tun_fd[g]]
      BY <1>3, <2>2, <2>5
    <3>2. g # h
      BY <1>0, <1>3, <2>1, <2>5, <3>1, ReachesOwn, Constants DEF MayStray, Renamed
    <3>3. QED  BY <1>0, <1>2, <1>3, <3>1, <3>2 DEF AllKnown, AddressKnown, Undisputed
  <2>6. QED  BY <2>4, <2>5
<1>5. CASE link' = link /\ foreign' = foreign
  <2>1. CASE g # h
    BY <1>0, <1>2, <1>3, <1>5, <2>1 DEF AllKnown, AddressKnown, Undisputed
  <2>2. CASE g = h
    <3>1. Reaches(h, tun_fd[h])
      BY <1>0, <1>3, <1>5, <2>2, Constants
         DEF NamesInv, NameKnown, AttachedAlone, Reaches, Started, Renamed
    <3>2. ~Unreachable(h)
      BY <1>3, <2>2, <3>1 DEF Unreachable
    <3>3. \/ \E i \in Ifs : Reaches(h, i) /\ GoodHw(i, hw) /\ Set(h, i, attr, hw)
          \/ \E i \in Ifs : Reaches(h, i) /\ ~GoodHw(i, hw)
      BY <1>1, <3>2 DEF tuntap_set_hwaddr
    <3>4. ASSUME NEW i \in Ifs, Reaches(h, i), ~GoodHw(i, hw)
          PROVE  hw \in BadHws
      <4>1. i = tun_fd[h]
        BY <1>0, <1>3, <1>5, <2>2, <3>4, ReachesOwn, Constants DEF MayStray, Renamed
      <4>2. QED  BY <1>2, <1>5, <2>2, <3>4, <4>1 DEF GoodHw
    <3>5. QED  BY <1>0, <1>4, <2>2, <3>3, <3>4
  <2>3. QED  BY <2>1, <2>2
<1>6. QED  BY <1>1, <1>4, <1>5 DEF tuntap_set_hwaddr

\* A start saves the address of the interface it attaches.
LEMMA StartHw ==
  ASSUME Inv, AllKnown, NEW h \in Handles, NEW type \in Modes, tuntap_start(h, type),
         "SIOCGIFHWADDR" \notin Faults, NEW g \in Handles
  PROVE  AddressKnown(g)'
<1>0. Shape /\ NamesInv /\ Shape'
  BY StartShape DEF Inv
<1>1. PICK i \in Ifs :
        /\ ~Exists(i) \/ ~Attached(i)
        /\ link' = link \/ \E new : link' = [link EXCEPT ![i] = new]
        /\ tun_fd' = [tun_fd EXCEPT ![h] = i]
        /\ SaveHwaddr(h, i)
        /\ foreign' = [foreign EXCEPT ![i] = {}]
  BY DEF tuntap_start
<1>2. CASE g = h
  BY <1>0, <1>1, <1>2 DEF Shape, SaveHwaddr, AddressKnown
<1>3. CASE g # h
  <2>1. tun_fd'[g] = tun_fd[g] /\ hwaddr'[g] = hwaddr[g] /\ tun_fd[g] # i
    BY <1>0, <1>1, <1>3 DEF Shape, SaveHwaddr, NamesInv, AttachedAlone, Attached
  <2>2. \A j \in Ifs : j # i => link'[j] = link[j] /\ foreign'[j] = foreign[j]
    BY <1>0, <1>1 DEF Shape
  <2>3. HwStays(g)
    BY <2>1, <2>2 DEF HwStays
  <2>4. QED  BY <2>3, HwStaysKeeps DEF AllKnown
<1>4. QED  BY <1>2, <1>3

\* A deletion takes an interface away, and no known address.
LEMMA RemoveHw ==
  ASSUME Shape, AllKnown, NEW i \in Ifs, Remove(i), NEW g \in Handles,
         tun_fd'[g] \in Ifs => tun_fd'[g] = tun_fd[g] /\ hwaddr'[g] = hwaddr[g],
         tun_fd'[g] # i
  PROVE  AddressKnown(g)'
<1>1. \A j \in Ifs \ {i} : link'[j] = link[j] /\ foreign'[j] = foreign[j]
  BY DEF Remove, Shape
<1>2. QED  BY <1>1 DEF AllKnown, AddressKnown, Undisputed

\* A release keeps the addresses of the others known.
LEMMA ReleaseHw ==
  ASSUME Inv, AllKnown, NEW h \in Handles, tuntap_release(h), NEW g \in Handles
  PROVE  AddressKnown(g)'
<1>0. Shape /\ NamesInv
  BY DEF Inv
<1>1. IF g = h THEN tun_fd'[g] = None ELSE tun_fd'[g] = tun_fd[g] /\ hwaddr'[g] = hwaddr[g]
  BY <1>0 DEF tuntap_release, Shape
<1>2. CASE tun_fd[h] \in Ifs /\ Remove(tun_fd[h])
  <2>1. tun_fd'[g] # tun_fd[h]
    BY <1>0, <1>1, <1>2, Constants DEF NamesInv, AttachedAlone
  <2>2. QED  BY <1>0, <1>1, <1>2, <2>1, RemoveHw, Constants
<1>3. CASE UNCHANGED <<link, foreign>>
  BY <1>1, <1>3, Constants DEF AllKnown, AddressKnown, Undisputed
<1>4. QED  BY <1>2, <1>3 DEF tuntap_release

\* An address that somebody else sets is marked.
LEMMA AdminHw ==
  ASSUME Inv, AllKnown, NEW i \in Ifs, Admin(i), NEW g \in Handles
  PROVE  AddressKnown(g)'
<1>0. Shape /\ NamesInv /\ {"name", "flags", "hwaddr", "addr"} \subseteq Attrs
  BY DEF Inv, Attrs
<1>1. CASE AdminSets(i)
  <2>0. UNCHANGED <<tun_fd, hwaddr>>
    BY <1>1 DEF AdminSets, devVars
  <2>1. ASSUME NEW new, Set(None, i, "hwaddr", new)
        PROVE  AddressKnown(g)'
    <3>1. PICK attr \in Attrs : attr = "hwaddr"
      BY <1>0
    <3>2. attr \in foreign'[i]
      BY <1>0, <2>1, <3>1, SetMarks, Constants
    <3>3. CASE tun_fd[g] = i
      BY <2>0, <3>1, <3>2, <3>3 DEF AddressKnown, Undisputed
    <3>4. CASE tun_fd[g] # i
      BY <1>0, <2>0, <2>1, <3>4, SetHwStays, HwStaysKeeps DEF AllKnown
    <3>5. QED  BY <3>3, <3>4
  <2>2. ASSUME NEW attr \in {"name", "flags", "addr"}, NEW new,
               Set(None, i, attr, new) \/ SetAddr(None, i, new)
        PROVE  AddressKnown(g)'
    <3>1. attr \in Attrs \ {"hwaddr"}
      BY <1>0
    <3>2. HwStays(g)
      BY <1>0, <2>0, <2>2, <3>1, SetHwStays
    <3>3. QED  BY <3>2, HwStaysKeeps DEF AllKnown
  <2>3. QED  BY <1>1, <2>1, <2>2 DEF AdminSets
<1>2. CASE AdminDeletes(i)
  <2>1. /\ tun_fd'[g] \in Ifs => tun_fd'[g] = tun_fd[g] /\ hwaddr'[g] = hwaddr[g]
        /\ tun_fd'[g] # i
    BY <1>2, Constants DEF AdminDeletes
  <2>2. QED  BY <1>0, <1>2, <2>1, RemoveHw DEF AdminDeletes
<1>3. CASE AdminCreates(i)
  <2>1. UNCHANGED <<foreign, tun_fd, hwaddr>> /\ ~Exists(i)
    BY <1>3 DEF AdminCreates, devVars
  <2>2. \A j \in Ifs \ {i} : link'[j] = link[j]
    BY <1>0, <1>3 DEF AdminCreates, Shape
  <2>3. tun_fd[g] # i
    BY <1>0, <2>1 DEF NamesInv, AttachedAlone
  <2>4. QED  BY <2>1, <2>2, <2>3, HwStaysKeeps DEF AllKnown, HwStays
<1>4. QED  BY <1>1, <1>2, <1>3 DEF Admin

\* The cached address is the tap's, or one that the kernel refused, until
\* somebody else changes it or the name.
THEOREM HwaddrIsKnown == Spec => []HwaddrKnown
<1> DEFINE NoFault == {"SIOCGIFHWADDR", "SIOCSIFHWADDR"} \cap Faults = {}
           Good == NoFault => AllKnown
<1>1. Init => Good
  BY Constants DEF Init, AllKnown, AddressKnown, Undisputed
<1>2. ASSUME Inv, Good, [Next]_vars
      PROVE  Good'
  <2>0. SUFFICES ASSUME NoFault, AllKnown, NEW g \in Handles PROVE AddressKnown(g)'
    BY <1>2 DEF AllKnown
  <2>1. CASE UNCHANGED vars
    BY <2>0, <2>1 DEF vars, devVars, AllKnown, AddressKnown, Undisputed
  <2>2. ASSUME NEW h \in Handles, Life(h)
        PROVE  AddressKnown(g)'
    BY <1>2, <2>0, <2>2, StartHw, ReleaseHw DEF Life
  <2>3. ASSUME NEW h \in Handles, Configure(h)
        PROVE  AddressKnown(g)'
    <3>1. CASE \E hw \in HwAddrs : tuntap_set_hwaddr(h, hw)
      BY <1>2, <2>0, <3>1, SetHwKnown
    <3>2. CASE ~ \E hw \in HwAddrs : tuntap_set_hwaddr(h, hw)
      BY <1>2, <2>0, <2>3, <3>2, CallHw, HwStaysKeeps DEF Inv, AllKnown
    <3>3. QED  BY <3>1, <3>2
  <2>4. QED  BY <1>2, <2>0, <2>1, <2>2, <2>3, AdminHw DEF Next
<1>3. Good => HwaddrKnown
  BY DEF AllKnown, AddressKnown, HwaddrKnown
<1>4. QED  BY <1>1, <1>2, <1>3, Invariance, PTL DEF Spec

-----------------------------------------------------------------------------
\* The socket is open exactly while the IPv6 half of tuntap_set_ip needs it.
SockInv ==
  /\ sock6 \in [Handles -> BOOLEAN]
  /\ \A h \in Handles : sock6[h] => pc[h] \in {"getindex", "del6", "set6"}

\* The IPv6 socket is open only between its opening and its closing.
LEMMA SockInvariance == Spec => []SockInv
<1>1. Init => SockInv
  BY DEF Init, SockInv
<1>2. ASSUME Shape, SockInv, [Next]_vars
      PROVE  SockInv'
  <2>0. pc \in [Handles -> {"idle", "setmask", "getindex", "del6", "set6"}]
    BY <1>2 DEF Shape
  <2>1. CASE UNCHANGED <<pc, sock6>>
    BY <1>2, <2>1 DEF SockInv
  <2>2. ASSUME NEW h \in Handles, Configure(h)
        PROVE  SockInv'
    <3>1. CASE \/ \E addr \in Addrs4, n \in Netmasks : set_ipv4_addr(h, addr, n)
               \/ set_ipv4_mask(h)
      BY <1>2, <2>0, <3>1 DEF set_ipv4_addr, set_ipv4_mask, Return, Goto, SockInv
    <3>2. CASE \E addr \in Addrs6, n \in Netmasks : set_ipv6_socket(h, addr, n)
      BY <1>2, <2>0, <3>2 DEF set_ipv6_socket, Goto, SockInv, callVars
    <3>3. CASE get_index_ok(h) \/ del_addr6(h)
      BY <1>2, <2>0, <3>3 DEF get_index_ok, del_addr6, Goto, SockInv
    <3>4. CASE get_index_fails(h) \/ set_addr6(h)
      BY <1>2, <2>0, <3>4 DEF get_index_fails, set_addr6, CloseSock6, Return, Goto, SockInv
    <3>5. QED
      BY <2>1, <2>2, <3>1, <3>2, <3>3, <3>4
         DEF Configure, tuntap_up, tuntap_down, SetFlags, tuntap_set_mtu,
             tuntap_set_hwaddr, tuntap_set_ifname, callVars
  <2>3. ASSUME NEW h \in Handles, Life(h)
        PROVE  SockInv'
    BY <2>1, <2>3 DEF Life, tuntap_start, tuntap_release, callVars
  <2>4. ASSUME NEW i \in Ifs, Admin(i)
        PROVE  SockInv'
    BY <2>1, <2>4 DEF Admin, AdminSets, AdminDeletes, AdminCreates, callVars
  <2>5. QED  BY <1>2, <2>1, <2>2, <2>3, <2>4 DEF Next, vars, callVars
<1>3. Inv => Shape
  BY DEF Inv
<1>4. QED  BY <1>1, <1>2, <1>3, Invariance, PTL DEF Spec

\* The IPv6 socket is closed on every way out of tuntap_set_ip.
THEOREM SocketClosed == Spec => []NoSocketLeft
<1>1. SockInv => NoSocketLeft
  BY DEF SockInv, NoSocketLeft
<1>2. QED  BY <1>1, SockInvariance, PTL

\* Every variable keeps its type: the masks are those of tuntap_set_ip and of
\* the kernel, and no address gets into the list of the other family.
THEOREM TypeCorrectness == Spec => []TypeOK
<1>1. Inv /\ SockInv => TypeOK
  BY DEF Inv, Shape, SockInv, TypeOK
<1>2. QED  BY <1>1, Invariance, SockInvariance, PTL

-----------------------------------------------------------------------------
(***************************************************************************)
(* tuntap_set_ip between its two ioctls.                                   *)
(***************************************************************************)

\* What the second ioctl is about to write, and what the first has written.
Halfway(h) ==
  pc[h] = "setmask" =>
    /\ req[h].addr \in Addrs4 /\ ~NetmaskRefused(req[h].netmask)
    /\ req[h].mask \in Masks(req[h].netmask)
    /\ Undisputed(h, "addr") => link[tun_fd[h]].addr = req[h].addr
AllHalfway == \A h \in Handles : Halfway(h)

\* For handle g, a step that leaves the address of its interface, or casts
\* doubt on it.
AddrLeft(g) ==
  Undisputed(g, "addr")' =>
    Undisputed(g, "addr") /\ link'[tun_fd'[g]].addr = link[tun_fd[g]].addr
SameCall(g) ==
  /\ pc'[g] = pc[g] /\ req'[g].addr = req[g].addr
  /\ req'[g].netmask = req[g].netmask /\ req'[g].mask = req[g].mask

\* A step that touches neither the call of a device nor its address keeps Halfway.
LEMMA HalfwayKeeps ==
  ASSUME NEW g \in Handles, Halfway(g), AddrLeft(g), SameCall(g) PROVE Halfway(g)'
  BY DEF Halfway, AddrLeft, SameCall

\* Writing another attribute, or nothing.
LEMMA SetAddrLeft ==
  ASSUME Shape, NEW w, NEW i \in Ifs, NEW attr \in Attrs \ {"addr"}, NEW value,
         NEW g \in Handles, tun_fd' = tun_fd,
         Set(w, i, attr, value) \/ UNCHANGED <<link, foreign>>
  PROVE  AddrLeft(g)
<1>1. CASE Set(w, i, attr, value)
  <2>1. /\ \A j \in Ifs \ {i} : link'[j] = link[j] /\ foreign'[j] = foreign[j]
        /\ \A a \in Attrs \ {attr} : a \in foreign'[i] <=> a \in foreign[i]
        /\ link'[i].addr = link[i].addr
    BY <1>1, SetKeeps
  <2>2. attr = "name" => foreign[i] \subseteq foreign'[i]
    BY <1>1 DEF Set, Mark, Shape
  <2>3. {"name", "addr"} \cap foreign[i] \subseteq foreign'[i]
    <3>1. {"name", "addr"} \subseteq Attrs
      BY DEF Attrs
    <3>2. QED  BY <2>1, <2>2, <3>1
  <2>4. QED  BY <2>1, <2>3 DEF AddrLeft, Undisputed
<1>2. CASE UNCHANGED <<link, foreign>>
  BY <1>2 DEF AddrLeft, Undisputed
<1>3. QED  BY <1>1, <1>2

\* Somebody else's write of an address.
LEMMA OtherAddrLeft ==
  ASSUME Shape, NamesInv, NEW w, NEW i \in Ifs, NEW value, SetAddr(w, i, value),
         NEW g \in Handles, w # g, tun_fd' = tun_fd
  PROVE  AddrLeft(g)
<1>1. \A j \in Ifs \ {i} : link'[j] = link[j] /\ foreign'[j] = foreign[j]
  BY SetAddrKeeps
<1>2. CASE tun_fd[g] = i
  <2>1. ~(w \in Handles /\ tun_fd[w] = i)
    BY <1>2 DEF NamesInv, AttachedAlone
  <2>2. "addr" \in foreign'[i]
    BY <2>1 DEF SetAddr, Mark, Shape
  <2>3. QED  BY <1>2, <2>2 DEF AddrLeft, Undisputed
<1>3. CASE tun_fd[g] # i
  BY <1>1, <1>3 DEF AddrLeft, Undisputed
<1>4. QED  BY <1>2, <1>3

\* An interface that g is not attached to disappears.
LEMMA RemoveHalfway ==
  ASSUME Shape, NEW i \in Ifs, Remove(i), NEW g \in Handles, Halfway(g), pc'[g] = pc[g],
         tun_fd'[g] \in Ifs => tun_fd'[g] = tun_fd[g], tun_fd'[g] # i
  PROVE  Halfway(g)'
<1>1. \A j \in Ifs \ {i} : link'[j] = link[j] /\ foreign'[j] = foreign[j]
  BY DEF Remove, Shape
<1>2. AddrLeft(g)
  BY <1>1 DEF AddrLeft, Undisputed
<1>3. SameCall(g)
  <2>1. req[g] \in Reqs
    BY DEF Shape
  <2>2. QED  BY <2>1 DEF Remove, SameCall, Reqs
<1>4. QED  BY <1>2, <1>3, HalfwayKeeps

\* So do starts and releases.
LEMMA LifeHalfway ==
  ASSUME Inv, AllHalfway, NEW h \in Handles, Life(h)
  PROVE  AllHalfway'
<1>0. Shape /\ NamesInv
  BY DEF Inv
<1> SUFFICES ASSUME NEW g \in Handles PROVE Halfway(g)'
  BY DEF AllHalfway
<1>1. Halfway(g) /\ pc' = pc /\ pc[h] = "idle"
  BY DEF AllHalfway, Life, tuntap_start, tuntap_release, callVars
<1>2. CASE g = h
  BY <1>1, <1>2 DEF Halfway
<1>3. CASE g # h
  <2>1. ASSUME NEW type \in Modes, tuntap_start(h, type)
        PROVE  Halfway(g)'
    <3>1. PICK i \in Ifs :
            /\ ~Exists(i) \/ ~Attached(i)
            /\ link' = link \/ \E new : link' = [link EXCEPT ![i] = new]
            /\ tun_fd' = [tun_fd EXCEPT ![h] = i]
            /\ foreign' = [foreign EXCEPT ![i] = {}]
      BY <2>1 DEF tuntap_start
    <3>2. tun_fd'[g] = tun_fd[g] /\ tun_fd[g] # i
      BY <1>0, <1>3, <3>1 DEF Shape, NamesInv, AttachedAlone, Attached
    <3>3. AddrLeft(g)
      BY <1>0, <3>1, <3>2 DEF AddrLeft, Undisputed, Shape
    <3>4. SameCall(g)
      BY <2>1 DEF tuntap_start, callVars, SameCall
    <3>5. QED  BY <1>1, <3>3, <3>4, HalfwayKeeps
  <2>2. CASE tuntap_release(h)
    <3>1. tun_fd'[g] = tun_fd[g]
      BY <1>0, <1>3, <2>2 DEF Shape, tuntap_release
    <3>2. CASE tun_fd[h] \in Ifs /\ Remove(tun_fd[h])
      <4>1. tun_fd[g] # tun_fd[h]
        BY <1>0, <1>3, <3>2 DEF NamesInv, AttachedAlone
      <4>2. QED  BY <1>0, <1>1, <3>1, <3>2, <4>1, RemoveHalfway
    <3>3. CASE UNCHANGED <<link, foreign, req>>
      BY <1>1, <3>1, <3>3, HalfwayKeeps DEF AddrLeft, Undisputed, SameCall
    <3>4. QED  BY <2>2, <3>2, <3>3 DEF tuntap_release
  <2>3. QED  BY <2>1, <2>2 DEF Life
<1>4. QED  BY <1>2, <1>3

\* A configuration call leaves the others under way alone, and the address of
\* their interfaces or what is known of it.
LEMMA OthersHalfway ==
  ASSUME Inv, NEW h \in Handles, Configure(h), NEW g \in Handles \ {h}, Halfway(g)
  PROVE  Halfway(g)'
<1>0. Shape /\ NamesInv /\ {"name", "flags", "hwaddr", "mtu", "mask", "addr6"}
                             \subseteq Attrs \ {"addr"}
  BY DEF Inv, Attrs
<1> DEFINE Quiet == UNCHANGED <<link, foreign>>
           Goal == AddrLeft(g) /\ SameCall(g)
<1> SUFFICES Goal
  BY HalfwayKeeps
<1>1. ASSUME NEW attr \in Attrs \ {"addr"}, tun_fd' = tun_fd,
             Quiet \/ \E i \in Ifs : \E value : Set(h, i, attr, value)
      PROVE  AddrLeft(g)
  <2>1. CASE Quiet
    BY <1>1, <2>1 DEF AddrLeft, Undisputed
  <2>2. ASSUME NEW i \in Ifs, NEW value, Set(h, i, attr, value)
        PROVE  AddrLeft(g)
    BY <1>0, <1>1, <2>2, SetAddrLeft
  <2>3. QED  BY <1>1, <2>1, <2>2
<1>2. UNCHANGED callVars => SameCall(g)
  BY DEF callVars, SameCall
<1>3. ASSUME NEW new, SetFlags(h, new)
      PROVE  Goal
  BY <1>0, <1>1, <1>2, <1>3 DEF SetFlags
<1>4. ASSUME NEW mtu \in Mtus, tuntap_set_mtu(h, mtu)
      PROVE  Goal
  BY <1>0, <1>1, <1>2, <1>4 DEF tuntap_set_mtu, devVars
<1>5. ASSUME NEW hw \in HwAddrs, tuntap_set_hwaddr(h, hw)
      PROVE  Goal
  BY <1>0, <1>1, <1>2, <1>5 DEF tuntap_set_hwaddr
<1>6. ASSUME NEW name \in IfNames, tuntap_set_ifname(h, name)
      PROVE  Goal
  BY <1>0, <1>1, <1>2, <1>6 DEF tuntap_set_ifname
<1>7. ASSUME NEW addr \in Addrs4, NEW n \in Netmasks, set_ipv4_addr(h, addr, n)
      PROVE  Goal
  <2>1. SameCall(g)
    BY <1>0, <1>7 DEF set_ipv4_addr, Goto, SameCall, Shape
  <2>2. tun_fd' = tun_fd /\ (Quiet \/ \E i \in Ifs : SetAddr(h, i, addr))
    BY <1>7 DEF set_ipv4_addr, devVars
  <2>3. Quiet => AddrLeft(g)
    BY <2>2 DEF AddrLeft, Undisputed
  <2>4. ASSUME NEW i \in Ifs, SetAddr(h, i, addr)
        PROVE  AddrLeft(g)
    BY <1>0, <2>2, <2>4, OtherAddrLeft
  <2>5. QED  BY <2>1, <2>2, <2>3, <2>4
<1>8. \A step : Goto(h, step) => pc'[g] = pc[g]
  BY <1>0 DEF Goto, Shape
<1>9. Return(h) => SameCall(g)
  BY <1>0, <1>8 DEF Return, SameCall, Shape
<1>10. CASE set_ipv4_mask(h)
  BY <1>0, <1>1, <1>9, <1>10 DEF set_ipv4_mask, devVars
<1>11. CASE \E addr \in Addrs6, n \in Netmasks : set_ipv6_socket(h, addr, n)
  BY <1>0, <1>1, <1>2, <1>8, <1>11 DEF set_ipv6_socket, devVars, SameCall, Shape
<1>12. CASE get_index_ok(h) \/ get_index_fails(h)
  BY <1>0, <1>1, <1>8, <1>9, <1>12 DEF get_index_ok, get_index_fails, devVars, SameCall, Shape
<1>13. CASE del_addr6(h)
  <2>1. ASSUME NEW i \in Ifs
        PROVE  [link[i] EXCEPT !.addr6 = @ \ {<<AnyAddr6, 0>>}].addr = link[i].addr
    <3>1. link[i] \in Links
      BY <1>0 DEF Shape
    <3>2. QED  BY <3>1 DEF Links
  <2>2. \A i \in Ifs : link'[i].addr = link[i].addr
    BY <1>0, <1>13, <2>1 DEF del_addr6, Shape
  <2>3. QED  BY <1>8, <1>13, <2>2 DEF del_addr6, devVars, AddrLeft, Undisputed, SameCall
<1>14. CASE set_addr6(h)
  BY <1>0, <1>1, <1>9, <1>14 DEF set_addr6, devVars
<1>15. QED
  BY <1>3, <1>4, <1>5, <1>6, <1>7, <1>10, <1>11, <1>12, <1>13, <1>14
     DEF Configure, tuntap_up, tuntap_down

\* The first ioctl of tuntap_set_ip, the only way to the second.
LEMMA OwnHalfway ==
  ASSUME Inv, NEW h \in Handles, Configure(h), Halfway(h)
  PROVE  Halfway(h)'
<1>0. Shape /\ NamesInv
  BY DEF Inv
<1> SUFFICES ASSUME pc'[h] = "setmask" PROVE Halfway(h)'
  BY DEF Halfway
<1>1. PICK addr \in Addrs4, n \in Netmasks : set_ipv4_addr(h, addr, n)
  BY <1>0 DEF Configure, tuntap_up, tuntap_down, SetFlags, tuntap_set_mtu, tuntap_set_hwaddr,
              tuntap_set_ifname, set_ipv6_socket, set_ipv4_mask, get_index_ok, get_index_fails,
              del_addr6, set_addr6, Return, Goto, callVars, Shape
<1>2. PICK i \in Ifs, m \in Masks(n) :
        /\ Reaches(h, i) /\ SetAddr(h, i, addr)
        /\ req' = [req EXCEPT ![h] =
             [addr |-> addr, netmask |-> n, mask |-> m, ifc |-> None]]
  BY <1>1 DEF set_ipv4_addr
<1>3. req'[h] = [addr |-> addr, netmask |-> n, mask |-> m, ifc |-> None]
  BY <1>0, <1>2 DEF Shape
<1>4. link'[i].addr = addr
  <2>1. link[i] \in Links /\ link \in [Ifs -> Links]
    BY <1>0 DEF Shape
  <2>2. QED  BY <1>2, <2>1 DEF SetAddr, Links
<1>5. ~NetmaskRefused(n) /\ tun_fd' = tun_fd
  BY <1>1 DEF set_ipv4_addr, devVars
<1>6. ASSUME Undisputed(h, "addr")'
      PROVE  tun_fd[h] = i
  <2>1. "name" \in foreign'[tun_fd[h]] <=> "name" \in foreign[tun_fd[h]]
    BY <1>0, <1>2, <1>5, <1>6, SetAddrKeeps DEF Undisputed, Attrs
  <2>2. tun_fd[h] \in Ifs /\ ~Renamed(h)
    BY <1>5, <1>6, <2>1 DEF Undisputed, Renamed
  <2>3. QED  BY <1>0, <1>2, <2>2, ReachesOwn, Constants DEF MayStray
<1>7. QED  BY <1>3, <1>4, <1>5, <1>6 DEF Halfway

\* So does somebody else: what he sets is marked.
LEMMA AdminHalfway ==
  ASSUME Inv, AllHalfway, NEW i \in Ifs, Admin(i)
  PROVE  AllHalfway'
<1>0. Shape /\ NamesInv /\ {"name", "flags", "hwaddr"} \subseteq Attrs \ {"addr"}
  BY DEF Inv, Attrs
<1> SUFFICES ASSUME NEW g \in Handles PROVE Halfway(g)'
  BY DEF AllHalfway
<1>1. Halfway(g) /\ g # None
  BY Constants DEF AllHalfway
<1>2. CASE AdminSets(i)
  <2>1. tun_fd' = tun_fd /\ SameCall(g)
    BY <1>2 DEF AdminSets, devVars, callVars, SameCall
  <2>2. \/ \E attr \in {"name", "flags", "hwaddr"} : \E value : Set(None, i, attr, value)
        \/ \E value : SetAddr(None, i, value)
    BY <1>2 DEF AdminSets
  <2>3. AddrLeft(g)
    BY <1>0, <1>1, <2>1, <2>2, SetAddrLeft, OtherAddrLeft
  <2>4. QED  BY <1>1, <2>1, <2>3, HalfwayKeeps
<1>3. CASE AdminDeletes(i)
  BY <1>0, <1>1, <1>3, RemoveHalfway, Constants DEF AdminDeletes
<1>4. CASE AdminCreates(i)
  <2>1. UNCHANGED <<foreign, tun_fd>> /\ SameCall(g) /\ ~Exists(i)
    BY <1>4 DEF AdminCreates, devVars, callVars, SameCall
  <2>2. \A j \in Ifs \ {i} : link'[j] = link[j]
    BY <1>0, <1>4 DEF AdminCreates, Shape
  <2>3. tun_fd[g] # i
    BY <1>0, <2>1 DEF NamesInv, AttachedAlone
  <2>4. AddrLeft(g)
    BY <2>1, <2>2, <2>3 DEF AddrLeft, Undisputed
  <2>5. QED  BY <1>1, <2>1, <2>4, HalfwayKeeps
<1>5. QED  BY <1>2, <1>3, <1>4 DEF Admin

\* Halfway holds of every device in every reachable state.
LEMMA HalfwayInvariance == Spec => []AllHalfway
<1>1. Init => AllHalfway
  BY DEF Init, AllHalfway, Halfway
<1>2. ASSUME Inv, AllHalfway, [Next]_vars
      PROVE  AllHalfway'
  <2>1. CASE UNCHANGED vars
    BY <1>2, <2>1 DEF vars, devVars, callVars, AllHalfway, Halfway, Undisputed
  <2>2. ASSUME NEW h \in Handles, Configure(h)
        PROVE  AllHalfway'
    BY <1>2, <2>2, OwnHalfway, OthersHalfway DEF AllHalfway
  <2>3. QED  BY <1>2, <2>1, <2>2, LifeHalfway, AdminHalfway DEF Next
<1>3. QED  BY <1>1, <1>2, Invariance, PTL DEF Spec

\* tuntap_set_ip leaves the address it was asked for, under the prefix asked
\* for or the mask that the first ioctl gave it, unless somebody else set the
\* address or the name in between.
THEOREM AddressIsUnderPrefix == Spec => AddressUnderPrefix
<1> DEFINE Set4(h) ==
      SecondStep(h) /\ Undisputed(h, "addr") /\ req[h].netmask <= W =>
        LET i == tun_fd[h] IN
        /\ link'[i].addr = req[h].addr
        /\ \/ IsPrefix(link'[i].mask, req[h].netmask)
           \/ "SIOCSIFNETMASK" \in Faults /\ link'[i] = link[i]
<1>1. ASSUME Inv, AllHalfway, [Next]_vars, NEW h \in Handles
      PROVE  Set4(h)
  <2> DEFINE i == tun_fd[h]
  <2>0. Shape /\ NamesInv /\ Halfway(h)
    BY <1>1 DEF Inv, AllHalfway
  <2> SUFFICES ASSUME SecondStep(h), Undisputed(h, "addr"), req[h].netmask <= W
               PROVE  /\ link'[i].addr = req[h].addr
                      /\ \/ IsPrefix(link'[i].mask, req[h].netmask)
                         \/ "SIOCSIFNETMASK" \in Faults /\ link'[i] = link[i]
    OBVIOUS
  <2>1. set_ipv4_mask(h)
    <3>1. ASSUME NEW g \in Handles, Life(g) \/ Configure(g), pc[h] = "setmask", pc'[h] # pc[h]
          PROVE  set_ipv4_mask(h)
      BY <2>0, <3>1
         DEF Life, tuntap_start, tuntap_release,
             Configure, tuntap_up, tuntap_down, SetFlags, tuntap_set_mtu, tuntap_set_hwaddr,
             tuntap_set_ifname, set_ipv4_addr, set_ipv6_socket, get_index_ok, get_index_fails,
             del_addr6, set_addr6, set_ipv4_mask, Return, Goto, callVars, Shape
    <3>2. ASSUME NEW j \in Ifs, Admin(j)
          PROVE  pc' = pc
      BY <3>2 DEF Admin, AdminSets, AdminDeletes, AdminCreates, callVars
    <3>3. QED  BY <1>1, <3>1, <3>2 DEF SecondStep, Next, vars, callVars
  <2>2. /\ req[h].addr \in Addrs4 /\ req[h].netmask \in 0..W
        /\ req[h].mask \in Masks(req[h].netmask) /\ link[i].addr = req[h].addr
    <3>1. req[h].netmask \in Int
      BY <2>0 DEF Shape, Reqs
    <3>2. QED  BY <2>0, <3>1, WidthAssumption DEF Halfway, SecondStep, NetmaskRefused
  <2>3. i \in Ifs /\ Reaches(h, i)
    BY <2>0, Constants
       DEF Undisputed, NamesInv, NameKnown, Renamed, AttachedAlone, Reaches, Started
  <2>4. CASE \E j \in Ifs : Reaches(h, j) /\ Set(h, j, "mask", req[h].mask)
    <3>1. PICK j \in Ifs : Reaches(h, j) /\ Set(h, j, "mask", req[h].mask)
      BY <2>4
    <3>2. j = i
      BY <2>0, <2>3, <3>1 DEF Reaches, NamesInv, UniqueNames
    <3>3. PICK attr \in Attrs : attr = "mask"
      BY DEF Attrs
    <3>4. link'[i].addr = link[i].addr /\ link'[i].mask = req[h].mask
      BY <2>0, <3>1, <3>2, <3>3, SetKeeps
    <3>5. QED  BY <2>2, <3>4, MaskIsPrefix
  <2>5. CASE "SIOCSIFNETMASK" \in Faults /\ link' = link
    BY <2>2, <2>5
  <2>6. link[i].addr # NoAddr
    BY <2>2, AddrAssumption
  <2>7. QED  BY <2>1, <2>3, <2>4, <2>5, <2>6 DEF set_ipv4_mask
<1>2. Inv /\ AllHalfway /\ [Next]_vars => [\A h \in Handles : Set4(h)]_vars
  BY <1>1
<1>3. QED  BY <1>2, Invariance, HalfwayInvariance, PTL DEF Spec, AddressUnderPrefix
=============================================================================
