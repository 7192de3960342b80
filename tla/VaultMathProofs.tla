---------------------------- MODULE VaultMathProofs ----------------------------
(***************************************************************************)
(* Facts about the share arithmetic and about sums over finite sets, for   *)
(* every supply, every total and every virtual offset.                     *)
(***************************************************************************)
EXTENDS VaultMath, FiniteSetTheorems, TLAPS

-----------------------------------------------------------------------------
(* Division: what Rust's `/` gives of a natural dividend.                  *)
LEMMA Division ==
    ASSUME NEW a \in Nat, NEW b \in Nat \ {0}
    PROVE  /\ a \div b \in Nat
           /\ (a \div b) * b <= a
           /\ a < (a \div b) * b + b
OBVIOUS

(* Products of naturals are naturals, and grow with their factors.         *)
LEMMA Products ==
    ASSUME NEW a \in Nat, NEW b \in Nat, NEW c \in Nat
    PROVE  /\ a * b \in Nat
           /\ (a + b) * c = a * c + b * c
           /\ c * (a + b) = c * a + c * b
           /\ a <= b => a * c <= b * c
OBVIOUS

(* A common factor cancels.                                                *)
LEMMA Cancel ==
    ASSUME NEW a \in Nat, NEW b \in Nat, NEW c \in Nat \ {0}, a * c <= b * c
    PROVE  a <= b
<1> SUFFICES ASSUME b + 1 <= a PROVE FALSE
  OBVIOUS
<1>1. (b + 1) * c <= a * c /\ (b + 1) * c = b * c + 1 * c
  BY Products
<1> QED BY <1>1, Products

(* A multiple that is within a dividend is within the quotient.            *)
LEMMA Quotient ==
    ASSUME NEW a \in Nat, NEW b \in Nat \ {0}, NEW c \in Nat, c * b <= a
    PROVE  c <= a \div b
<1> DEFINE q == a \div b
<1>1. q \in Nat /\ a < q * b + b
  BY Division
<1> HIDE DEF q
<1>2. ASSUME q + 1 <= c PROVE FALSE
  <2>1. (q + 1) * b <= c * b /\ (q + 1) * b = q * b + 1 * b
    BY <1>1, <1>2, Products
  <2> QED BY <2>1, <1>1, Products
<1>3. c <= q
  BY <1>1, <1>2
<1> QED BY <1>3 DEF q

(* What is minted for assets is natural and worth no more than they are.   *)
LEMMA MintedWorth ==
    ASSUME NEW assets \in Nat, NEW supply \in Nat, NEW total \in Nat
    PROVE  /\ ToShares(assets, supply, total) \in Nat
           /\ ToShares(assets, supply, total) * (total + VirtualSharesOffset)
                <= assets * (supply + VirtualSharesOffset)
<1>1. VirtualSharesOffset \in Nat \ {0}
  BY MathAssumption
<1>2. assets * (supply + VirtualSharesOffset) \in Nat
  BY <1>1, Products
<1>3. total + VirtualSharesOffset \in Nat \ {0}
  BY <1>1
<1> QED BY <1>2, <1>3, Division DEF ToShares

(* What is paid for shares is natural and worth no more than they are.     *)
LEMMA PaidWorth ==
    ASSUME NEW n \in Nat, NEW supply \in Nat, NEW total \in Nat
    PROVE  /\ ToAssets(n, supply, total) \in Nat
           /\ ToAssets(n, supply, total) * (supply + VirtualSharesOffset)
                <= n * (total + VirtualSharesOffset)
<1>1. VirtualSharesOffset \in Nat \ {0}
  BY MathAssumption
<1>2. n * (total + VirtualSharesOffset) \in Nat
  BY <1>1, Products
<1>3. supply + VirtualSharesOffset \in Nat \ {0}
  BY <1>1
<1> QED BY <1>2, <1>3, Division DEF ToAssets

(* A deposit at the price before it does not lower the price of a share.   *)
THEOREM DepositNeverDilutes ==
    ASSUME NEW assets \in Nat, NEW supply \in Nat, NEW total \in Nat
    PROVE  PriceNotLower(supply, total,
                         supply + ToShares(assets, supply, total), total + assets)
<1> DEFINE m == ToShares(assets, supply, total)
           s == supply + VirtualSharesOffset
           t == total + VirtualSharesOffset
<1>1. m \in Nat /\ m * t <= assets * s
  BY MintedWorth
<1>2. s \in Nat /\ t \in Nat
  BY MathAssumption
<1> HIDE DEF m
<1>3. (total + assets + VirtualSharesOffset) = t + assets
     /\ supply + m + VirtualSharesOffset = s + m
  BY <1>1, MathAssumption
<1> HIDE DEF s, t
<1>4. /\ (t + assets) * s = t * s + assets * s
      /\ t * (s + m) = t * s + t * m
      /\ t * m = m * t
      /\ t * s \in Nat /\ assets * s \in Nat /\ t * m \in Nat
  BY <1>1, <1>2, Products
<1>5. (t + assets) * s >= t * (s + m)
  BY <1>1, <1>4
<1> QED BY <1>3, <1>5 DEF PriceNotLower, m, s, t

(* A redemption at the price before it does not lower the price of what is *)
(* left, if the books lose no more than what is paid.                      *)
THEOREM RedeemNeverDilutes ==
    ASSUME NEW supply \in Nat, NEW n \in 0..supply, NEW total \in Nat, NEW rest \in Nat,
           rest + ToAssets(n, supply, total) >= total
    PROVE  PriceNotLower(supply, total, supply - n, rest)
<1> DEFINE p == ToAssets(n, supply, total)
           s == supply + VirtualSharesOffset
           t == total + VirtualSharesOffset
           r == rest + VirtualSharesOffset
           q == supply - n + VirtualSharesOffset
<1>1. p \in Nat /\ p * s <= n * t
  BY PaidWorth
<1>2. /\ s \in Nat /\ t \in Nat /\ r \in Nat /\ q \in Nat /\ n \in Nat
      /\ s = q + n
      /\ t <= r + p
  BY <1>1, MathAssumption
<1> HIDE DEF p, s, t, r, q
<1>3. /\ t * s <= (r + p) * s
      /\ (r + p) * s = r * s + p * s
      /\ t * s = t * (q + n)
      /\ t * (q + n) = t * q + t * n
      /\ t * n = n * t
      /\ t * s \in Nat /\ r * s \in Nat /\ p * s \in Nat /\ t * q \in Nat /\ n * t \in Nat
  <2>1. r + p \in Nat
    BY <1>1, <1>2
  <2> QED BY <1>1, <1>2, <2>1, Products
<1>4. r * s >= t * q
  BY <1>1, <1>3
<1> QED BY <1>4 DEF PriceNotLower, s, t, r, q

(* Who deposits and redeems the new shares at once gets back no more than  *)
(* was deposited, and less by at most one unit and the worth of one share  *)
(* before the deposit.                                                     *)
THEOREM RoundTripIsFair ==
    ASSUME NEW assets \in Nat, NEW supply \in Nat, NEW total \in Nat
    PROVE  LET minted == ToShares(assets, supply, total)
               back   == ToAssets(minted, supply + minted, total + assets)
           IN  /\ minted \in Nat /\ back \in 0..assets
               /\ (assets - back - 1) * (supply + minted + VirtualSharesOffset)
                    < total + VirtualSharesOffset
<1> DEFINE a == assets
           m == ToShares(assets, supply, total)
           s == supply + VirtualSharesOffset
           t == total + VirtualSharesOffset
           x == s + m
           y == t + a
           b == ToAssets(m, supply + m, total + assets)
<1>1. s \in Nat \ {0} /\ t \in Nat \ {0} /\ a \in Nat
  BY MathAssumption
<1>2. m \in Nat /\ m * t <= a * s /\ a * s < m * t + t
  <2>1. a * s \in Nat
    BY <1>1, Products
  <2> QED BY <2>1, <1>1, Division DEF ToShares
<1>3. /\ supply + m + VirtualSharesOffset = x
      /\ total + a + VirtualSharesOffset = y
  BY <1>2, MathAssumption
<1>4. b \in Nat /\ b * x <= m * y /\ m * y < b * x + x
  <2>1. m * y \in Nat /\ x \in Nat \ {0}
    BY <1>1, <1>2, Products
  <2>2. b = (m * y) \div x
    BY <1>3 DEF ToAssets
  <2> HIDE DEF b, m, x, y
  <2> QED BY <2>1, <2>2, Division
<1> HIDE DEF a, m, s, t, b
<1>5. /\ m * y = m * t + m * a
      /\ a * x = a * s + a * m
      /\ m * a = a * m /\ m * a \in Nat /\ m * t \in Nat /\ a * s \in Nat
  BY <1>1, <1>2, Products
<1>6. x \in Nat \ {0} /\ b * x \in Nat /\ a * x \in Nat /\ m * y \in Nat
  BY <1>1, <1>2, <1>4, <1>5, Products
<1> HIDE DEF x, y
<1>7. b * x <= a * x /\ a * x < b * x + x + t
  BY <1>1, <1>2, <1>4, <1>5, <1>6
<1>8. ASSUME b > a PROVE FALSE
  <2>1. (a + 1) * x <= b * x /\ (a + 1) * x = a * x + 1 * x
    BY <1>8, <1>1, <1>4, <1>6, Products
  <2> QED BY <2>1, <1>6, <1>7
<1>9. b \in 0..a
  BY <1>1, <1>4, <1>8
<1>10. (a - b - 1) * x < t
  <2> DEFINE d == a - b
  <2>1. d \in Nat /\ a = b + d
    BY <1>1, <1>4, <1>9
  <2> HIDE DEF d
  <2>2. a * x = b * x + d * x /\ d * x \in Nat
    BY <2>1, <1>4, <1>6, Products
  <2>3. (d - 1) * x = d * x - x
    BY <2>1, <1>6
  <2>4. (d - 1) * x < t
    BY <2>2, <2>3, <1>1, <1>6, <1>7
  <2> QED BY <2>4 DEF d
<1>11. /\ m \in Nat /\ b \in 0..a
       /\ (a - b - 1) * (supply + m + VirtualSharesOffset) < t
  BY <1>2, <1>3, <1>9, <1>10
<1> QED BY <1>11 DEF a, m, b, t

(* Redeeming in two parts pays no more than redeeming at once: the price   *)
(* the first part leaves is higher by what it lost to rounding, and the    *)
(* second part gets less than all of that.                                 *)
THEOREM SplittingARedemptionGainsNothing ==
    ASSUME NEW supply \in Nat, NEW n \in Nat, NEW m \in Nat, n + m <= supply,
           NEW total \in Nat
    PROVE  LET first  == ToAssets(n, supply, total)
                second == ToAssets(m, supply - n, total - first)
           IN  total - first \in Nat => first + second <= ToAssets(n + m, supply, total)
<1> DEFINE p == ToAssets(n, supply, total)
           rest == total - p
           q == ToAssets(m, supply - n, rest)
           s == supply + VirtualSharesOffset
           t == total + VirtualSharesOffset
           k == supply - n + VirtualSharesOffset
           all == ToAssets(n + m, supply, total)
<1> SUFFICES ASSUME rest \in Nat PROVE p + q <= all
  OBVIOUS
<1>1. p \in Nat /\ p * s <= n * t
  BY PaidWorth
<1>2. /\ supply - n \in Nat /\ k \in Nat /\ s \in Nat \ {0} /\ t \in Nat \ {0}
      /\ s = k + n /\ m <= k /\ t >= p
      /\ rest + VirtualSharesOffset = t - p
  <2> HIDE DEF p
  <2> QED BY <1>1, MathAssumption
<1>3. q \in Nat /\ q * k <= m * (t - p)
  <2> HIDE DEF rest
  <2>1. q \in Nat /\ q * k <= m * (rest + VirtualSharesOffset)
    BY <1>2, PaidWorth
  <2> QED BY <2>1, <1>2
<1> HIDE DEF p, q, k, s, t, rest
(* (p + q) * s * k <= p * s * (k - m) + m * t * s <= (n + m) * t * k       *)
<1>4. ASSUME (p + q) * s > (n + m) * t PROVE FALSE
  <2> DEFINE r == t - p
             j == k - m
  <2>1. r \in Nat /\ t = p + r /\ j \in Nat /\ k = m + j /\ q * k <= m * r
    BY <1>1, <1>2, <1>3
  <2> HIDE DEF r, j
  <2>2. (q * k) * s <= (m * r) * s
    <3>1. q * k \in Nat /\ m * r \in Nat
      BY <1>2, <1>3, <2>1, Products
    <3> QED BY <3>1, <2>1, <1>2, Products
  <2>3. (p * s) * j <= (n * t) * j
    <3>1. p * s \in Nat /\ n * t \in Nat
      BY <1>1, <1>2, Products
    <3> QED BY <3>1, <2>1, <1>1, Products
  <2>4. ((p + q) * s) * k = (p * s) * m + (p * s) * j + (q * k) * s
    BY <2>1, <1>1, <1>2, <1>3
  <2>5. (m * r) * s + (p * s) * m = (m * t) * s
    BY <2>1, <1>1, <1>2
  <2>6. (m * t) * s = (m * t) * k + (m * t) * n
    BY <1>2
  <2>7. (m * t) * n + (n * t) * j = (n * t) * k
    BY <2>1, <1>2
  <2>8. (m * t) * k + (n * t) * k = ((n + m) * t) * k
    BY <1>2
  <2> DEFINE e1 == (p * s) * m      e2 == (p * s) * j     e3 == (q * k) * s
             e4 == (m * r) * s      e5 == (n * t) * j     e6 == (m * t) * s
             e7 == (m * t) * k      e8 == (m * t) * n     e9 == (n * t) * k
             u  == (p + q) * s      w  == (n + m) * t
  <2>9. /\ e1 \in Int /\ e2 \in Int /\ e3 \in Int /\ e4 \in Int /\ e5 \in Int /\ e6 \in Int
        /\ e7 \in Int /\ e8 \in Int /\ e9 \in Int /\ u \in Nat /\ w \in Nat
        /\ u * k \in Int /\ w * k \in Int
    <3>1. /\ p * s \in Nat /\ q * k \in Nat /\ m * r \in Nat /\ n * t \in Nat /\ m * t \in Nat
          /\ u \in Nat /\ w \in Nat
      <4>1. p + q \in Nat /\ n + m \in Nat
        BY <1>1, <1>3
      <4> QED BY <4>1, <2>1, <1>1, <1>2, <1>3, Products
    <3> HIDE DEF u, w
    <3> QED BY <3>1, <2>1, <1>2
  <2>10. /\ e3 <= e4 /\ e2 <= e5 /\ u * k = e1 + e2 + e3 /\ e4 + e1 = e6
         /\ e6 = e7 + e8 /\ e8 + e5 = e9 /\ e7 + e9 = w * k
    BY <2>2, <2>3, <2>4, <2>5, <2>6, <2>7, <2>8
  <2>11. u > w
    BY <1>4
  <2> HIDE DEF e1, e2, e3, e4, e5, e6, e7, e8, e9, u, w
  <2>12. u * k <= w * k
    BY <2>9, <2>10
  <2>13. k \in Nat \ {0}
    BY <1>2, MathAssumption DEF k
  <2>14. u <= w
    BY <2>9, <2>12, <2>13, Cancel
  <2> QED BY <2>9, <2>11, <2>14
<1>5. p + q <= all
  <2>1. n + m \in Nat /\ p + q \in Nat
    BY <1>1, <1>3
  <2>2. (n + m) * t \in Nat /\ (p + q) * s \in Nat
    BY <2>1, <1>2, Products
  <2> HIDE DEF all
  <2>3. (p + q) * s <= (n + m) * t
    BY <2>2, <1>4
  <2>4. p + q <= ((n + m) * t) \div s
    BY <2>1, <2>2, <2>3, <1>2, Quotient
  <2> QED BY <2>4 DEF all, ToAssets, s, t
<1> QED BY <1>5

(* Depositing in two parts mints no more than depositing at once.          *)
THEOREM SplittingADepositGainsNothing ==
    ASSUME NEW supply \in Nat, NEW total \in Nat, NEW a \in Nat, NEW b \in Nat
    PROVE  LET first  == ToShares(a, supply, total)
               second == ToShares(b, supply + first, total + a)
           IN  first + second <= ToShares(a + b, supply, total)
<1> DEFINE m == ToShares(a, supply, total)
           n == ToShares(b, supply + m, total + a)
           s == supply + VirtualSharesOffset
           t == total + VirtualSharesOffset
           y == t + a
           all == ToShares(a + b, supply, total)
<1>1. m \in Nat /\ m * t <= a * s
  BY MintedWorth
<1>2. s \in Nat \ {0} /\ t \in Nat \ {0} /\ y \in Nat \ {0}
  BY MathAssumption
<1>3. n \in Nat /\ n * y <= b * (s + m)
  <2> HIDE DEF m
  <2>1. /\ supply + m \in Nat /\ total + a \in Nat
        /\ (supply + m) + VirtualSharesOffset = s + m
        /\ (total + a) + VirtualSharesOffset = y
    BY <1>1, MathAssumption
  <2>2. n \in Nat /\ n * ((total + a) + VirtualSharesOffset)
                        <= b * ((supply + m) + VirtualSharesOffset)
    BY <2>1, MintedWorth
  <2> QED BY <2>1, <2>2
<1> HIDE DEF m, n, s, t
(* m*t*y + n*y*t <= m*t*(y + b) + b*s*t <= a*s*(y + b) + b*s*t             *)
<1>4. ((m + n) * t) * y <= ((a + b) * s) * y
  <2>1. (n * y) * t <= (b * (s + m)) * t
    <3>1. n * y \in Nat /\ b * (s + m) \in Nat
      <4>1. s + m \in Nat
        BY <1>1, <1>2
      <4> QED BY <4>1, <1>2, <1>3, Products
    <3> HIDE DEF y
    <3> QED BY <3>1, <1>2, <1>3, Products
  <2>2. (m * t) * (y + b) <= (a * s) * (y + b)
    <3>1. m * t \in Nat /\ a * s \in Nat /\ y + b \in Nat
      BY <1>1, <1>2, Products
    <3> QED BY <3>1, <1>1, Products
  <2>3. ((m + n) * t) * y = (m * t) * y + (n * y) * t
    BY <1>1, <1>2, <1>3
  <2>4. (b * (s + m)) * t = (b * s) * t + (m * t) * b
    BY <1>1, <1>2
  <2>5. (m * t) * (y + b) = (m * t) * y + (m * t) * b
    BY <1>1, <1>2
  <2>6. (a * s) * (y + b) + (b * s) * t = ((a + b) * s) * y
    BY <1>1, <1>2
  <2> DEFINE e1 == (n * y) * t         e2 == (b * (s + m)) * t
             e3 == (m * t) * (y + b)   e4 == (a * s) * (y + b)
             e5 == (m * t) * y         e6 == (b * s) * t        e7 == (m * t) * b
             e8 == ((m + n) * t) * y   e9 == ((a + b) * s) * y
  <2>7. /\ e1 \in Int /\ e2 \in Int /\ e3 \in Int /\ e4 \in Int /\ e5 \in Int
        /\ e6 \in Int /\ e7 \in Int /\ e8 \in Int /\ e9 \in Int
    BY <1>1, <1>2, <1>3
  <2>8. /\ e1 <= e2 /\ e3 <= e4 /\ e8 = e5 + e1 /\ e2 = e6 + e7 /\ e3 = e5 + e7
        /\ e4 + e6 = e9
    BY <2>1, <2>2, <2>3, <2>4, <2>5, <2>6
  <2>9. e8 <= e9
    <3> HIDE DEF e1, e2, e3, e4, e5, e6, e7, e8, e9
    <3> QED BY <2>7, <2>8
  <2> QED BY <2>9
<1> HIDE DEF y
<1>5. /\ m + n \in Nat /\ a + b \in Nat
      /\ (m + n) * t \in Nat /\ (a + b) * s \in Nat
  <2>1. m + n \in Nat /\ a + b \in Nat
    BY <1>1, <1>3
  <2> QED BY <2>1, <1>2, Products
<1>6. (m + n) * t <= (a + b) * s
  BY <1>2, <1>4, <1>5, Cancel
<1>7. m + n <= ((a + b) * s) \div t
  BY <1>2, <1>5, <1>6, Quotient
<1>8. m + n <= all
  BY <1>7 DEF ToShares, s, t
<1> QED BY <1>8 DEF m, n

(* Above the high-water mark the assets cover what the mark says the       *)
(* supply is worth, which rounds down by less than one unit.               *)
LEMMA MarkedAssets ==
    ASSUME NEW supply \in Nat \ {0}, NEW total \in Nat, NEW mark \in Nat,
           Nav(supply, total) > mark
    PROVE  /\ mark * supply \in Nat /\ mark * supply <= total * NavPrecision
           /\ (mark * supply) \div NavPrecision \in 0..total
           /\ mark * supply < ((mark * supply) \div NavPrecision) * NavPrecision + NavPrecision
<1> DEFINE worth == total * NavPrecision
           had   == mark * supply
<1>1. NavPrecision \in Nat \ {0} /\ MaxBps \in Nat \ {0}
  BY MathAssumption
<1>2. worth \in Nat /\ had \in Nat
  BY <1>1, Products
<1>3. had <= worth
  <2> DEFINE nav == worth \div supply
  <2>1. nav \in Nat /\ nav * supply <= worth
    BY <1>2, Division
  <2>2. mark <= nav
    BY <2>1 DEF Nav
  <2> HIDE DEF nav
  <2>3. had <= nav * supply
    BY <2>1, <2>2, Products
  <2>4. nav * supply \in Nat
    BY <2>1, Products
  <2> QED BY <2>1, <2>3, <2>4, <1>2
<1>4. had \div NavPrecision \in Nat /\ had \div NavPrecision <= total
  <2> DEFINE q == had \div NavPrecision
  <2>1. q \in Nat /\ q * NavPrecision <= had
    BY <1>1, <1>2, Division
  <2> HIDE DEF q, worth, had
  <2>2. q * NavPrecision \in Nat
    BY <2>1, <1>1, Products
  <2>3. q * NavPrecision <= worth
    BY <2>1, <2>2, <1>2, <1>3
  <2>4. CASE q > total
    <3>1. /\ total + 1 <= q
          /\ (total + 1) * NavPrecision <= q * NavPrecision
          /\ (total + 1) * NavPrecision = total * NavPrecision + 1 * NavPrecision
      BY <2>1, <2>4, <1>1, Products
    <3>2. (total + 1) * NavPrecision <= worth
      BY <3>1, <2>2, <2>3, <1>1, <1>2
    <3> QED BY <3>1, <3>2, <1>1, <1>2 DEF worth
  <2>5. CASE q <= total
    BY <2>1, <2>5 DEF q
  <2> QED BY <2>1, <2>4, <2>5
<1>5. had < (had \div NavPrecision) * NavPrecision + NavPrecision
  BY <1>1, <1>2, Division
<1> QED BY <1>2, <1>3, <1>4, <1>5

(* Above the high-water mark there is yield, and a fee on it is natural    *)
(* and at most its part of the yield.                                      *)
LEMMA FeeIsNatural ==
    ASSUME NEW supply \in Nat \ {0}, NEW total \in Nat, NEW mark \in Nat, NEW bps \in Nat,
           Nav(supply, total) > mark
    PROVE  /\ FeeAssets(supply, total, mark, bps) \in Nat
           /\ FeeAssets(supply, total, mark, bps) * MaxBps
                <= (total - (mark * supply) \div NavPrecision) * bps
           /\ FeeAssets(supply, total, mark, bps) * MaxBps <= total * bps
<1> DEFINE yield == total - (mark * supply) \div NavPrecision
           fee   == (yield * bps) \div MaxBps
<1>1. yield \in Nat /\ yield <= total
  BY MarkedAssets
<1>2. FeeAssets(supply, total, mark, bps) = fee
  BY DEF FeeAssets
<1> HIDE DEF yield
<1>3. yield * bps \in Nat /\ total * bps \in Nat /\ yield * bps <= total * bps
  BY <1>1, Products
<1>4. fee \in Nat /\ fee * MaxBps <= yield * bps
  BY <1>3, MathAssumption, Division
<1> HIDE DEF fee
<1>5. fee * MaxBps \in Nat
  BY <1>4, MathAssumption, Products
<1> QED BY <1>2, <1>3, <1>4, <1>5 DEF yield

(* Fee shares are worth at most the fee, at the price after they are       *)
(* minted.                                                                 *)
THEOREM FeeSharesWorthTheFee ==
    ASSUME NEW supply \in Nat \ {0}, NEW total \in Nat, NEW mark \in Nat, NEW bps \in Nat,
           Nav(supply, total) > mark
    PROVE  /\ FeeShares(supply, total, mark, bps) \in Nat
           /\ ToAssets(FeeShares(supply, total, mark, bps),
                       supply + FeeShares(supply, total, mark, bps), total)
                <= FeeAssets(supply, total, mark, bps)
<1> DEFINE fee == FeeAssets(supply, total, mark, bps)
           m   == ToShares(fee, supply, total)
           s   == supply + VirtualSharesOffset
           t   == total + VirtualSharesOffset
           a   == ToAssets(m, supply + m, total)
<1>1. fee \in Nat
  BY FeeIsNatural
<1>2. m \in Nat /\ m * t <= fee * s
  <2> HIDE DEF fee
  <2> QED BY <1>1, MintedWorth
<1>3. s \in Nat \ {0} /\ t \in Nat
  BY MathAssumption
<1>4. a \in Nat /\ a * (s + m) <= m * t
  <2> HIDE DEF m
  <2>1. supply + m \in Nat
    BY <1>2
  <2>2. supply + m + VirtualSharesOffset = s + m
    BY <1>2, MathAssumption
  <2> QED BY <1>2, <2>1, <2>2, PaidWorth
<1> HIDE DEF a, m, s, t, fee
<1>5. a <= fee
  <2>1. CASE a > fee
    <3>1. /\ (fee + 1) * (s + m) <= a * (s + m)
          /\ (fee + 1) * (s + m) = fee * (s + m) + 1 * (s + m)
          /\ fee * (s + m) = fee * s + fee * m
      <4>1. fee + 1 <= a /\ s + m \in Nat /\ fee + 1 \in Nat
        BY <2>1, <1>1, <1>2, <1>3, <1>4
      <4> QED BY <4>1, <1>1, <1>2, <1>3, <1>4, Products
    <3>2. fee * s \in Nat /\ fee * m \in Nat /\ m * t \in Nat /\ a * (s + m) \in Nat
      BY <1>1, <1>2, <1>3, <1>4, Products
    <3> QED BY <3>1, <3>2, <1>2, <1>3, <1>4
  <2> QED BY <2>1, <1>1, <1>4
<1> QED BY <1>2, <1>5 DEF FeeShares, fee, m, a

(* A fee of at most a third of the yield, minted while the supply is at    *)
(* least the virtual offset, leaves a net asset value per share that is    *)
(* no lower than the mark the yield was measured from.                     *)
THEOREM FeesKeepTheMark ==
    ASSUME NEW supply \in Nat \ {0}, NEW total \in Nat, NEW mark \in Nat, NEW bps \in Nat,
           Nav(supply, total) > mark, supply >= VirtualSharesOffset, 3 * bps <= MaxBps,
           FeeShares(supply, total, mark, bps) > 0
    PROVE  Nav(supply + FeeShares(supply, total, mark, bps), total) >= mark
<1> DEFINE P     == NavPrecision
           had   == mark * supply
           worth == total * P
           q     == had \div P
           yield == total - q
           fee   == FeeAssets(supply, total, mark, bps)
           n     == ToShares(fee, supply, total)
           s     == supply + VirtualSharesOffset
           t     == total + VirtualSharesOffset
<1>1. /\ P \in Nat \ {0} /\ MaxBps \in Nat \ {0}
      /\ s \in Nat \ {0} /\ t \in Nat \ {0} /\ s <= 2 * supply /\ total <= t
  BY MathAssumption
<1>2. worth \in Nat /\ had \in Nat /\ had <= worth
  BY <1>1, Products, MarkedAssets
<1>3. q \in Nat /\ yield \in Nat /\ had < q * P + P
  BY MarkedAssets
<1>4. fee \in Nat /\ fee * MaxBps <= yield * bps
  BY FeeIsNatural
<1>5. n \in Nat /\ n > 0 /\ n * t <= fee * s
  <2>1. n = FeeShares(supply, total, mark, bps)
    BY DEF FeeShares
  <2> HIDE DEF fee
  <2> QED BY <1>4, <2>1, MintedWorth
<1> HIDE DEF n, s, t, fee
<1>6. fee > 0
  <2>1. 1 * t <= n * t /\ 1 * t = t
    BY <1>1, <1>5, Products
  <2>2. n * t \in Nat
    BY <1>1, <1>5, Products
  <2>3. fee # 0
    <3>1. ASSUME fee = 0 PROVE FALSE
      <4>1. fee * s = 0
        BY <3>1, <1>1
      <4> QED BY <4>1, <2>1, <2>2, <1>1, <1>5
    <3> QED BY <3>1
  <2> QED BY <2>3, <1>4
(* A third of the yield, and so all but one unit of it twice.              *)
<1>7. 2 * fee + 1 <= yield
  <2> HIDE DEF yield
  <2>1. yield * bps \in Nat /\ fee * MaxBps \in Nat /\ yield * MaxBps \in Nat
    BY <1>1, <1>3, <1>4, Products
  <2>2. (3 * bps) * yield <= MaxBps * yield
    <3>1. 3 * bps \in Nat
      OBVIOUS
    <3> QED BY <3>1, <1>1, <1>3, Products
  <2>3. /\ (3 * bps) * yield = 3 * (yield * bps) /\ MaxBps * yield = yield * MaxBps
        /\ (3 * fee) * MaxBps = 3 * (fee * MaxBps)
    BY <1>1, <1>3, <1>4
  <2>4. (3 * fee) * MaxBps <= yield * MaxBps
    BY <2>1, <2>2, <2>3, <1>4
  <2>5. 3 * fee <= yield
    <3>1. CASE 3 * fee > yield
      <4>1. /\ (yield + 1) * MaxBps <= (3 * fee) * MaxBps
            /\ (yield + 1) * MaxBps = yield * MaxBps + 1 * MaxBps
            /\ 1 * MaxBps = MaxBps /\ (3 * fee) * MaxBps \in Nat
        <5>1. yield + 1 <= 3 * fee /\ yield + 1 \in Nat /\ 3 * fee \in Nat
          BY <3>1, <1>3, <1>4
        <5> QED BY <5>1, <1>3, <1>1, Products
      <4> QED BY <4>1, <2>1, <2>4, <1>1
    <3> QED BY <3>1, <1>3, <1>4
  <2> QED BY <2>5, <1>3, <1>4, <1>6
(* What the mark says the new shares are worth is what the fee leaves of   *)
(* the yield: mark * n <= 2 * P * fee <= P * (yield - 1) <= worth - had.   *)
<1>8. mark * n <= (2 * fee) * P
  <2>1. had * n <= worth * n /\ had * n = (mark * n) * supply
    <3> HIDE DEF worth
    <3>1. had * n <= worth * n
      <4> HIDE DEF had
      <4> QED BY <1>2, <1>5, Products
    <3> QED BY <3>1, <1>5
  <2>2. worth * n <= (t * P) * n
    <3>1. worth <= t * P /\ t * P \in Nat
      BY <1>1, Products
    <3> HIDE DEF worth
    <3> QED BY <3>1, <1>2, <1>5, Products
  <2>3. (t * P) * n = (n * t) * P
    BY <1>1, <1>5
  <2>4. (n * t) * P <= (fee * s) * P /\ fee * s \in Nat
    <3>1. n * t \in Nat /\ fee * s \in Nat
      BY <1>1, <1>4, <1>5, Products
    <3> QED BY <3>1, <1>1, <1>5, Products
  <2>5. (fee * s) * P <= (fee * (2 * supply)) * P
    <3>1. s * fee <= (2 * supply) * fee
      <4>1. 2 * supply \in Nat
        OBVIOUS
      <4> QED BY <4>1, <1>1, <1>4, Products
    <3>2. s * fee = fee * s /\ (2 * supply) * fee = fee * (2 * supply)
      BY <1>1, <1>4
    <3>3. fee * (2 * supply) \in Nat
      <4>1. 2 * supply \in Nat
        OBVIOUS
      <4> QED BY <4>1, <1>4, Products
    <3> QED BY <3>1, <3>2, <3>3, <2>4, <1>1, Products
  <2>6. (fee * (2 * supply)) * P = ((2 * fee) * P) * supply
    BY <1>1, <1>4
  <2> DEFINE a == mark * n
             b == (2 * fee) * P
  <2>7. a \in Nat /\ b \in Nat
    <3>1. 2 * fee \in Nat
      BY <1>4
    <3> QED BY <3>1, <1>1, <1>5, Products
  <2>8. a * supply <= b * supply
    <3> HIDE DEF worth, had
    <3>1. /\ had * n \in Nat /\ worth * n \in Nat /\ (t * P) * n \in Nat
          /\ (fee * s) * P \in Nat /\ (n * t) * P \in Nat
      <4>1. t * P \in Nat /\ fee * s \in Nat /\ n * t \in Nat
        BY <1>1, <1>4, <1>5, Products
      <4> HIDE DEF P
      <4> QED BY <4>1, <1>1, <1>2, <1>5, Products
    <3>2. a * supply \in Nat /\ b * supply \in Nat
      BY <2>7, Products
    <3> QED BY <2>1, <2>2, <2>3, <2>4, <2>5, <2>6, <3>1, <3>2
  <2> HIDE DEF a, b
  <2>9. ASSUME a > b PROVE FALSE
    <3>1. (b + 1) * supply <= a * supply /\ (b + 1) * supply = b * supply + 1 * supply
      <4>1. b + 1 <= a /\ b + 1 \in Nat
        BY <2>7, <2>9
      <4> QED BY <4>1, <2>7, Products
    <3>2. a * supply \in Nat /\ b * supply \in Nat /\ 1 * supply = supply
      BY <2>7, Products
    <3> QED BY <3>1, <3>2, <2>8
  <2>10. a <= b
    BY <2>7, <2>9
  <2> QED BY <2>10 DEF a, b
<1>9. mark * (supply + n) <= worth
  <2>1. (2 * fee + 1) * P <= yield * P /\ (2 * fee + 1) * P = (2 * fee) * P + 1 * P
    <3> DEFINE e == 2 * fee
    <3>1. e \in Nat /\ e + 1 \in Nat /\ e + 1 <= yield
      BY <1>4, <1>7
    <3> HIDE DEF yield, P, e
    <3>2. (e + 1) * P <= yield * P /\ (e + 1) * P = e * P + 1 * P
      BY <3>1, <1>1, <1>3, Products
    <3> QED BY <3>2 DEF e
  <2>2. yield * P + q * P = worth
    <3> HIDE DEF q
    <3>1. yield + q = total
      BY <1>3
    <3>2. (yield + q) * P = yield * P + q * P
      <4> HIDE DEF yield, P
      <4> QED BY <1>1, <1>3, Products
    <3> HIDE DEF yield, P
    <3> QED BY <3>1, <3>2 DEF worth
  <2>3. mark * (supply + n) = had + mark * n
    BY <1>5
  <2> DEFINE a == mark * n
             b == (2 * fee) * P
             c == yield * P
             d == q * P
  <2>4. a \in Nat /\ b \in Nat /\ c \in Nat /\ d \in Nat /\ 1 * P = P
    <3>1. 2 * fee \in Nat
      BY <1>4
    <3> HIDE DEF yield, q, P
    <3> QED BY <3>1, <1>1, <1>3, <1>5, Products
  <2>5. /\ b + P <= c /\ c + d = worth /\ had < d + P /\ a <= b
        /\ mark * (supply + n) = had + a
    BY <2>1, <2>2, <2>3, <2>4, <1>3, <1>8
  <2> HIDE DEF a, b, c, d, P, worth, had
  <2> QED BY <2>4, <2>5, <1>1, <1>2
<1>10. Nav(supply + n, total) >= mark
  <2> DEFINE k   == supply + n
             nav == worth \div k
  <2>1. k \in Nat \ {0}
    BY <1>5
  <2> HIDE DEF k, worth
  <2>2. nav \in Nat /\ worth < nav * k + k
    BY <2>1, <1>2, Division
  <2> HIDE DEF nav
  <2>3. ASSUME nav < mark PROVE FALSE
    <3>1. (nav + 1) * k <= mark * k /\ (nav + 1) * k = nav * k + 1 * k
      <4>1. nav + 1 <= mark /\ nav + 1 \in Nat
        BY <2>2, <2>3
      <4> QED BY <4>1, <2>1, <2>2, Products
    <3>2. nav * k \in Nat /\ mark * k \in Nat /\ 1 * k = k
      BY <2>1, <2>2, Products
    <3>3. mark * k <= worth
      BY <1>9 DEF k
    <3> QED BY <3>1, <3>2, <3>3, <2>1, <2>2, <1>2
  <2>4. nav >= mark
    BY <2>2, <2>3
  <2>5. nav = Nav(k, total)
    BY DEF Nav, nav, worth
  <2> QED BY <2>4, <2>5 DEF k
<1> QED BY <1>10 DEF FeeShares, n, fee

(* Factors trade places.                                                   *)
LEMMA Factors ==
    ASSUME NEW a \in Nat, NEW b \in Nat, NEW c \in Nat
    PROVE  /\ a * b * c = a * c * b
           /\ a * b * c = c * a * b
           /\ a * b = b * a
OBVIOUS

(* The mark, the value per share it was set from, is at least the price of *)
(* a share at that time, but for its rounding: the virtual offset lowers   *)
(* the price of shares that have gained.                                   *)
LEMMA MarkIsAbovePrice ==
    ASSUME NEW supply1 \in Nat, NEW total1 \in Nat, supply1 = 0 => total1 = 0,
           NEW mark \in Nat, mark >= NavPrecision,
           mark = IF supply1 = 0 THEN NavPrecision ELSE Nav(supply1, total1),
           NEW supply \in Nat, NEW total \in Nat,
           PriceNotLower(supply, total, supply1, total1)
    PROVE  (total + VirtualSharesOffset) * NavPrecision
             <= (mark + 1) * (supply + VirtualSharesOffset)
<1> DEFINE s == supply + VirtualSharesOffset
           t == total + VirtualSharesOffset
           v == VirtualSharesOffset
           n == NavPrecision
<1>1. /\ s \in Nat \ {0} /\ t \in Nat /\ v \in Nat \ {0} /\ n \in Nat \ {0}
      /\ mark + 1 \in Nat
  BY MathAssumption
<1>2. t * (supply1 + v) <= (total1 + v) * s
  BY <1>1 DEF PriceNotLower
<1>3. CASE supply1 = 0
  <2>1. t * v <= v * s /\ v * s = s * v
    BY <1>1, <1>2, <1>3, Factors
  <2> HIDE DEF s, t, v
  <2>2. t <= s
    BY <1>1, <2>1, Cancel
  <2>3. t * n <= s * n /\ s * n = n * s /\ n * s <= (mark + 1) * s
    BY <1>1, <1>3, <2>2, Products, Factors
  <2> QED BY <2>3, <1>1, Products DEF s, t, n, v
<1>4. CASE supply1 # 0
  <2>1. mark * supply1 <= total1 * n /\ total1 * n <= (mark + 1) * supply1
    <3>1. total1 * n \in Nat
      BY <1>1, Products
    <3>2. /\ mark * supply1 <= total1 * n /\ total1 * n < mark * supply1 + supply1
          /\ mark * supply1 \in Nat
      BY <1>4, <3>1, Division, Products DEF Nav
    <3>3. (mark + 1) * supply1 = mark * supply1 + 1 * supply1
      BY Products
    <3> QED BY <3>1, <3>2, <3>3
  <2>2. supply1 <= total1
    <3>1. n * supply1 <= mark * supply1 /\ n * supply1 = supply1 * n
      BY <1>1, Products, Factors
    <3>2. supply1 * n <= total1 * n
      BY <3>1, <2>1, <1>1, Products
    <3> QED BY <3>2, <1>1, Cancel
  <2> HIDE DEF s, t, v, n
  <2>3. t * supply1 <= total1 * s
    <3>1. t * supply1 + t * v <= total1 * s + v * s
      BY <1>1, <1>2, Products
    <3>2. CASE s <= t
      <4>1. s * v <= t * v /\ s * v = v * s
        BY <1>1, <3>2, Products, Factors
      <4> QED BY <3>1, <4>1, <1>1, Products
    <3>3. CASE t <= s
      <4>1. t * supply1 <= s * supply1 /\ s * supply1 = supply1 * s
        BY <1>1, <3>3, Products, Factors
      <4>2. supply1 * s <= total1 * s
        BY <1>1, <2>2, Products
      <4> QED BY <4>1, <4>2, <1>1, Products
    <3> QED BY <3>2, <3>3, <1>1
  <2>4. t * n * supply1 <= (mark + 1) * s * supply1
    <3>1. t * supply1 * n <= total1 * s * n
      BY <1>1, <2>3, Products
    <3>2. total1 * n * s <= (mark + 1) * supply1 * s
      BY <1>1, <2>1, Products
    <3>3. /\ t * supply1 * n = t * n * supply1 /\ total1 * s * n = total1 * n * s
          /\ (mark + 1) * supply1 * s = (mark + 1) * s * supply1
      BY <1>1, Factors
    <3>4. /\ t * supply1 * n \in Nat /\ total1 * s * n \in Nat
          /\ (mark + 1) * supply1 * s \in Nat
      BY <1>1, Products
    <3> QED BY <3>1, <3>2, <3>3, <3>4
  <2>5. t * n \in Nat /\ (mark + 1) * s \in Nat
    BY <1>1, Products
  <2>6. t * n <= (mark + 1) * s
    BY <1>4, <2>4, <2>5, Cancel
  <2> QED BY <2>6 DEF s, t, n, v
<1> QED BY <1>3, <1>4

(* Assets above a mark that is at least the price are the virtual shares'  *)
(* part of the gains, v * (total - supply) / s, and what rounding the mark *)
(* and its worth gave away.                                                *)
LEMMA YieldWithoutGrowth ==
    ASSUME NEW supply \in Nat, NEW total \in Nat, NEW mark \in Nat,
           (total + VirtualSharesOffset) * NavPrecision
             <= (mark + 1) * (supply + VirtualSharesOffset)
    PROVE  LET s == supply + VirtualSharesOffset
           IN  (total - (mark * supply) \div NavPrecision) * NavPrecision * s
                 <= VirtualSharesOffset * (total - supply) * NavPrecision
                      + (supply + NavPrecision) * s
<1> DEFINE v == VirtualSharesOffset
           n == NavPrecision
           s == supply + v
           t == total + v
           q == (mark * supply) \div n
           x == total * n
           y == supply * n
<1>1. v \in Nat /\ n \in Nat \ {0} /\ s \in Nat /\ t \in Nat /\ mark * supply \in Nat
  BY MathAssumption, Products
<1>2. q \in Nat /\ mark * supply < q * n + n
  BY <1>1, Division
<1>3. x \in Nat /\ y \in Nat
  BY <1>1, Products
<1>4. t * n = x + v * n
  BY <1>1, Products
<1> HIDE DEF q, t, n, x, y
<1>5. x * supply + v * n * supply <= q * n * s + n * s + supply * s
  <2>1. (x + v * n) * supply <= (mark + 1) * s * supply
    <3>1. v * n \in Nat /\ (mark + 1) * s \in Nat
      BY <1>1, Products
    <3>2. x + v * n <= (mark + 1) * s
      BY <1>4 DEF t, n
    <3> QED BY <1>3, <3>1, <3>2, Products
  <2> HIDE DEF s, v
  <2>2. (x + v * n) * supply = x * supply + v * n * supply
    BY <1>1, <1>3, Products
  <2>3. (mark + 1) * s * supply = mark * supply * s + supply * s
    <3>1. (mark + 1) * s * supply = (mark + 1) * supply * s
      BY <1>1, Factors
    <3>2. (mark + 1) * supply = mark * supply + supply
      BY Products
    <3> QED BY <3>1, <3>2, <1>1, Products
  <2>4. mark * supply * s <= (q * n + n) * s /\ (q * n + n) * s = q * n * s + n * s
    BY <1>1, <1>2, Products
  <2>5. /\ x * supply \in Nat /\ v * n * supply \in Nat /\ q * n * s \in Nat /\ n * s \in Nat
        /\ supply * s \in Nat /\ mark * supply * s \in Nat
    BY <1>1, <1>2, <1>3, Products
  <2> QED BY <2>1, <2>2, <2>3, <2>4, <2>5
<1>6. x * s = x * supply + x * v
  BY <1>1, <1>3, Products
<1>7. (total - q) * n * s = x * s - q * n * s
  <2> HIDE DEF s
  <2>1. (total - q) * n = total * n - q * n
    BY <1>1, <1>2
  <2>2. q * n \in Nat
    BY <1>1, <1>2, Products
  <2>3. (x - q * n) * s = x * s - q * n * s
    <3> HIDE DEF x
    <3> DEFINE w == q * n
    <3>1. w \in Nat
      BY <2>2
    <3> HIDE DEF w
    <3>2. (x - w) * s = x * s - w * s
      BY <1>1, <1>3, <3>1
    <3> QED BY <3>2 DEF w
  <2> QED BY <2>1, <2>3 DEF x
<1>8. v * (total - supply) * n = x * v - v * n * supply
  <2> HIDE DEF v
  <2>1. v * (total - supply) = v * total - v * supply
    BY <1>1
  <2>2. v * total \in Nat /\ v * supply \in Nat
    BY <1>1, Products
  <2>3. (v * total - v * supply) * n = v * total * n - v * supply * n
    <3> DEFINE w == v * total
               z == v * supply
    <3>1. w \in Nat /\ z \in Nat
      BY <2>2
    <3> HIDE DEF w, z
    <3>2. (w - z) * n = w * n - z * n
      BY <1>1, <3>1
    <3> QED BY <3>2 DEF w, z
  <2>4. v * total * n = total * n * v /\ v * supply * n = v * n * supply
    BY <1>1, Factors
  <2> QED BY <2>1, <2>3, <2>4 DEF x
<1>9. (supply + n) * s = supply * s + n * s
  BY <1>1, Products
<1>10. /\ x * supply \in Nat /\ v * n * supply \in Nat /\ q * n * s \in Nat /\ n * s \in Nat
       /\ supply * s \in Nat /\ x * v \in Nat
  <2> HIDE DEF s, v
  <2> QED BY <1>1, <1>2, <1>3, Products
<1>11. (total - q) * n * s <= v * (total - supply) * n + (supply + n) * s
  <2> HIDE DEF s, v
  <2> QED BY <1>5, <1>6, <1>7, <1>8, <1>9, <1>10
<1> QED BY <1>11 DEF q, n, s, v

(* A fee within the yield above a mark of one unit a share or more leaves  *)
(* a unit for every share, so that the next mark is as high.               *)
LEMMA MarkStaysAtPar ==
    ASSUME NEW supply \in Nat \ {0}, NEW total \in Nat, NEW mark \in Nat, NEW bps \in Nat,
           Nav(supply, total) > mark, mark >= NavPrecision, bps <= MaxBps
    PROVE  Nav(supply + FeeShares(supply, total, mark, bps), total) >= NavPrecision
<1> DEFINE n   == NavPrecision
           had == (mark * supply) \div n
           fee == FeeAssets(supply, total, mark, bps)
           m   == ToShares(fee, supply, total)
           s   == supply + VirtualSharesOffset
           t   == total + VirtualSharesOffset
<1>1. n \in Nat \ {0} /\ MaxBps \in Nat \ {0} /\ s \in Nat \ {0} /\ t \in Nat \ {0}
  BY MathAssumption
<1>2. /\ had \in 0..total /\ mark * supply \in Nat
      /\ mark * supply < had * n + n
  BY MarkedAssets
<1>3. fee \in Nat /\ fee * MaxBps <= (total - had) * bps
  BY FeeIsNatural
<1> HIDE DEF had, fee
<1>4. supply <= had
  <2>1. n * supply <= mark * supply
    BY <1>1, Products
  <2>2. had * n + n = (had + 1) * n
    BY <1>1, <1>2, Products
  <2>3. n * supply = supply * n
    BY <1>1, Factors
  <2>4. CASE had + 1 <= supply
    <3>1. (had + 1) * n <= supply * n
      BY <1>1, <1>2, <2>4, Products
    <3>2. n * supply \in Nat
      BY <1>1, Products
    <3> QED BY <1>1, <1>2, <2>1, <2>2, <2>3, <3>1, <3>2, Products
  <2> QED BY <2>4, <1>2
<1>5. fee <= total - had
  <2>1. total - had \in Nat
    BY <1>2
  <2>2. bps * (total - had) <= MaxBps * (total - had)
    BY <1>1, <2>1, Products
  <2>3. /\ bps * (total - had) = (total - had) * bps
        /\ MaxBps * (total - had) = (total - had) * MaxBps
    BY <1>1, <2>1, Factors
  <2>4. fee * MaxBps <= (total - had) * MaxBps
    <3>1. /\ fee * MaxBps \in Nat /\ (total - had) * bps \in Nat
          /\ (total - had) * MaxBps \in Nat
      BY <1>1, <1>3, <2>1, Products
    <3> QED BY <1>3, <2>2, <2>3, <3>1
  <2> QED BY <1>1, <1>3, <2>1, <2>4, Cancel
<1>6. m \in Nat /\ m * t <= fee * s
  BY <1>3, MintedWorth
<1> HIDE DEF m
<1>7. m <= fee
  <2>1. s <= t
    BY <1>2, <1>4, MathAssumption
  <2> HIDE DEF s, t
  <2>2. fee * s <= fee * t
    <3>1. s * fee <= t * fee /\ s * fee = fee * s /\ t * fee = fee * t
      BY <1>1, <1>3, <2>1, Products, Factors
    <3> QED BY <3>1
  <2>3. m * t <= fee * t
    BY <1>1, <1>3, <1>6, <2>2, Products
  <2> QED BY <1>1, <1>3, <1>6, <2>3, Cancel
<1>8. supply + m \in Nat \ {0} /\ supply + m <= total
  BY <1>2, <1>3, <1>4, <1>5, <1>6, <1>7
<1>9. (supply + m) * n <= total * n /\ total * n \in Nat
  BY <1>1, <1>8, Products
<1>10. n * (supply + m) <= total * n
  BY <1>1, <1>8, <1>9, Factors
<1>11. n <= (total * n) \div (supply + m)
  <2> DEFINE d == supply + m
             p == total * n
             k == p \div d
  <2>1. k \in Nat /\ p < k * d + d
    BY <1>8, <1>9, Division
  <2> HIDE DEF d, p, k
  <2>2. CASE k + 1 <= n
    <3>1. d \in Nat /\ p \in Nat /\ n * d <= p
      BY <1>8, <1>9, <1>10 DEF d, p
    <3>2. (k + 1) * d <= n * d /\ (k + 1) * d = k * d + 1 * d
      BY <1>1, <2>1, <2>2, <3>1, Products
    <3> QED BY <1>1, <2>1, <3>1, <3>2, Products
  <2> QED BY <1>1, <2>1, <2>2 DEF d, p, k
<1> QED BY <1>11 DEF Nav, FeeShares, m, fee, n


-----------------------------------------------------------------------------
(* Sums.                                                                   *)

(* A finite sum of naturals counts a finite set, so it is a natural.       *)
LEMMA SumIsNatural ==
    ASSUME NEW S, IsFiniteSet(S), NEW f, \A x \in S : f[x] \in Nat
    PROVE  IsFiniteSet(UnitsOf(f, S)) /\ SumOver(f, S) \in Nat
<1> DEFINE column == [x \in S |-> {x} \X (1..f[x])]
           columns == {{x} \X (1..f[x]) : x \in S}
<1>1. column \in Surjection(S, columns)
  BY DEF Surjection
<1>2. IsFiniteSet(columns)
  <2> HIDE DEF column, columns
  <2> QED BY <1>1, FS_Surjection
<1>3. \A T \in columns : IsFiniteSet(T)
  <2> SUFFICES ASSUME NEW x \in S PROVE IsFiniteSet({x} \X (1..f[x]))
    OBVIOUS
  <2>1. f[x] \in Int
    OBVIOUS
  <2>2. IsFiniteSet(1..f[x])
    BY <2>1, FS_Interval
  <2>3. IsFiniteSet({x})
    BY FS_Singleton
  <2> QED BY <2>2, <2>3, FS_Product
<1>4. IsFiniteSet(UNION columns)
  <2> HIDE DEF columns
  <2> QED BY <1>2, <1>3, FS_UNION
<1> QED BY <1>4, FS_CardinalityType DEF UnitsOf, SumOver

(* A sum is a summand and the sum of the others.                           *)
LEMMA SumSplit ==
    ASSUME NEW S, IsFiniteSet(S), NEW f, \A y \in S : f[y] \in Nat, NEW x \in S
    PROVE  SumOver(f, S) = SumOver(f, S \ {x}) + f[x]
<1> DEFINE column == {x} \X (1..f[x])
           others == UnitsOf(f, S \ {x})
<1>1. UnitsOf(f, S) = others \cup column
  BY DEF UnitsOf
<1>2. others \cap column = {}
  BY DEF UnitsOf
<1>3. IsFiniteSet(column) /\ Cardinality(column) = f[x]
  <2>1. f[x] \in Nat
    OBVIOUS
  <2>2. IsFiniteSet({x}) /\ Cardinality({x}) = 1
    BY FS_Singleton
  <2>3. /\ IsFiniteSet(1..f[x])
        /\ Cardinality(1..f[x]) = IF 1 > f[x] THEN 0 ELSE f[x] - 1 + 1
    BY <2>1, FS_Interval
  <2>4. IsFiniteSet(column) /\ Cardinality(column) = 1 * Cardinality(1..f[x])
    BY <2>2, <2>3, FS_Product
  <2> QED BY <2>1, <2>3, <2>4
<1>4. IsFiniteSet(others) /\ Cardinality(others) \in Nat
  <2>1. IsFiniteSet(S \ {x})
    BY FS_RemoveElement
  <2> QED BY <2>1, SumIsNatural DEF SumOver
<1> HIDE DEF column, others
<1>5. Cardinality(others \cup column)
        = Cardinality(others) + Cardinality(column) - Cardinality(others \cap column)
  BY <1>3, <1>4, FS_Union
<1>6. Cardinality(others \cap column) = 0
  BY <1>2, FS_EmptySet
<1>7. SumOver(f, S) = Cardinality(others \cup column)
  BY <1>1 DEF SumOver
<1>8. SumOver(f, S \ {x}) = Cardinality(others)
  BY DEF SumOver, others
<1> QED BY <1>3, <1>4, <1>5, <1>6, <1>7, <1>8

(* A sum depends on the summands only.                                     *)
LEMMA SumSame ==
    ASSUME NEW S, NEW f, NEW g, \A x \in S : f[x] = g[x]
    PROVE  SumOver(f, S) = SumOver(g, S)
<1>1. UnitsOf(f, S) = UnitsOf(g, S)
  BY DEF UnitsOf
<1> QED BY <1>1 DEF SumOver

(* No summand, no sum; no summand but zero, no sum.                        *)
LEMMA SumZero ==
    ASSUME NEW S, NEW f, \A x \in S : f[x] = 0
    PROVE  SumOver(f, S) = 0
<1>1. UnitsOf(f, S) = {}
  <2>1. \A x \in S : {x} \X (1..f[x]) = {}
    OBVIOUS
  <2> QED BY <2>1, Zenon DEF UnitsOf
<1> QED BY <1>1, FS_EmptySet DEF SumOver

(* Changing one summand changes the sum by as much.                        *)
LEMMA SumUpdate ==
    ASSUME NEW S, IsFiniteSet(S), NEW f \in [S -> Nat], NEW g \in [S -> Nat], NEW x \in S,
           \A y \in S \ {x} : g[y] = f[y]
    PROVE  SumOver(g, S) = SumOver(f, S) - f[x] + g[x]
<1>1. SumOver(g, S) = SumOver(g, S \ {x}) + g[x]
  BY SumSplit
<1>2. SumOver(f, S) = SumOver(f, S \ {x}) + f[x]
  BY SumSplit
<1>3. SumOver(g, S \ {x}) = SumOver(f, S \ {x})
  BY SumSame
<1>4. SumOver(f, S \ {x}) \in Nat
  BY FS_RemoveElement, SumIsNatural
<1> QED BY <1>1, <1>2, <1>3, <1>4

(* A sum does not depend on what its summands are called.                  *)
LEMMA SumReindex ==
    ASSUME NEW S, IsFiniteSet(S), NEW T, NEW h \in Bijection(S, T),
           NEW f, NEW g, \A x \in S : f[x] \in Nat /\ g[h[x]] = f[x]
    PROVE  SumOver(f, S) = SumOver(g, T)
<1> DEFINE A == UnitsOf(f, S)
           B == UnitsOf(g, T)
           u == [p \in A |-> <<h[p[1]], p[2]>>]
<1> USE DEF Bijection, Injection, Surjection, IsInjective
<1>1. \A p \in A : p[1] \in S /\ p[2] \in 1..f[p[1]] /\ p = <<p[1], p[2]>>
  BY DEF UnitsOf
<1>2. u \in [A -> B]
  BY <1>1 DEF UnitsOf
<1>3. \A p, q \in A : u[p] = u[q] => p = q
  BY <1>1
<1>4. \A r \in B : \E p \in A : u[p] = r
  <2>1. SUFFICES ASSUME NEW r \in B PROVE \E p \in A : u[p] = r
    OBVIOUS
  <2>2. PICK t \in T : r \in {t} \X (1..g[t])
    BY DEF UnitsOf
  <2>3. PICK x \in S : h[x] = t
    OBVIOUS
  <2>4. r = <<t, r[2]>> /\ r[2] \in 1..f[x]
    BY <2>2, <2>3
  <2>5. <<x, r[2]>> \in A
    BY <2>4 DEF UnitsOf
  <2>6. u[<<x, r[2]>>] = <<h[x], r[2]>>
    BY <2>5
  <2> QED BY <2>3, <2>4, <2>5, <2>6
<1>5. IsFiniteSet(A)
  BY SumIsNatural
<1> HIDE DEF A, B, u
<1>6. u \in Bijection(A, B)
  BY <1>2, <1>3, <1>4
<1> HIDE DEF Bijection
<1>7. Cardinality(A) = Cardinality(B)
  BY <1>5, <1>6, FS_Bijection DEF ExistsBijection
<1> QED BY <1>7 DEF SumOver, A, B

(* A number below a product has a row and a column.                        *)
LEMMA Place ==
    ASSUME NEW n \in Nat, NEW g \in Nat, NEW q \in Nat \ {0}, n < g * q
    PROVE  /\ n \div q + 1 \in 1..g
           /\ n - (n \div q) * q + 1 \in 1..q
<1> DEFINE d == n \div q
<1>1. d \in Nat /\ d * q <= n /\ n < d * q + q
  BY Division
<1> HIDE DEF d
<1>2. d * q \in Nat /\ g * q \in Nat
  BY <1>1, Products
<1>3. ASSUME d >= g PROVE FALSE
  <2>1. g * q <= d * q
    BY <1>1, <1>3, Products
  <2> QED BY <2>1, <1>1, <1>2
<1>4. d + 1 \in 1..g /\ n - d * q + 1 \in 1..q
  BY <1>1, <1>2, <1>3
<1> QED BY <1>4 DEF d

(* The row and the column that a number of the first p columns of i rows   *)
(* has, and that two different ones cannot share.                          *)
LEMMA Rows ==
    ASSUME NEW p \in Nat \ {0}, NEW i \in Nat \ {0}, NEW j \in 1..p
    PROVE  /\ (i - 1) * p + (j - 1) \in Nat
           /\ (i - 1) * p + (j - 1) < i * p
           /\ \A k \in Nat \ {0}, l \in 1..p :
                (i - 1) * p + (j - 1) = (k - 1) * p + (l - 1) => i = k /\ j = l
<1> DEFINE e == i - 1
<1>1. e \in Nat /\ i = e + 1 /\ e * p \in Nat /\ (e + 1) * p = e * p + 1 * p
  <2>1. e \in Nat /\ i = e + 1
    OBVIOUS
  <2> HIDE DEF e
  <2> QED BY <2>1, Products
<1>2. ASSUME NEW k \in Nat \ {0}, NEW l \in 1..p,
             e * p + (j - 1) = (k - 1) * p + (l - 1)
      PROVE  i = k /\ j = l
  <2> DEFINE f == k - 1
  <2>1. f \in Nat /\ k = f + 1
    OBVIOUS
  <2>2. e * p + (j - 1) = f * p + (l - 1)
    BY <1>2
  <2> HIDE DEF e, f
  <2>3. f * p \in Nat /\ (f + 1) * p = f * p + 1 * p
    BY <2>1, Products
  <2>4. ASSUME e < f PROVE FALSE
    <3>1. (e + 1) * p <= f * p
      BY <2>1, <2>4, <1>1, Products
    <3> QED BY <3>1, <2>2, <2>3, <1>1
  <2>5. ASSUME f < e PROVE FALSE
    <3>1. (f + 1) * p <= e * p
      BY <2>1, <2>5, <1>1, Products
    <3> QED BY <3>1, <2>2, <2>3, <1>1
  <2>6. e = f
    BY <2>1, <2>4, <2>5, <1>1
  <2> QED BY <2>1, <2>2, <2>3, <2>6, <1>1
<1> HIDE DEF e
<1>3. e * p + (j - 1) \in Nat /\ e * p + (j - 1) < i * p
  BY <1>1
<1> QED BY <1>2, <1>3 DEF e

(* Scaled sums compare like their summands: a sum of parts, each rounded   *)
(* down by itself, is at most the part of the sum.  The units on the left, *)
(* laid out in rows, fit into those on the right.                          *)
LEMMA SumsCompare ==
    ASSUME NEW S, IsFiniteSet(S), NEW f, NEW g, NEW p \in Nat \ {0}, NEW q \in Nat \ {0},
           \A x \in S : f[x] \in Nat /\ g[x] \in Nat /\ f[x] * p <= g[x] * q
    PROVE  SumOver(f, S) * p <= SumOver(g, S) * q
<1> DEFINE A == UnitsOf(f, S) \X (1..p)
           B == UnitsOf(g, S) \X (1..q)
           n(w) == (w[1][2] - 1) * p + (w[2] - 1)
           h == [w \in A |-> << <<w[1][1], n(w) \div q + 1>>, n(w) - (n(w) \div q) * q + 1>>]
<1>1. \A w \in A : /\ w = << <<w[1][1], w[1][2]>>, w[2]>>
                   /\ w[1][1] \in S /\ w[1][2] \in 1..f[w[1][1]] /\ w[2] \in 1..p
  BY DEF UnitsOf
<1>2. \A w \in A : n(w) \in Nat /\ n(w) < g[w[1][1]] * q
  <2> SUFFICES ASSUME NEW w \in A PROVE n(w) \in Nat /\ n(w) < g[w[1][1]] * q
    OBVIOUS
  <2> DEFINE i == w[1][2]
             x == w[1][1]
  <2>1. x \in S /\ i \in 1..f[x] /\ w[2] \in 1..p /\ f[x] \in Nat /\ g[x] \in Nat
        /\ f[x] * p <= g[x] * q
    BY <1>1
  <2> HIDE DEF A, i, x
  <2>2. i \in Nat \ {0} /\ i <= f[x]
    BY <2>1
  <2>3. (i - 1) * p + (w[2] - 1) \in Nat /\ (i - 1) * p + (w[2] - 1) < i * p
    BY <2>1, <2>2, Rows
  <2>4. i * p <= f[x] * p /\ i * p \in Nat /\ f[x] * p \in Nat /\ g[x] * q \in Nat
    BY <2>1, <2>2, Products
  <2> QED BY <2>1, <2>3, <2>4 DEF i, x
<1>3. h \in [A -> B]
  <2> SUFFICES ASSUME NEW w \in A
               PROVE  << <<w[1][1], n(w) \div q + 1>>, n(w) - (n(w) \div q) * q + 1>> \in B
    OBVIOUS
  <2>1. w[1][1] \in S /\ g[w[1][1]] \in Nat /\ n(w) \in Nat /\ n(w) < g[w[1][1]] * q
    BY <1>1, <1>2
  <2> HIDE DEF A, n
  <2>2. n(w) \div q + 1 \in 1..g[w[1][1]] /\ n(w) - (n(w) \div q) * q + 1 \in 1..q
    BY <2>1, Place
  <2> QED BY <2>1, <2>2 DEF UnitsOf
<1>4. \A v, w \in A : h[v] = h[w] => v = w
  <2> SUFFICES ASSUME NEW v \in A, NEW w \in A, h[v] = h[w] PROVE v = w
    OBVIOUS
  <2>1. /\ v[1][1] = w[1][1]
        /\ n(v) \div q + 1 = n(w) \div q + 1
        /\ n(v) - (n(v) \div q) * q + 1 = n(w) - (n(w) \div q) * q + 1
    <3> HIDE DEF A, n
    <3> QED BY DEF h
  <2>2. n(v) \in Nat /\ n(w) \in Nat
    BY <1>2
  <2>3. n(v) = n(w)
    <3> HIDE DEF A, n
    <3>1. n(v) \div q \in Nat /\ n(w) \div q \in Nat
      BY <2>2, Division
    <3> DEFINE a == n(v) \div q
               b == n(w) \div q
    <3>2. a = b /\ n(v) - a * q + 1 = n(w) - b * q + 1
      BY <2>1, <3>1
    <3> HIDE DEF a, b
    <3>3. a * q = b * q /\ a * q \in Int
      BY <3>1, <3>2 DEF a, b
    <3> DEFINE c == a * q
               d == b * q
               k == n(v)
               l == n(w)
    <3>4. c = d /\ c \in Int /\ k \in Nat /\ l \in Nat /\ k - c + 1 = l - d + 1
      BY <2>2, <3>2, <3>3
    <3> HIDE DEF c, d, k, l
    <3>5. k = l
      BY <3>4
    <3> QED BY <3>5 DEF k, l
  <2>4. v[1][2] \in Nat \ {0} /\ w[1][2] \in Nat \ {0} /\ v[2] \in 1..p /\ w[2] \in 1..p
    <3>1. f[v[1][1]] \in Nat /\ f[w[1][1]] \in Nat
      BY <1>1
    <3> QED BY <1>1, <3>1
  <2>5. v[1][2] = w[1][2] /\ v[2] = w[2]
    <3> DEFINE i == v[1][2]  j == v[2]
               k == w[1][2]  l == w[2]
    <3>1. (i - 1) * p + (j - 1) = (k - 1) * p + (l - 1)
      BY <2>3
    <3>2. i \in Nat \ {0} /\ k \in Nat \ {0} /\ j \in 1..p /\ l \in 1..p
      BY <2>4
    <3> HIDE DEF A, i, j, k, l, n
    <3>3. \A x \in Nat \ {0}, y \in 1..p :
             (i - 1) * p + (j - 1) = (x - 1) * p + (y - 1) => i = x /\ j = y
      BY <3>2, Rows
    <3>4. i = k /\ j = l
      BY <3>1, <3>2, <3>3, Zenon
    <3> QED BY <3>4 DEF i, j, k, l
  <2> QED BY <1>1, <2>1, <2>5
<1>5. IsFiniteSet(A) /\ Cardinality(A) = SumOver(f, S) * p
  <2>1. IsFiniteSet(UnitsOf(f, S))
    BY SumIsNatural
  <2>2. IsFiniteSet(1..p) /\ Cardinality(1..p) = p
    BY FS_Interval
  <2> QED BY <2>1, <2>2, FS_Product DEF SumOver
<1>6. IsFiniteSet(B) /\ Cardinality(B) = SumOver(g, S) * q
  <2>1. IsFiniteSet(UnitsOf(g, S))
    BY SumIsNatural
  <2>2. IsFiniteSet(1..q) /\ Cardinality(1..q) = q
    BY FS_Interval
  <2> QED BY <2>1, <2>2, FS_Product DEF SumOver
<1> HIDE DEF A, B, h
<1>7. h \in Injection(A, B)
  BY <1>3, <1>4 DEF Injection, IsInjective
<1>8. Cardinality(A) <= Cardinality(B)
  BY <1>6, <1>7, FS_Injection
<1> QED BY <1>5, <1>6, <1>8

(* What all holders could redeem at the price of the moment is less than   *)
(* the assets and the virtual offset together; it is within the assets if  *)
(* a share is worth a unit or more.                                        *)
THEOREM ClaimsAddUp ==
    ASSUME NEW S, IsFiniteSet(S), NEW f \in [S -> Nat], NEW total \in Nat
    PROVE  LET supply == SumOver(f, S)
               claims == SumOver([x \in S |-> ToAssets(f[x], supply, total)], S)
           IN  /\ claims \in Nat
               /\ claims < total + VirtualSharesOffset
               /\ supply <= total => claims <= total
<1> DEFINE supply == SumOver(f, S)
           c      == [x \in S |-> ToAssets(f[x], supply, total)]
           claims == SumOver(c, S)
           s == supply + VirtualSharesOffset
           t == total + VirtualSharesOffset
<1>1. supply \in Nat
  BY SumIsNatural
<1>2. s \in Nat \ {0} /\ t \in Nat \ {0}
  BY <1>1, MathAssumption
<1>3. \A x \in S : c[x] \in Nat /\ c[x] * s <= f[x] * t
  <2> SUFFICES ASSUME NEW x \in S PROVE c[x] \in Nat /\ c[x] * s <= f[x] * t
    OBVIOUS
  <2> HIDE DEF supply
  <2> QED BY <1>1, PaidWorth
<1>4. claims \in Nat
  BY <1>3, SumIsNatural
<1>5. claims * s <= supply * t
  <2> HIDE DEF c, s, t
  <2> QED BY <1>2, <1>3, SumsCompare
<1> HIDE DEF supply, c, claims
<1>6. claims < t
  <2>1. ASSUME claims >= t PROVE FALSE
    <3>1. t * s <= claims * s
      BY <2>1, <1>2, <1>4, Products
    <3>2. t * s = t * supply + t * VirtualSharesOffset
      BY <1>1, <1>2, MathAssumption, Products
    <3>3. /\ t * supply = supply * t /\ supply * t \in Nat /\ claims * s \in Nat /\ t * s \in Nat
          /\ t * VirtualSharesOffset >= VirtualSharesOffset
      <4>1. 1 * VirtualSharesOffset <= t * VirtualSharesOffset
        BY <1>2, MathAssumption, Products
      <4> QED BY <4>1, <1>1, <1>2, <1>4, MathAssumption, Products
    <3> QED BY <3>1, <3>2, <3>3, <1>5, MathAssumption
  <2> QED BY <2>1, <1>2, <1>4
<1>7. ASSUME supply <= total PROVE claims <= total
  <2>1. /\ supply * t = supply * total + supply * VirtualSharesOffset
        /\ total * s = total * supply + total * VirtualSharesOffset
        /\ supply * total = total * supply
        /\ supply * VirtualSharesOffset <= total * VirtualSharesOffset
        /\ supply * total \in Nat /\ supply * VirtualSharesOffset \in Nat
        /\ total * VirtualSharesOffset \in Nat
    BY <1>1, <1>7, MathAssumption, Products
  <2>2. claims * s <= total * s
    <3>1. claims * s \in Nat
      BY <1>2, <1>4, Products
    <3> QED BY <2>1, <3>1, <1>5
  <2>3. ASSUME claims > total PROVE FALSE
    <3>1. (total + 1) * s <= claims * s /\ (total + 1) * s = total * s + 1 * s
      BY <2>3, <1>2, <1>4, Products
    <3>2. total * s \in Nat /\ claims * s \in Nat
      BY <1>2, <1>4, Products
    <3> QED BY <3>1, <3>2, <2>2, <1>2
  <2> QED BY <2>3, <1>4
<1> QED BY <1>4, <1>6, <1>7 DEF claims, c, supply
=============================================================================
