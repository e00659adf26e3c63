----------------------- MODULE ParcookAverages_proofs -----------------------
(***************************************************************************)
(* Proofs about ParcookAverages, for every word width (Half), every        *)
(* configuration of single and combined parameters, every sequence of data *)
(* and any clock steps forward.                                            *)
(*                                                                         *)
(* AvgInv is inductive.  Its core is SumsMatch; the range of a short is    *)
(* left by no mean because the sum of a window lies between its count      *)
(* times the extremes of the data (Count6, Count10), which the proof       *)
(* derives from SumsMatch rather than carries along.                       *)
(***************************************************************************)
EXTENDS ParcookAverages, TLAPS

-----------------------------------------------------------------------------
(* What a slot adds to a sum is an integer, to a count at most one.        *)
LEMMA Contributions ==
  ASSUME NEW s \in Segment, NEW p \in Params
  PROVE  SumOf(s, p) \in Int /\ CntOf(s, p) \in {0, 1}
<1>1. Info[p].other \in Params
  BY InfoAssumption
<1>2. s[p] \in Int /\ s[Info[p].other] \in Int
  BY <1>1, HalfAssumption DEF Segment, Word
<1>3. Value(s, p) \in Int
  <2>1. s[p] * (2 * Half) \in Int /\ s[Info[p].other] % (2 * Half) \in Int
    BY <1>2, HalfAssumption
  <2> QED BY <1>2, <2>1 DEF Value
<1> QED BY <1>3 DEF SumOf, CntOf

(* Replacing slot i of a window of six changes its sum and count by the    *)
(* difference that update_value applies.                                   *)
LEMMA Replace6 ==
  ASSUME NEW w \in [Sixth -> Segment], NEW i \in Sixth, NEW s \in Segment, NEW p \in Params
  PROVE  /\ Sum6([w EXCEPT ![i] = s], p) = Sum6(w, p) - SumOf(w[i], p) + SumOf(s, p)
         /\ Cnt6([w EXCEPT ![i] = s], p) = Cnt6(w, p) - CntOf(w[i], p) + CntOf(s, p)
<1> DEFINE u == [w EXCEPT ![i] = s]
<1>1. \A j \in Sixth : SumOf(w[j], p) \in Int /\ CntOf(w[j], p) \in Int
  BY Contributions
<1>2. SumOf(s, p) \in Int /\ CntOf(s, p) \in Int
  BY Contributions
<1>3. \A j \in Sixth : u[j] = IF j = i THEN s ELSE w[j]
  OBVIOUS
<1> HIDE DEF u
<1>4. \A j \in Sixth : /\ SumOf(u[j], p) = IF j = i THEN SumOf(s, p) ELSE SumOf(w[j], p)
                       /\ CntOf(u[j], p) = IF j = i THEN CntOf(s, p) ELSE CntOf(w[j], p)
  BY <1>3
<1>5. Sum6(u, p) = Sum6(w, p) - SumOf(w[i], p) + SumOf(s, p)
  BY <1>1, <1>2, <1>4 DEF Sum6, Sixth
<1>6. Cnt6(u, p) = Cnt6(w, p) - CntOf(w[i], p) + CntOf(s, p)
  BY <1>1, <1>2, <1>4 DEF Cnt6, Sixth
<1> QED BY <1>5, <1>6 DEF u

(* The same for the window of ten.                                         *)
LEMMA Replace10 ==
  ASSUME NEW w \in [Tenth -> Segment], NEW i \in Tenth, NEW s \in Segment, NEW p \in Params
  PROVE  /\ Sum10([w EXCEPT ![i] = s], p) = Sum10(w, p) - SumOf(w[i], p) + SumOf(s, p)
         /\ Cnt10([w EXCEPT ![i] = s], p) = Cnt10(w, p) - CntOf(w[i], p) + CntOf(s, p)
<1> DEFINE u == [w EXCEPT ![i] = s]
<1>1. \A j \in Tenth : SumOf(w[j], p) \in Int /\ CntOf(w[j], p) \in Int
  BY Contributions
<1>2. SumOf(s, p) \in Int /\ CntOf(s, p) \in Int
  BY Contributions
<1>3. \A j \in Tenth : u[j] = IF j = i THEN s ELSE w[j]
  OBVIOUS
<1> HIDE DEF u
<1>4. \A j \in Tenth : /\ SumOf(u[j], p) = IF j = i THEN SumOf(s, p) ELSE SumOf(w[j], p)
                       /\ CntOf(u[j], p) = IF j = i THEN CntOf(s, p) ELSE CntOf(w[j], p)
  BY <1>3
<1>5. Sum10(u, p) = Sum10(w, p) - SumOf(w[i], p) + SumOf(s, p)
  BY <1>1, <1>2, <1>4 DEF Sum6, Sum10, Tenth
<1>6. Cnt10(u, p) = Cnt10(w, p) - CntOf(w[i], p) + CntOf(s, p)
  BY <1>1, <1>2, <1>4 DEF Cnt6, Cnt10, Tenth
<1> QED BY <1>5, <1>6 DEF u

-----------------------------------------------------------------------------
(* The least and the greatest datum of a parameter. *)
Lo(p) == IF Info[p].type = "SINGLE" THEN 1 - Half ELSE (1 - Half) * (2 * Half)
Hi(p) == IF Info[p].type = "SINGLE" THEN Half - 1 ELSE (Half - 1) * (2 * Half) + (2 * Half - 1)

(* The extremes of a parameter's data are integers around zero.            *)
LEMMA Extremes == ASSUME NEW p \in Params
                  PROVE Lo(p) \in Int /\ Hi(p) \in Int /\ Lo(p) <= 0 /\ 0 <= Hi(p)
<1>1. (1 - Half) * (2 * Half) \in Int /\ (1 - Half) * (2 * Half) <= 0
  BY HalfAssumption
<1>2. (Half - 1) * (2 * Half) \in Int /\ (Half - 1) * (2 * Half) >= 0
  BY HalfAssumption
<1> QED BY <1>1, <1>2, HalfAssumption DEF Lo, Hi

(* A datum lies between the extremes.                                      *)
LEMMA Bounds ==
  ASSUME NEW s \in Segment, NEW p \in Params
  PROVE  CntOf(s, p) * Lo(p) <= SumOf(s, p) /\ SumOf(s, p) <= CntOf(s, p) * Hi(p)
<1> DEFINE o == s[Info[p].other] % (2 * Half)
<1>1. s[p] \in Word /\ o \in 0 .. 2 * Half - 1
  BY InfoAssumption, HalfAssumption DEF Segment, Word
<1>2. CASE s[p] = SZARP_NO_DATA
  BY <1>2, Extremes DEF SumOf, CntOf
<1>3. CASE s[p] # SZARP_NO_DATA
  <2>1. s[p] \in 1 - Half .. Half - 1
    BY <1>1, <1>3, HalfAssumption DEF Word, SZARP_NO_DATA
  <2>2. CASE Info[p].type = "SINGLE"
    BY <1>3, <2>1, <2>2, HalfAssumption DEF SumOf, CntOf, Value, Lo, Hi
  <2>3. CASE Info[p].type # "SINGLE"
    <3> DEFINE m == s[p] * (2 * Half)
    <3>1. /\ m \in Int /\ (1 - Half) * (2 * Half) \in Int /\ (Half - 1) * (2 * Half) \in Int
          /\ (1 - Half) * (2 * Half) <= m /\ m <= (Half - 1) * (2 * Half)
      BY <2>1, HalfAssumption
    <3>2. SumOf(s, p) = m + o /\ CntOf(s, p) = 1
      BY <1>3, <2>3 DEF SumOf, CntOf, Value
    <3>3. Lo(p) = (1 - Half) * (2 * Half) /\ Hi(p) = (Half - 1) * (2 * Half) + (2 * Half - 1)
      BY <2>3 DEF Lo, Hi
    <3> HIDE DEF m, o
    <3> QED BY <1>1, <3>1, <3>2, <3>3, HalfAssumption
  <2> QED BY <2>2, <2>3
<1> QED BY <1>2, <1>3

(* The sum of a window of six lies between count times the extremes.       *)
LEMMA Count6 ==
  ASSUME NEW w, \A i \in Sixth : w[i] \in Segment, NEW p \in Params
  PROVE  /\ Cnt6(w, p) \in 0 .. 6 /\ Sum6(w, p) \in Int
         /\ Cnt6(w, p) * Lo(p) <= Sum6(w, p) /\ Sum6(w, p) <= Cnt6(w, p) * Hi(p)
<1>1. \A i \in Sixth : /\ SumOf(w[i], p) \in Int /\ CntOf(w[i], p) \in {0, 1}
                       /\ CntOf(w[i], p) * Lo(p) <= SumOf(w[i], p)
                       /\ SumOf(w[i], p) <= CntOf(w[i], p) * Hi(p)
  BY Contributions, Bounds
<1> QED BY <1>1, Extremes DEF Sixth, Cnt6, Sum6

(* The same for the window of ten.                                         *)
LEMMA Count10 ==
  ASSUME NEW w \in [Tenth -> Segment], NEW p \in Params
  PROVE  /\ Cnt10(w, p) \in 0 .. 10 /\ Sum10(w, p) \in Int
         /\ Cnt10(w, p) * Lo(p) <= Sum10(w, p) /\ Sum10(w, p) <= Cnt10(w, p) * Hi(p)
<1>1. \A i \in Tenth : /\ SumOf(w[i], p) \in Int /\ CntOf(w[i], p) \in {0, 1}
                       /\ CntOf(w[i], p) * Lo(p) <= SumOf(w[i], p)
                       /\ SumOf(w[i], p) <= CntOf(w[i], p) * Hi(p)
  BY Contributions, Bounds
<1>2. /\ Cnt6(w, p) \in 0 .. 6 /\ Sum6(w, p) \in Int
      /\ Cnt6(w, p) * Lo(p) <= Sum6(w, p) /\ Sum6(w, p) <= Cnt6(w, p) * Hi(p)
  <2>1. \A i \in Sixth : w[i] \in Segment
    BY DEF Sixth, Tenth
  <2> QED BY <2>1, Count6
<1> DEFINE a == Cnt6(w, p) b == CntOf(w[6], p) c == CntOf(w[7], p)
           d == CntOf(w[8], p) e == CntOf(w[9], p)
<1>4. Lo(p) \in Int /\ Hi(p) \in Int
  BY Extremes
<1>5. Cnt10(w, p) = a + b + c + d + e /\ Cnt10(w, p) \in 0 .. 10
  BY <1>1, <1>2 DEF Tenth, Cnt10
<1>6. Sum10(w, p) = Sum6(w, p) + SumOf(w[6], p) + SumOf(w[7], p) + SumOf(w[8], p) + SumOf(w[9], p)
  BY DEF Sum10
<1> HIDE DEF a, b, c, d, e
<1>7. \A x \in {Lo(p), Hi(p)} : a * x \in Int /\ b * x \in Int /\ c * x \in Int /\ d * x \in Int
                               /\ e * x \in Int
  BY <1>1, <1>2, <1>4 DEF a, b, c, d, e, Tenth
<1>8. /\ a * Lo(p) <= Sum6(w, p) /\ Sum6(w, p) <= a * Hi(p)
      /\ b * Lo(p) <= SumOf(w[6], p) /\ SumOf(w[6], p) <= b * Hi(p)
      /\ c * Lo(p) <= SumOf(w[7], p) /\ SumOf(w[7], p) <= c * Hi(p)
      /\ d * Lo(p) <= SumOf(w[8], p) /\ SumOf(w[8], p) <= d * Hi(p)
      /\ e * Lo(p) <= SumOf(w[9], p) /\ SumOf(w[9], p) <= e * Hi(p)
      /\ Sum6(w, p) \in Int /\ SumOf(w[6], p) \in Int /\ SumOf(w[7], p) \in Int
      /\ SumOf(w[8], p) \in Int /\ SumOf(w[9], p) \in Int
  BY <1>1, <1>2 DEF a, b, c, d, e, Tenth
<1>9. a \in Int /\ b \in Int /\ c \in Int /\ d \in Int /\ e \in Int
  BY <1>1, <1>2 DEF a, b, c, d, e, Tenth
<1>10. \A x \in {Lo(p), Hi(p)} : (a + b + c + d + e) * x = a * x + b * x + c * x + d * x + e * x
  BY <1>4, <1>9
<1> DEFINE n == a + b + c + d + e  lo == Lo(p)  hi == Hi(p)
<1>11. n * lo = a * lo + b * lo + c * lo + d * lo + e * lo
  BY <1>10
<1>12. n * hi = a * hi + b * hi + c * hi + d * hi + e * hi
  BY <1>10
<1>13. n * lo <= Sum10(w, p) /\ Sum10(w, p) <= n * hi /\ Sum10(w, p) \in Int
  <2> HIDE DEF n
  <2>1. n * lo <= Sum10(w, p)
    BY <1>6, <1>7, <1>8, <1>11
  <2>2. Sum10(w, p) <= n * hi
    BY <1>6, <1>7, <1>8, <1>12
  <2>3. Sum10(w, p) \in Int
    BY <1>6, <1>8
  <2> QED BY <2>1, <2>2, <2>3
<1> QED BY <1>5, <1>13

(* C division gives the mean rounded towards zero, which lies between the  *)
(* extremes of the data.                                                   *)
LEMMA QuotientIsMean ==
  ASSUME NEW n \in Int, NEW d \in 1 .. 10, NEW lo \in Int, NEW hi \in Int,
         lo <= 0, 0 <= hi, d * lo <= n, n <= d * hi
  PROVE  Quotient(n, d) \in lo .. hi /\ IsMean(Quotient(n, d), n, d)
<1>1. d = 1 \/ d = 2 \/ d = 3 \/ d = 4 \/ d = 5 \/ d = 6 \/ d = 7 \/ d = 8 \/ d = 9 \/ d = 10
  OBVIOUS
<1> QED BY <1>1 DEF Quotient, IsMean

(* Words.  The high and the low word of a number in range give the number  *)
(* back, and the high word of a mean is never the marker.                  *)
LEMMA ToWordType == ASSUME NEW n \in Int PROVE ToWord(n) \in Word
BY HalfAssumption DEF ToWord, Word

(* The conversion to a short leaves a short alone.                         *)
LEMMA ToWordId == ASSUME NEW n \in Word PROVE ToWord(n) = n
BY HalfAssumption DEF ToWord, Word

(* Division with remainder by a positive number.                           *)
LEMMA Division ==
  ASSUME NEW n \in Int, NEW m \in Nat \ {0}
  PROVE  n \div m \in Int /\ n % m \in 0 .. m - 1 /\ n = (n \div m) * m + (n % m)
OBVIOUS

(* No multiple of m but zero lies strictly between -m and m.               *)
LEMMA NoMultiple ==
  ASSUME NEW k \in Int, NEW m \in Nat \ {0}, k * m < m, k * m > -m
  PROVE  k = 0
<1>1. CASE k >= 1
  <2>1. k * m >= m
    BY <1>1
  <2> QED BY <2>1
<1>2. CASE k <= -1
  <2>1. k * m <= -m
    BY <1>2
  <2> QED BY <2>1
<1> QED BY <1>1, <1>2

(* The remainder of a division is unique.                                  *)
LEMMA Remainder ==
  ASSUME NEW n \in Int, NEW m \in Nat \ {0}, NEW q \in Int, NEW r \in 0 .. m - 1, n = q * m + r
  PROVE  n % m = r
<1> DEFINE k == (n \div m) - q
<1>1. n \div m \in Int /\ n % m \in 0 .. m - 1 /\ n = (n \div m) * m + (n % m)
  BY SMTT(30), Division
<1>2. k \in Int /\ k * m = r - (n % m)
  BY <1>1
<1> HIDE DEF k
<1>3. k * m < m /\ k * m > -m
  BY <1>1, <1>2
<1>4. k = 0
  BY <1>2, <1>3, NoMultiple
<1> QED BY <1>1, <1>2, <1>4

(* The conversion to a short keeps the lower bits.                         *)
LEMMA ToWordMod == ASSUME NEW n \in Int PROVE ToWord(n) % (2 * Half) = n % (2 * Half)
<1> DEFINE m == 2 * Half  h == n + Half  q == h \div m  r == h % m  t == n \div m  u == n % m
<1>1. m \in Nat \ {0} /\ h \in Int /\ Half \in Int
  BY HalfAssumption
<1>2. ToWord(n) = r - Half
  BY DEF ToWord
<1> HIDE DEF m
<1>3. h = n + Half
  OBVIOUS
<1> HIDE DEF h
<1>4. q \in Int /\ r \in Int /\ h = q * m + r
  BY <1>1, Division
<1>5. t \in Int /\ u \in 0 .. m - 1 /\ n = t * m + u
  BY <1>1, Division
<1> HIDE DEF q, r, t, u
<1>6. q * m \in Int /\ t * m \in Int /\ (t - q) * m = t * m - q * m /\ t - q \in Int
  BY <1>1, <1>4, <1>5
<1>7. ToWord(n) = (t - q) * m + u /\ ToWord(n) \in Int
  BY <1>1, <1>2, <1>3, <1>4, <1>5, <1>6
<1>8. ToWord(n) % m = u
  BY Zenon, <1>1, <1>5, <1>6, <1>7, Remainder
<1> QED BY <1>8 DEF m, u

(* The high word of a number between the extremes of a combined parameter  *)
(* is a short and not the marker SZARP_NO_DATA.                            *)
LEMMA HighWord ==
  ASSUME NEW n \in (1 - Half) * (2 * Half) .. (Half - 1) * (2 * Half) + (2 * Half - 1)
  PROVE  n \div (2 * Half) \in 1 - Half .. Half - 1
<1> DEFINE m == 2 * Half  q == n \div m
<1>1. m \in Nat \ {0} /\ Half \in Nat
  BY HalfAssumption
<1>2. (1 - Half) * m \in Int /\ (Half - 1) * m \in Int
  BY <1>1
<1>3. n \in Int /\ (1 - Half) * m <= n /\ n <= (Half - 1) * m + (m - 1)
  BY <1>1, <1>2
<1>4. q \in Int /\ n % m \in 0 .. m - 1 /\ n = q * m + (n % m)
  BY Zenon, <1>1, <1>3, Division
<1> HIDE DEF m, q
<1>5. q <= Half - 1
  <2>1. CASE q >= Half
    <3>1. q * m >= Half * m /\ Half * m = (Half - 1) * m + m
      BY <1>1, <1>4, <2>1
    <3> QED BY <1>1, <1>2, <1>3, <1>4, <3>1
  <2> QED BY <1>1, <1>4, <2>1
<1>6. q >= 1 - Half
  <2>1. CASE q <= -Half
    <3>1. q * m <= (-Half) * m /\ (-Half) * m = (1 - Half) * m - m
      BY <1>1, <1>4, <2>1
    <3> QED BY <1>1, <1>2, <1>3, <1>4, <3>1
  <2> QED BY <1>1, <1>4, <2>1
<1> QED BY <1>1, <1>4, <1>5, <1>6 DEF q, m

-----------------------------------------------------------------------------
(* What calculate_average publishes for a window whose sum and count are   *)
(* within the range of its data: a segment, in which a parameter has no    *)
(* data exactly when its count is zero and is the mean otherwise.          *)
InRange(type, p) ==
  /\ Sums[type][p] \in Int /\ Cnts[type][p] \in 0 .. 10
  /\ Cnts[type][p] * Lo(p) <= Sums[type][p] /\ Sums[type][p] <= Cnts[type][p] * Hi(p)

(* The words of a combined parameter refer to each other, and exactly one  *)
(* of them has the sum.                                                    *)
LEMMA Pairs ==
  ASSUME NEW p \in Params
  PROVE  /\ Info[p].other \in Params /\ Info[p].type \in {"SINGLE", "COMBINED"}
         /\ ~Leads(p) => Leads(Info[p].other)
         /\ Info[p].type # "SINGLE" /\ Leads(p) =>
              /\ Info[Info[p].other].type # "SINGLE" /\ ~Leads(Info[p].other)
              /\ Info[Info[p].other].other = p
BY InfoAssumption DEF Leads

(* The quotient that calculate_average computes lies between the extremes  *)
(* and is the mean.                                                        *)
LEMMA MeanOf ==
  ASSUME NEW type \in 0 .. 2, NEW p \in Params, InRange(type, p), Cnts[type][p] # 0
  PROVE  /\ Quotient(Sums[type][p], Cnts[type][p]) \in Lo(p) .. Hi(p)
         /\ IsMean(Quotient(Sums[type][p], Cnts[type][p]), Sums[type][p], Cnts[type][p])
<1> DEFINE n == Sums[type][p]  d == Cnts[type][p]
<1>1. n \in Int /\ d \in 1 .. 10 /\ d * Lo(p) <= n /\ n <= d * Hi(p)
  BY DEF InRange
<1>2. Lo(p) \in Int /\ Hi(p) \in Int /\ Lo(p) <= 0 /\ 0 <= Hi(p)
  BY Extremes
<1> HIDE DEF n, d
<1>3. Quotient(n, d) \in Lo(p) .. Hi(p) /\ IsMean(Quotient(n, d), n, d)
  BY Zenon, <1>1, <1>2, QuotientIsMean
<1> QED BY <1>3 DEF n, d

(* What calculate_average publishes for a single parameter.                *)
LEMMA SingleMean ==
  ASSUME NEW type \in 0 .. 2, NEW probes \in Segment, NEW p \in Params, InRange(type, p),
         Info[p].type = "SINGLE"
  PROVE  LET a == calculate_average(probes, type)
         IN /\ a[p] \in Word
            /\ a[p] = SZARP_NO_DATA <=> Cnts[type][p] = 0
            /\ Cnts[type][p] # 0 => IsMean(Value(a, p), Sums[type][p], Cnts[type][p])
<1> DEFINE a == calculate_average(probes, type)
           v == Quotient(Sums[type][p], Cnts[type][p])
<1>1. Leads(p)
  BY DEF Leads
<1>2. CASE Cnts[type][p] = 0
  <2>1. a[p] = SZARP_NO_DATA
    BY <1>1, <1>2 DEF calculate_average
  <2> QED BY <1>2, <2>1, HalfAssumption DEF Word, SZARP_NO_DATA
<1>3. CASE Cnts[type][p] # 0
  <2>1. a[p] = v
    BY <1>1, <1>3 DEF calculate_average
  <2>2. v \in Lo(p) .. Hi(p) /\ IsMean(v, Sums[type][p], Cnts[type][p])
    BY <1>3, MeanOf
  <2>3. Lo(p) = 1 - Half /\ Hi(p) = Half - 1
    BY DEF Lo, Hi
  <2>4. v \in Word /\ v # SZARP_NO_DATA
    BY <2>2, <2>3, HalfAssumption DEF Word, SZARP_NO_DATA
  <2>5. Value(a, p) = a[p]
    BY DEF Value
  <2> QED BY <1>3, <2>1, <2>2, <2>4, <2>5
<1> QED BY <1>2, <1>3

(* What calculate_average publishes in the two words of a combined         *)
(* parameter: put together, they are the mean again.                       *)
LEMMA CombinedMean ==
  ASSUME NEW type \in 0 .. 2, NEW probes \in Segment, NEW p \in Params, InRange(type, p),
         Info[p].type # "SINGLE", Leads(p)
  PROVE  LET a == calculate_average(probes, type)
         IN /\ a[p] \in Word /\ a[Info[p].other] \in Word
            /\ a[p] = SZARP_NO_DATA <=> Cnts[type][p] = 0
            /\ Cnts[type][p] # 0 => IsMean(Value(a, p), Sums[type][p], Cnts[type][p])
<1> DEFINE a == calculate_average(probes, type)  o == Info[p].other
           v == Quotient(Sums[type][p], Cnts[type][p])
<1>1. o \in Params /\ Info[o].type # "SINGLE" /\ ~Leads(o) /\ Info[o].other = p
  BY Pairs
<1>2. CASE Cnts[type][p] = 0
  <2>1. a[p] = SZARP_NO_DATA /\ a[o] = probes[o]
    BY <1>1, <1>2 DEF calculate_average
  <2>2. probes[o] \in Word
    BY <1>1 DEF Segment
  <2> QED BY SMTT(30), <1>2, <2>1, <2>2, HalfAssumption DEF Word, SZARP_NO_DATA
<1>3. CASE Cnts[type][p] # 0
  <2>1. a[p] = ToWord(v \div (2 * Half)) /\ a[o] = ToWord(v)
    BY <1>1, <1>3 DEF calculate_average
  <2>2. v \in Lo(p) .. Hi(p) /\ IsMean(v, Sums[type][p], Cnts[type][p])
    BY <1>3, MeanOf
  <2>3. Lo(p) = (1 - Half) * (2 * Half) /\ Hi(p) = (Half - 1) * (2 * Half) + (2 * Half - 1)
    BY DEF Lo, Hi
  <2>4. v \in Int
    BY <2>2, Extremes
  <2>5. v \div (2 * Half) \in 1 - Half .. Half - 1
    BY <2>2, <2>3, HighWord
  <2> HIDE DEF v
  <2>6. a[p] = v \div (2 * Half) /\ a[p] \in Word /\ a[p] # SZARP_NO_DATA
    <3>1. v \div (2 * Half) \in Word
      BY <2>5, HalfAssumption DEF Word
    <3>2. ToWord(v \div (2 * Half)) = v \div (2 * Half)
      BY <3>1, ToWordId
    <3> QED BY <2>1, <2>5, <3>1, <3>2, HalfAssumption DEF SZARP_NO_DATA
  <2>7. a[o] \in Word /\ a[o] % (2 * Half) = v % (2 * Half)
    BY <2>1, <2>4, ToWordType, ToWordMod
  <2>8. Value(a, p) = (v \div (2 * Half)) * (2 * Half) + (v % (2 * Half))
    BY <2>6, <2>7 DEF Value
  <2>9. Value(a, p) = v
    <3>1. 2 * Half \in Nat \ {0}
      BY HalfAssumption
    <3> QED BY Zenon, <2>4, <2>8, <3>1, Division
  <2> QED BY SMTT(30), <1>3, <2>2, <2>6, <2>7, <2>9
<1> QED BY <1>2, <1>3

(* What calculate_average publishes for a segment.                         *)
LEMMA AverageOf ==
  ASSUME NEW type \in 0 .. 2, NEW probes \in Segment,
         \A p \in Params : Leads(p) => InRange(type, p)
  PROVE  LET a == calculate_average(probes, type)
         IN /\ a \in Segment
            /\ \A p \in Params : Leads(p) =>
                 /\ a[p] = SZARP_NO_DATA <=> Cnts[type][p] = 0
                 /\ Cnts[type][p] # 0 => IsMean(Value(a, p), Sums[type][p], Cnts[type][p])
<1> DEFINE a == calculate_average(probes, type)
<1>1. \A p \in Params : Leads(p) =>
        /\ a[p] = SZARP_NO_DATA <=> Cnts[type][p] = 0
        /\ Cnts[type][p] # 0 => IsMean(Value(a, p), Sums[type][p], Cnts[type][p])
  BY SingleMean, CombinedMean
<1>2. \A p \in Params : a[p] \in Word
  <2> SUFFICES ASSUME NEW p \in Params PROVE a[p] \in Word
    OBVIOUS
  <2>1. CASE Leads(p)
    BY <2>1, SingleMean, CombinedMean
  <2>2. CASE ~Leads(p)
    <3> DEFINE o == Info[p].other
    <3>1. o \in Params /\ Leads(o) /\ Info[o].type # "SINGLE" /\ Info[o].other = p
      BY <2>2, InfoAssumption DEF Leads
    <3>2. a[Info[o].other] \in Word
      BY <3>1, CombinedMean
    <3> QED BY <3>1, <3>2
  <2> QED BY <2>1, <2>2
<1>3. a = [p \in Params |-> a[p]]
  BY DEF calculate_average
<1>4. a \in Segment
  BY <1>2, <1>3 DEF Segment
<1> QED BY <1>1, <1>4

-----------------------------------------------------------------------------
(* The inductive invariant.  Samples says which ticks the slots of Probes  *)
(* hold: the last ones, as many as MainLoop has not skipped.               *)
Samples ==
  \A k \in 0 .. 5 : (pc = "probe" => k # 0) /\ k <= steady => stamp[(now - k) % 6] = now - k

(* The inductive invariant of the averages.                                *)
AvgInv == TypeOK /\ SumsMatch /\ NoDataOnlyIfEmpty /\ Samples

(* In AvgInv every sum is in the range of its window's data. *)
LEMMA AllInRange ==
  ASSUME TypeOK, SumsMatch
  PROVE  \A type \in 0 .. 2, p \in Params : Leads(p) => InRange(type, p)
<1> SUFFICES ASSUME NEW p \in Params, Leads(p)
             PROVE  InRange(0, p) /\ InRange(1, p) /\ InRange(2, p)
  OBVIOUS
<1>1. Probes \in [Sixth -> Segment] /\ Minutes \in [Tenth -> Segment] /\ Min10s \in [Sixth -> Segment]
  BY DEF TypeOK
<1>2. /\ Sums[0][p] = Sum6(Probes, p) /\ Cnts[0][p] = Cnt6(Probes, p)
      /\ Sums[1][p] = Sum10(Minutes, p) /\ Cnts[1][p] = Cnt10(Minutes, p)
      /\ Sums[2][p] = Sum6(Min10s, p) /\ Cnts[2][p] = Cnt6(Min10s, p)
  BY DEF SumsMatch
<1>3. InRange(0, p)
  <2>1. \A i \in Sixth : Probes[i] \in Segment
    BY <1>1
  <2> QED BY <1>2, <2>1, Count6 DEF InRange
<1>4. InRange(1, p)
  BY <1>1, <1>2, Count10 DEF InRange
<1>5. InRange(2, p)
  <2>1. \A i \in Sixth : Min10s[i] \in Segment
    BY <1>1
  <2> QED BY <1>2, <2>1, Count6 DEF InRange
<1> QED BY <1>3, <1>4, <1>5

(* What update_value does to the sums and counts of the three windows. *)
LEMMA UpdateType ==
  ASSUME NEW type \in 0 .. 2, NEW old \in Segment, NEW new \in Segment,
         Sums \in [0 .. 2 -> [Params -> Int]], Cnts \in [0 .. 2 -> [Params -> 0 .. 10]],
         update_value(type, old, new)
  PROVE  /\ Sums' \in [0 .. 2 -> [Params -> Int]]
         /\ \A t \in 0 .. 2 \ {type} : Sums'[t] = Sums[t] /\ Cnts'[t] = Cnts[t]
         /\ \A p \in Params : Leads(p) =>
              /\ Sums'[type][p] = Sums[type][p] - SumOf(old, p) + SumOf(new, p)
              /\ Cnts'[type][p] = Cnts[type][p] - CntOf(old, p) + CntOf(new, p)
         /\ (\A p \in Params : Leads(p) => Cnts'[type][p] \in 0 .. 10)
              => Cnts' \in [0 .. 2 -> [Params -> 0 .. 10]]
<1> DEFINE S == [p \in Params |-> IF Leads(p) THEN Sums[type][p] - SumOf(old, p) + SumOf(new, p)
                                  ELSE Sums[type][p]]
           C == [p \in Params |-> IF Leads(p) THEN Cnts[type][p] - CntOf(old, p) + CntOf(new, p)
                                  ELSE Cnts[type][p]]
<1>1. S \in [Params -> Int]
  BY Contributions
<1>2. /\ \A p \in Params : Leads(p) => /\ S[p] = Sums[type][p] - SumOf(old, p) + SumOf(new, p)
                                       /\ C[p] = Cnts[type][p] - CntOf(old, p) + CntOf(new, p)
      /\ \A p \in Params : ~Leads(p) => C[p] = Cnts[type][p]
      /\ C = [p \in Params |-> C[p]]
  OBVIOUS
<1>3. Sums' = [Sums EXCEPT ![type] = S] /\ Cnts' = [Cnts EXCEPT ![type] = C]
  BY DEF update_value, update_sums, update_cnts
<1> HIDE DEF S, C
<1>4. Sums' \in [0 .. 2 -> [Params -> Int]]
  BY <1>1, <1>3
<1>5. Sums'[type] = S /\ Cnts'[type] = C /\ \A t \in 0 .. 2 \ {type} : Sums'[t] = Sums[t] /\ Cnts'[t] = Cnts[t]
  BY <1>3
<1>6. ASSUME \A p \in Params : Leads(p) => Cnts'[type][p] \in 0 .. 10
      PROVE  Cnts' \in [0 .. 2 -> [Params -> 0 .. 10]]
  <2>1. \A p \in Params : C[p] \in 0 .. 10
    BY <1>2, <1>5, <1>6
  <2>2. C \in [Params -> 0 .. 10]
    BY <1>2, <2>1
  <2> QED BY <1>3, <2>2
<1> QED BY <1>2, <1>4, <1>5, <1>6

(* The slots chosen by the clock exist.                                    *)
LEMMA ClockRanges ==
  ASSUME NEW n \in Nat
  PROVE  /\ n % 6 \in Sixth
         /\ (n \div 6) % 60 \in 0 .. 59
         /\ ((n \div 6) % 60) % 10 \in Tenth
         /\ ((n \div 6) % 60) \div 10 \in Sixth
<1> DEFINE k == (n \div 6) % 60
<1>1. n % 6 \in Sixth
  BY DEF Sixth
<1>2. k \in 0 .. 59
  OBVIOUS
<1> HIDE DEF k
<1>3. k % 10 \in Tenth /\ k \div 10 \in Sixth
  BY <1>2 DEF Sixth, Tenth
<1> QED BY <1>1, <1>2, <1>3 DEF k

-----------------------------------------------------------------------------
(* The count of a window whose slot i is replaced stays within ten. *)
LEMMA Window6 ==
  ASSUME NEW w \in [Sixth -> Segment], NEW i \in Sixth, NEW new \in Segment, NEW p \in Params
  PROVE  Cnt6([w EXCEPT ![i] = new], p) \in 0 .. 10
<1> DEFINE u == [w EXCEPT ![i] = new]
<1>1. u \in [Sixth -> Segment] /\ \A j \in Sixth : u[j] \in Segment
  OBVIOUS
<1> HIDE DEF u
<1>2. Cnt6(u, p) \in 0 .. 6
  BY <1>1, Count6
<1> QED BY <1>2 DEF u

(* The same for the window of ten.                                         *)
LEMMA Window10 ==
  ASSUME NEW w \in [Tenth -> Segment], NEW i \in Tenth, NEW new \in Segment, NEW p \in Params
  PROVE  Cnt10([w EXCEPT ![i] = new], p) \in 0 .. 10
<1> DEFINE u == [w EXCEPT ![i] = new]
<1>1. u \in [Tenth -> Segment] /\ \A j \in Tenth : u[j] \in Segment
  OBVIOUS
<1> HIDE DEF u
<1>2. Cnt10(u, p) \in 0 .. 10
  BY <1>1, Count10
<1> QED BY <1>2 DEF u

-----------------------------------------------------------------------------
(* Putting a new Probe into its slot keeps types and sums.                 *)
LEMMA ProbeStep ==
  ASSUME AvgInv, UpdateProbe
  PROVE  TypeOK' /\ SumsMatch'
<1>1. Probe' \in Segment
  BY DataAssumption DEF UpdateProbe, Segment
<1>2. now \in Nat /\ tm_sec10 \in Sixth
  BY ClockRanges DEF AvgInv, TypeOK, tm_sec10
<1>3. Probes \in [Sixth -> Segment] /\ Probes[tm_sec10] \in Segment
  BY <1>2 DEF AvgInv, TypeOK
<1>4. /\ Sums' \in [0 .. 2 -> [Params -> Int]]
      /\ \A t \in 0 .. 2 \ {0} : Sums'[t] = Sums[t] /\ Cnts'[t] = Cnts[t]
      /\ \A p \in Params : Leads(p) =>
           /\ Sums'[0][p] = Sums[0][p] - SumOf(Probes[tm_sec10], p) + SumOf(Probe', p)
           /\ Cnts'[0][p] = Cnts[0][p] - CntOf(Probes[tm_sec10], p) + CntOf(Probe', p)
      /\ (\A p \in Params : Leads(p) => Cnts'[0][p] \in 0 .. 10)
           => Cnts' \in [0 .. 2 -> [Params -> 0 .. 10]]
  <2>1. Sums \in [0 .. 2 -> [Params -> Int]] /\ Cnts \in [0 .. 2 -> [Params -> 0 .. 10]]
    BY DEF AvgInv, TypeOK
  <2>2. update_value(0, Probes[tm_sec10], Probe')
    BY DEF UpdateProbe
  <2> QED BY <1>1, <1>3, <2>1, <2>2, UpdateType
<1>7. Probes' = [Probes EXCEPT ![tm_sec10] = Probe'] /\ Minutes' = Minutes /\ Min10s' = Min10s
  BY DEF UpdateProbe
<1>5. \A p \in Params : Leads(p) =>
        /\ Sums'[0][p] = Sum6(Probes', p)
        /\ Cnts'[0][p] = Cnt6(Probes', p)
        /\ Cnts'[0][p] \in 0 .. 10
  <2> SUFFICES ASSUME NEW p \in Params, Leads(p)
               PROVE  /\ Sums'[0][p] = Sum6(Probes', p) /\ Cnts'[0][p] = Cnt6(Probes', p)
                      /\ Cnts'[0][p] \in 0 .. 10
    OBVIOUS
  <2>1. Sums[0][p] = Sum6(Probes, p) /\ Cnts[0][p] = Cnt6(Probes, p)
    BY DEF AvgInv, SumsMatch
  <2>2. /\ Sums'[0][p] = Sum6(Probes, p) - SumOf(Probes[tm_sec10], p) + SumOf(Probe', p)
        /\ Cnts'[0][p] = Cnt6(Probes, p) - CntOf(Probes[tm_sec10], p) + CntOf(Probe', p)
    BY <1>4, <2>1
  <2>3. /\ Sum6(Probes', p) = Sum6(Probes, p) - SumOf(Probes[tm_sec10], p) + SumOf(Probe', p)
        /\ Cnt6(Probes', p) = Cnt6(Probes, p) - CntOf(Probes[tm_sec10], p) + CntOf(Probe', p)
    BY Zenon, <1>1, <1>2, <1>3, <1>7, Replace6
  <2>4. Cnt6(Probes', p) \in 0 .. 10
    BY Zenon, <1>1, <1>2, <1>3, <1>7, Window6
  <2> QED BY <2>2, <2>3, <2>4
<1>6. Cnts' \in [0 .. 2 -> [Params -> 0 .. 10]]
  BY <1>4, <1>5
<1>8. SumsMatch'
  <2> SUFFICES ASSUME NEW p \in Params, Leads(p)
                 PROVE  /\ Sums'[0][p] = Sum6(Probes', p) /\ Cnts'[0][p] = Cnt6(Probes', p)
                        /\ Sums'[1][p] = Sum10(Minutes', p) /\ Cnts'[1][p] = Cnt10(Minutes', p)
                        /\ Sums'[2][p] = Sum6(Min10s', p) /\ Cnts'[2][p] = Cnt6(Min10s', p)
    BY DEF SumsMatch
  <2>1. /\ Sums[0][p] = Sum6(Probes, p) /\ Cnts[0][p] = Cnt6(Probes, p)
        /\ Sums[1][p] = Sum10(Minutes, p) /\ Cnts[1][p] = Cnt10(Minutes, p)
        /\ Sums[2][p] = Sum6(Min10s, p) /\ Cnts[2][p] = Cnt6(Min10s, p)
    BY DEF AvgInv, SumsMatch
  <2>2. Sums'[0][p] = Sum6(Probes', p) /\ Cnts'[0][p] = Cnt6(Probes', p)
    BY <1>5
  <2>3. Sums'[1][p] = Sum10(Minutes', p) /\ Cnts'[1][p] = Cnt10(Minutes', p)
    BY <1>4, <1>7, <2>1
  <2>4. Sums'[2][p] = Sum6(Min10s', p) /\ Cnts'[2][p] = Cnt6(Min10s', p)
    BY <1>4, <1>7, <2>1
  <2> QED BY <2>2, <2>3, <2>4
<1>9. Probes' \in [Sixth -> Segment] /\ stamp' \in [Sixth -> Int]
  BY <1>1, <1>2, <1>3, <1>7 DEF AvgInv, TypeOK, UpdateProbe
<1>10. TypeOK'
  BY <1>1, <1>4, <1>6, <1>9 DEF AvgInv, TypeOK, UpdateProbe, clock
<1> QED BY <1>8, <1>10

(* Publishing Minute and putting it into its slot keeps types and sums.    *)
LEMMA MinuteStep ==
  ASSUME AvgInv, UpdateMinute
  PROVE  TypeOK' /\ SumsMatch'
<1>1. Minute' \in Segment
  <2>1. \A p \in Params : Leads(p) => InRange(0, p)
    BY AllInRange DEF AvgInv
  <2>2. Minute \in Segment /\ Minute' = calculate_average(Minute, 0)
    BY DEF AvgInv, TypeOK, UpdateMinute
  <2> QED BY <2>1, <2>2, AverageOf
<1> DEFINE i == tm_min % 10
<1>2. i \in Tenth
  BY ClockRanges DEF AvgInv, TypeOK, tm_min
<1>3. Minutes' = [Minutes EXCEPT ![i] = Minute'] /\ Probes' = Probes /\ Min10s' = Min10s
  BY DEF UpdateMinute
<1>4. update_value(1, Minutes[i], Minute')
  BY DEF UpdateMinute
<1> HIDE DEF i
<1>5. Minutes \in [Tenth -> Segment] /\ Minutes[i] \in Segment
  BY <1>2 DEF AvgInv, TypeOK
<1>6. /\ Sums' \in [0 .. 2 -> [Params -> Int]]
      /\ \A t \in 0 .. 2 \ {1} : Sums'[t] = Sums[t] /\ Cnts'[t] = Cnts[t]
      /\ \A p \in Params : Leads(p) =>
           /\ Sums'[1][p] = Sums[1][p] - SumOf(Minutes[i], p) + SumOf(Minute', p)
           /\ Cnts'[1][p] = Cnts[1][p] - CntOf(Minutes[i], p) + CntOf(Minute', p)
      /\ (\A p \in Params : Leads(p) => Cnts'[1][p] \in 0 .. 10)
           => Cnts' \in [0 .. 2 -> [Params -> 0 .. 10]]
  <2>1. Sums \in [0 .. 2 -> [Params -> Int]] /\ Cnts \in [0 .. 2 -> [Params -> 0 .. 10]]
    BY DEF AvgInv, TypeOK
  <2> QED BY <1>1, <1>4, <1>5, <2>1, UpdateType
<1>7. \A p \in Params : Leads(p) =>
        /\ Sums'[1][p] = Sum10(Minutes', p)
        /\ Cnts'[1][p] = Cnt10(Minutes', p)
        /\ Cnts'[1][p] \in 0 .. 10
  <2> SUFFICES ASSUME NEW p \in Params, Leads(p)
               PROVE  /\ Sums'[1][p] = Sum10(Minutes', p) /\ Cnts'[1][p] = Cnt10(Minutes', p)
                      /\ Cnts'[1][p] \in 0 .. 10
    OBVIOUS
  <2>1. Sums[1][p] = Sum10(Minutes, p) /\ Cnts[1][p] = Cnt10(Minutes, p)
    BY DEF AvgInv, SumsMatch
  <2>2. /\ Sums'[1][p] = Sum10(Minutes, p) - SumOf(Minutes[i], p) + SumOf(Minute', p)
        /\ Cnts'[1][p] = Cnt10(Minutes, p) - CntOf(Minutes[i], p) + CntOf(Minute', p)
    BY <1>6, <2>1
  <2>3. /\ Sum10(Minutes', p) = Sum10(Minutes, p) - SumOf(Minutes[i], p) + SumOf(Minute', p)
        /\ Cnt10(Minutes', p) = Cnt10(Minutes, p) - CntOf(Minutes[i], p) + CntOf(Minute', p)
    BY Zenon, <1>1, <1>2, <1>5, <1>3, Replace10
  <2>4. Cnt10(Minutes', p) \in 0 .. 10
    BY Zenon, <1>1, <1>2, <1>5, <1>3, Window10
  <2> QED BY <2>2, <2>3, <2>4
<1>8. SumsMatch'
  <2> SUFFICES ASSUME NEW p \in Params, Leads(p)
                 PROVE  /\ Sums'[0][p] = Sum6(Probes', p) /\ Cnts'[0][p] = Cnt6(Probes', p)
                        /\ Sums'[1][p] = Sum10(Minutes', p) /\ Cnts'[1][p] = Cnt10(Minutes', p)
                        /\ Sums'[2][p] = Sum6(Min10s', p) /\ Cnts'[2][p] = Cnt6(Min10s', p)
    BY DEF SumsMatch
  <2>1. /\ Sums[0][p] = Sum6(Probes, p) /\ Cnts[0][p] = Cnt6(Probes, p)
        /\ Sums[1][p] = Sum10(Minutes, p) /\ Cnts[1][p] = Cnt10(Minutes, p)
        /\ Sums[2][p] = Sum6(Min10s, p) /\ Cnts[2][p] = Cnt6(Min10s, p)
    BY DEF AvgInv, SumsMatch
  <2>2. Sums'[0][p] = Sum6(Probes', p) /\ Cnts'[0][p] = Cnt6(Probes', p)
    BY <1>3, <1>6, <2>1
  <2>3. Sums'[1][p] = Sum10(Minutes', p) /\ Cnts'[1][p] = Cnt10(Minutes', p)
    BY <1>7
  <2>4. Sums'[2][p] = Sum6(Min10s', p) /\ Cnts'[2][p] = Cnt6(Min10s', p)
    BY <1>3, <1>6, <2>1
  <2> QED BY <2>2, <2>3, <2>4
<1>9. Minutes' \in [Tenth -> Segment] /\ Cnts' \in [0 .. 2 -> [Params -> 0 .. 10]]
  BY <1>1, <1>2, <1>3, <1>5, <1>6, <1>7
<1>10. TypeOK'
  BY <1>1, <1>6, <1>9 DEF AvgInv, TypeOK, UpdateMinute, clock
<1> QED BY <1>8, <1>10

(* Publishing Min10 and putting it into its slot, or skipping both within  *)
(* the same minute, keeps types and sums.                                  *)
LEMMA Min10Step ==
  ASSUME AvgInv, UpdateMin10
  PROVE  TypeOK' /\ SumsMatch'
<1> DEFINE i == tm_min \div 10
<1>1. i \in Sixth /\ tm_min \in 0 .. 59
  BY ClockRanges DEF AvgInv, TypeOK, tm_min
<1>2. CASE last_min # tm_min \/ first_time = 1
  <2>1. Min10' \in Segment
    <3>1. \A p \in Params : Leads(p) => InRange(1, p)
      BY AllInRange DEF AvgInv
    <3>2. Min10 \in Segment /\ Min10' = calculate_average(Min10, 1)
      BY <1>2 DEF AvgInv, TypeOK, UpdateMin10
    <3> QED BY <3>1, <3>2, AverageOf
  <2>2. Min10s' = [Min10s EXCEPT ![i] = Min10'] /\ Probes' = Probes /\ Minutes' = Minutes
    BY <1>2 DEF UpdateMin10
  <2>3. update_value(2, Min10s[i], Min10')
    BY <1>2 DEF UpdateMin10
  <2> HIDE DEF i
  <2>4. Min10s \in [Sixth -> Segment] /\ Min10s[i] \in Segment
    BY <1>1 DEF AvgInv, TypeOK
  <2>5. /\ Sums' \in [0 .. 2 -> [Params -> Int]]
        /\ \A t \in 0 .. 2 \ {2} : Sums'[t] = Sums[t] /\ Cnts'[t] = Cnts[t]
        /\ \A p \in Params : Leads(p) =>
             /\ Sums'[2][p] = Sums[2][p] - SumOf(Min10s[i], p) + SumOf(Min10', p)
             /\ Cnts'[2][p] = Cnts[2][p] - CntOf(Min10s[i], p) + CntOf(Min10', p)
        /\ (\A p \in Params : Leads(p) => Cnts'[2][p] \in 0 .. 10)
             => Cnts' \in [0 .. 2 -> [Params -> 0 .. 10]]
    <3>1. Sums \in [0 .. 2 -> [Params -> Int]] /\ Cnts \in [0 .. 2 -> [Params -> 0 .. 10]]
      BY DEF AvgInv, TypeOK
    <3> QED BY <2>1, <2>3, <2>4, <3>1, UpdateType
  <2>6. \A p \in Params : Leads(p) =>
          /\ Sums'[2][p] = Sum6(Min10s', p)
          /\ Cnts'[2][p] = Cnt6(Min10s', p)
          /\ Cnts'[2][p] \in 0 .. 10
    <3> SUFFICES ASSUME NEW p \in Params, Leads(p)
                 PROVE  /\ Sums'[2][p] = Sum6(Min10s', p) /\ Cnts'[2][p] = Cnt6(Min10s', p)
                        /\ Cnts'[2][p] \in 0 .. 10
      OBVIOUS
    <3>1. Sums[2][p] = Sum6(Min10s, p) /\ Cnts[2][p] = Cnt6(Min10s, p)
      BY DEF AvgInv, SumsMatch
    <3>2. /\ Sums'[2][p] = Sum6(Min10s, p) - SumOf(Min10s[i], p) + SumOf(Min10', p)
          /\ Cnts'[2][p] = Cnt6(Min10s, p) - CntOf(Min10s[i], p) + CntOf(Min10', p)
      BY <2>5, <3>1
    <3>3. /\ Sum6(Min10s', p) = Sum6(Min10s, p) - SumOf(Min10s[i], p) + SumOf(Min10', p)
          /\ Cnt6(Min10s', p) = Cnt6(Min10s, p) - CntOf(Min10s[i], p) + CntOf(Min10', p)
      BY Zenon, <1>1, <2>1, <2>4, <2>2, Replace6
    <3>4. Cnt6(Min10s', p) \in 0 .. 10
      BY Zenon, <1>1, <2>1, <2>4, <2>2, Window6
    <3> QED BY <3>2, <3>3, <3>4
  <2>7. SumsMatch'
    <3> SUFFICES ASSUME NEW p \in Params, Leads(p)
                   PROVE  /\ Sums'[0][p] = Sum6(Probes', p) /\ Cnts'[0][p] = Cnt6(Probes', p)
                          /\ Sums'[1][p] = Sum10(Minutes', p) /\ Cnts'[1][p] = Cnt10(Minutes', p)
                          /\ Sums'[2][p] = Sum6(Min10s', p) /\ Cnts'[2][p] = Cnt6(Min10s', p)
      BY DEF SumsMatch
    <3>1. /\ Sums[0][p] = Sum6(Probes, p) /\ Cnts[0][p] = Cnt6(Probes, p)
          /\ Sums[1][p] = Sum10(Minutes, p) /\ Cnts[1][p] = Cnt10(Minutes, p)
          /\ Sums[2][p] = Sum6(Min10s, p) /\ Cnts[2][p] = Cnt6(Min10s, p)
      BY DEF AvgInv, SumsMatch
    <3>2. Sums'[0][p] = Sum6(Probes', p) /\ Cnts'[0][p] = Cnt6(Probes', p)
      BY <2>2, <2>5, <3>1
    <3>3. Sums'[1][p] = Sum10(Minutes', p) /\ Cnts'[1][p] = Cnt10(Minutes', p)
      BY <2>2, <2>5, <3>1
    <3>4. Sums'[2][p] = Sum6(Min10s', p) /\ Cnts'[2][p] = Cnt6(Min10s', p)
      BY <2>6
    <3> QED BY <3>2, <3>3, <3>4
  <2>8. Min10s' \in [Sixth -> Segment] /\ Cnts' \in [0 .. 2 -> [Params -> 0 .. 10]]
    BY <1>1, <2>1, <2>2, <2>4, <2>5, <2>6
  <2>9. TypeOK'
    BY SMTT(30), <1>1, <2>1, <2>5, <2>8 DEF AvgInv, TypeOK, UpdateMin10
  <2> QED BY <2>7, <2>9
<1>3. CASE ~(last_min # tm_min \/ first_time = 1)
  <2>1. SumsMatch'
    BY <1>3 DEF AvgInv, SumsMatch, UpdateMin10
  <2>2. TypeOK'
    BY <1>1, <1>3 DEF AvgInv, TypeOK, UpdateMin10
  <2> QED BY <2>1, <2>2
<1> QED BY <1>2, <1>3

(* Publishing Hour keeps types and sums.                                   *)
LEMMA HourStep ==
  ASSUME AvgInv, UpdateHour
  PROVE  TypeOK' /\ SumsMatch'
<1>1. Hour' \in Segment
  <2>1. \A p \in Params : Leads(p) => InRange(2, p)
    BY AllInRange DEF AvgInv
  <2>2. Hour \in Segment /\ Hour' \in {Hour, calculate_average(Hour, 2)}
    BY DEF AvgInv, TypeOK, UpdateHour
  <2>3. calculate_average(Hour, 2) \in Segment
    BY <2>1, <2>2, AverageOf
  <2> QED BY <2>2, <2>3
<1>2. tm_min \div 10 \in 0 .. 5
  BY ClockRanges DEF AvgInv, TypeOK, tm_min, Sixth
<1>3. TypeOK'
  BY <1>1, <1>2 DEF AvgInv, TypeOK, UpdateHour, windows
<1>4. SumsMatch'
  BY DEF AvgInv, SumsMatch, UpdateHour, windows
<1> QED BY <1>3, <1>4

(* Sleeping keeps types and sums.                                          *)
LEMMA SleepStep ==
  ASSUME AvgInv, Sleep
  PROVE  TypeOK' /\ SumsMatch'
<1>1. PICK d \in Steps : now' = now + d /\ steady' = IF d > 1 THEN 0 ELSE steady + d
  BY DEF Sleep
<1>2. d \in Nat /\ now \in Nat /\ steady \in Nat
  BY ClockAssumption DEF AvgInv, TypeOK
<1>3. now' \in Nat /\ steady' \in Nat
  BY <1>1, <1>2
<1>4. cycles' \in 0 .. MaxCycles
  BY ClockAssumption DEF AvgInv, TypeOK, Sleep
<1>5. TypeOK'
  BY <1>3, <1>4 DEF AvgInv, TypeOK, Sleep, windows
<1>6. SumsMatch'
  BY DEF AvgInv, SumsMatch, Sleep, windows
<1> QED BY <1>5, <1>6

(* A step that changes nothing keeps types and sums.                       *)
LEMMA StutterStep ==
  ASSUME AvgInv, UNCHANGED vars
  PROVE  TypeOK' /\ SumsMatch'
<1>1. TypeOK'
  BY DEF AvgInv, TypeOK, vars, windows, clock
<1>2. SumsMatch'
  BY DEF AvgInv, SumsMatch, vars, windows
<1> QED BY <1>1, <1>2

-----------------------------------------------------------------------------
(* A count is zero when no slot of the window holds data. *)
LEMMA EmptyWindow ==
  ASSUME NEW w, \A i \in Sixth : w[i] \in Segment, NEW p \in Params
  PROVE  Cnt6(w, p) = 0 <=> \A i \in Sixth : w[i][p] = SZARP_NO_DATA
<1>1. \A i \in Sixth : CntOf(w[i], p) = IF w[i][p] = SZARP_NO_DATA THEN 0 ELSE 1
  BY DEF CntOf
<1> QED BY <1>1 DEF Cnt6, Sixth

(* Every step keeps NoDataOnlyIfEmpty.                                     *)
LEMMA NoDataStep ==
  ASSUME AvgInv, [Next]_vars
  PROVE  NoDataOnlyIfEmpty'
<1>1. CASE UpdateMinute
  <2> SUFFICES ASSUME NEW p \in Params, Leads(p)
               PROVE  Minute'[p] = SZARP_NO_DATA <=> \A i \in Sixth : Probes'[i][p] = SZARP_NO_DATA
    BY DEF NoDataOnlyIfEmpty
  <2>1. \A q \in Params : Leads(q) => InRange(0, q)
    BY AllInRange DEF AvgInv
  <2>2. Minute \in Segment /\ Minute' = calculate_average(Minute, 0) /\ Probes' = Probes
    BY <1>1 DEF AvgInv, TypeOK, UpdateMinute
  <2>3. Minute'[p] = SZARP_NO_DATA <=> Cnts[0][p] = 0
    BY <2>1, <2>2, AverageOf
  <2>4. Cnts[0][p] = Cnt6(Probes, p) /\ \A i \in Sixth : Probes[i] \in Segment
    BY DEF AvgInv, SumsMatch, TypeOK
  <2>5. Cnts[0][p] = 0 <=> \A i \in Sixth : Probes[i][p] = SZARP_NO_DATA
    BY <2>4, EmptyWindow
  <2> QED BY <2>2, <2>3, <2>5
<1>2. CASE UpdateProbe
  BY <1>2 DEF UpdateProbe, NoDataOnlyIfEmpty
<1>3. CASE Sleep
  BY <1>3 DEF Sleep, NoDataOnlyIfEmpty
<1>4. CASE UpdateMin10
  <2>1. pc = "min10" /\ Minute' = Minute /\ Probes' = Probes
    BY <1>4 DEF UpdateMin10
  <2> QED BY <2>1 DEF AvgInv, NoDataOnlyIfEmpty
<1>5. CASE UpdateHour
  <2>1. pc = "hour" /\ Minute' = Minute /\ Probes' = Probes
    BY <1>5 DEF UpdateHour, windows
  <2> QED BY <2>1 DEF AvgInv, NoDataOnlyIfEmpty
<1>6. CASE UNCHANGED vars
  <2>1. pc' = pc /\ Minute' = Minute /\ Probes' = Probes
    BY <1>6 DEF vars, windows
  <2> QED BY <2>1 DEF AvgInv, NoDataOnlyIfEmpty
<1> QED BY <1>1, <1>2, <1>3, <1>4, <1>5, <1>6 DEF Next, Done

(* The five ticks before a tick have other slots than the tick.            *)
LEMMA OtherSlot ==
  ASSUME NEW n \in Nat, NEW k \in 1 .. 5
  PROVE  (n - k) % 6 # n % 6
OBVIOUS

(* Every step keeps Samples.                                               *)
LEMMA SamplesStep ==
  ASSUME AvgInv, [Next]_vars
  PROVE  Samples'
<1>1. now \in Nat /\ steady \in Nat /\ stamp \in [Sixth -> Int]
  BY DEF AvgInv, TypeOK
<1>2. CASE UpdateProbe
  <2> SUFFICES ASSUME NEW k \in 0 .. 5, k <= steady
               PROVE  stamp'[(now - k) % 6] = now - k
    BY <1>2 DEF Samples, UpdateProbe, clock
  <2>1. stamp' = [stamp EXCEPT ![now % 6] = now] /\ pc = "probe"
    BY <1>2 DEF UpdateProbe, tm_sec10
  <2>2. CASE k = 0
    BY <1>1, <2>1, <2>2 DEF Sixth
  <2>3. CASE k # 0
    <3>1. (now - k) % 6 # now % 6 /\ (now - k) % 6 \in Sixth
      BY <1>1, <2>3, OtherSlot DEF Sixth
    <3>2. stamp[(now - k) % 6] = now - k
      BY <2>1, <2>3 DEF AvgInv, Samples
    <3> QED BY <1>1, <2>1, <3>1, <3>2
  <2> QED BY <2>2, <2>3
<1>3. CASE Sleep
  <2>1. PICK d \in Steps : now' = now + d /\ steady' = IF d > 1 THEN 0 ELSE steady + d
    BY <1>3 DEF Sleep
  <2>2. d \in Nat /\ pc = "sleep" /\ pc' = "probe" /\ stamp' = stamp
    BY <1>3, ClockAssumption DEF Sleep
  <2> SUFFICES ASSUME NEW k \in 1 .. 5, k <= steady'
               PROVE  stamp[(now' - k) % 6] = now' - k
    BY <2>2 DEF Samples
  <2>3. d \in {0, 1}
    BY <2>1, <2>2
  <2>4. k - d \in 0 .. 5 /\ k - d <= steady /\ now' - k = now - (k - d)
    BY <1>1, <2>1, <2>2, <2>3
  <2> QED BY <2>2, <2>4 DEF AvgInv, Samples
<1>4. ASSUME now' = now, steady' = steady, stamp' = stamp, pc = "probe" <=> pc' = "probe"
      PROVE  Samples'
  BY <1>4 DEF AvgInv, Samples
<1>5. CASE UpdateMinute
  BY <1>4, <1>5 DEF UpdateMinute, clock
<1>6. CASE UpdateMin10
  BY <1>4, <1>6 DEF UpdateMin10
<1>7. CASE UpdateHour
  BY <1>4, <1>7 DEF UpdateHour
<1>8. CASE UNCHANGED vars
  BY <1>4, <1>8 DEF vars, clock
<1> QED BY <1>2, <1>3, <1>5, <1>6, <1>7, <1>8 DEF Next, Done

(* The invariant holds when main enters MainLoop.                          *)
LEMMA InitAvgInv == Init => AvgInv
<1> SUFFICES ASSUME Init PROVE AvgInv
  OBVIOUS
<1> DEFINE none == [p \in Params |-> SZARP_NO_DATA]
<1>1. none \in Segment /\ [p \in Params |-> 0] \in Segment
  BY HalfAssumption DEF Segment, Word, SZARP_NO_DATA
<1>2. TypeOK
  BY <1>1, ClockAssumption DEF Init, TypeOK, Sixth, Tenth
<1>3. \A p \in Params : SumOf(none, p) = 0 /\ CntOf(none, p) = 0
  BY DEF SumOf, CntOf
<1>4. SumsMatch
  BY <1>3 DEF Init, SumsMatch, Sum6, Cnt6, Sum10, Cnt10, Sixth, Tenth
<1>5. NoDataOnlyIfEmpty
  BY DEF Init, NoDataOnlyIfEmpty
<1>6. Samples
  BY DEF Init, Samples
<1> QED BY <1>2, <1>4, <1>5, <1>6 DEF AvgInv

(* Every step of MainLoop keeps the invariant.                             *)
LEMMA NextAvgInv == AvgInv /\ [Next]_vars => AvgInv'
<1> SUFFICES ASSUME AvgInv, [Next]_vars PROVE AvgInv'
  OBVIOUS
<1>1. TypeOK' /\ SumsMatch'
  BY ProbeStep, MinuteStep, Min10Step, HourStep, SleepStep, StutterStep DEF Next, Done
<1>2. NoDataOnlyIfEmpty' /\ Samples'
  BY NoDataStep, SamplesStep
<1> QED BY <1>1, <1>2 DEF AvgInv

(* The invariant holds in every behaviour of MainLoop, for every word      *)
(* width, configuration of parameters and sequence of data and ticks.      *)
THEOREM AveragesInvariant == Spec => []AvgInv
BY InitAvgInv, NextAvgInv, PTL DEF Spec

(* In every behaviour of MainLoop the segments hold words and the counts   *)
(* stay within the window: no mean leaves the range of a short.            *)
THEOREM TypeCorrect == Spec => []TypeOK
<1>1. AvgInv => TypeOK
  BY DEF AvgInv
<1> QED BY <1>1, AveragesInvariant, PTL

(* The sums and counts that update_value keeps never drift from the        *)
(* windows, for any number of cycles, any data and any skipped ticks.      *)
THEOREM SumsNeverDrift == Spec => []SumsMatch
<1>1. AvgInv => SumsMatch
  BY DEF AvgInv
<1> QED BY <1>1, AveragesInvariant, PTL

(* calculate_average publishes SZARP_NO_DATA for the minute exactly when   *)
(* no sample of the window is data.                                        *)
THEOREM NoDataMeansNoData == Spec => []NoDataOnlyIfEmpty
<1>1. AvgInv => NoDataOnlyIfEmpty
  BY DEF AvgInv
<1> QED BY <1>1, AveragesInvariant, PTL

(* After a minute without a skipped tick every slot of Probes holds a      *)
(* sample of the last minute.                                              *)
THEOREM WindowFresh == Spec => []FreshWindow
<1>1. AvgInv => FreshWindow
  <2> SUFFICES ASSUME AvgInv, pc # "probe", steady >= 5, NEW i \in Sixth
               PROVE  now - stamp[i] < 6
    BY DEF FreshWindow
  <2>1. now \in Nat /\ steady \in Nat
    BY DEF AvgInv, TypeOK
  <2> DEFINE k == (now - i) % 6
  <2>2. k \in 0 .. 5 /\ (now - k) % 6 = i
    BY <2>1 DEF Sixth
  <2> HIDE DEF k
  <2>3. stamp[(now - k) % 6] = now - k
    BY <2>1, <2>2 DEF AvgInv, Samples
  <2>4. stamp[i] = now - k
    BY <2>2, <2>3
  <2> QED BY <2>1, <2>2, <2>4
<1> QED BY <1>1, AveragesInvariant, PTL

(* In AvgInv, a value that calculate_average publishes and that is data is *)
(* the mean of its window.                                                 *)
LEMMA MeanPublished ==
  ASSUME AvgInv, NEW type \in 0 .. 2, NEW seg \in Segment, NEW p \in Params, Leads(p),
         calculate_average(seg, type)[p] # SZARP_NO_DATA
  PROVE  IsMean(Value(calculate_average(seg, type), p), Sums[type][p], Cnts[type][p])
<1>1. \A q \in Params : Leads(q) => InRange(type, q)
  BY AllInRange DEF AvgInv
<1> QED BY <1>1, AverageOf

(* Every new Minute, Min10 or Hour value that MainLoop publishes is the    *)
(* mean of the data in its window.                                         *)
THEOREM MeansPublished == Spec => PublishesMeans
<1> DEFINE A == \A p \in Params : Leads(p) =>
       /\ Minute'[p] \notin {Minute[p], SZARP_NO_DATA} =>
            IsMean(Value(Minute', p), Sum6(Probes, p), Cnt6(Probes, p))
       /\ Min10'[p] \notin {Min10[p], SZARP_NO_DATA} =>
            IsMean(Value(Min10', p), Sum10(Minutes, p), Cnt10(Minutes, p))
       /\ Hour'[p] \notin {Hour[p], SZARP_NO_DATA} =>
            IsMean(Value(Hour', p), Sum6(Min10s, p), Cnt6(Min10s, p))
<1>1. ASSUME AvgInv, Next PROVE A
  <2> SUFFICES ASSUME NEW p \in Params, Leads(p)
               PROVE  /\ Minute'[p] \notin {Minute[p], SZARP_NO_DATA} =>
                           IsMean(Value(Minute', p), Sum6(Probes, p), Cnt6(Probes, p))
                      /\ Min10'[p] \notin {Min10[p], SZARP_NO_DATA} =>
                           IsMean(Value(Min10', p), Sum10(Minutes, p), Cnt10(Minutes, p))
                      /\ Hour'[p] \notin {Hour[p], SZARP_NO_DATA} =>
                           IsMean(Value(Hour', p), Sum6(Min10s, p), Cnt6(Min10s, p))
    OBVIOUS
  <2>1. /\ Sums[0][p] = Sum6(Probes, p) /\ Cnts[0][p] = Cnt6(Probes, p)
        /\ Sums[1][p] = Sum10(Minutes, p) /\ Cnts[1][p] = Cnt10(Minutes, p)
        /\ Sums[2][p] = Sum6(Min10s, p) /\ Cnts[2][p] = Cnt6(Min10s, p)
    BY <1>1 DEF AvgInv, SumsMatch
  <2>2. Minute \in Segment /\ Min10 \in Segment /\ Hour \in Segment
    BY <1>1 DEF AvgInv, TypeOK
  <2>3. /\ Minute' = Minute \/ Minute' = calculate_average(Minute, 0)
        /\ Min10' = Min10 \/ Min10' = calculate_average(Min10, 1)
        /\ Hour' = Hour \/ Hour' = calculate_average(Hour, 2)
    BY <1>1 DEF Next, UpdateProbe, UpdateMinute, UpdateMin10, UpdateHour, Sleep, Done, vars
  <2>4. Minute'[p] \notin {Minute[p], SZARP_NO_DATA} =>
          IsMean(Value(Minute', p), Sum6(Probes, p), Cnt6(Probes, p))
    <3> DEFINE mean == calculate_average(Minute, 0)
    <3>1. mean[p] # SZARP_NO_DATA => IsMean(Value(mean, p), Sums[0][p], Cnts[0][p])
      BY <1>1, <2>2, MeanPublished
    <3> HIDE DEF mean
    <3>2. CASE Minute' = Minute
      BY SMTT(30), <3>2
    <3>3. CASE Minute' = mean
      BY <2>1, <3>1, <3>3
    <3> QED BY <2>3, <3>2, <3>3 DEF mean
  <2>5. Min10'[p] \notin {Min10[p], SZARP_NO_DATA} =>
          IsMean(Value(Min10', p), Sum10(Minutes, p), Cnt10(Minutes, p))
    <3> DEFINE mean == calculate_average(Min10, 1)
    <3>1. mean[p] # SZARP_NO_DATA => IsMean(Value(mean, p), Sums[1][p], Cnts[1][p])
      BY SMTT(30), <1>1, <2>2, MeanPublished
    <3> HIDE DEF mean
    <3>2. CASE Min10' = Min10
      BY <3>2
    <3>3. CASE Min10' = mean
      BY <2>1, <3>1, <3>3
    <3> QED BY <2>3, <3>2, <3>3 DEF mean
  <2>6. Hour'[p] \notin {Hour[p], SZARP_NO_DATA} =>
          IsMean(Value(Hour', p), Sum6(Min10s, p), Cnt6(Min10s, p))
    <3> DEFINE mean == calculate_average(Hour, 2)
    <3>1. mean[p] # SZARP_NO_DATA => IsMean(Value(mean, p), Sums[2][p], Cnts[2][p])
      BY SMTT(30), <1>1, <2>2, MeanPublished
    <3> HIDE DEF mean
    <3>2. CASE Hour' = Hour
      BY <3>2
    <3>3. CASE Hour' = mean
      BY SMTT(30), <2>1, <3>1, <3>3
    <3> QED BY <2>3, <3>2, <3>3 DEF mean
  <2> QED BY SMTT(30), <2>4, <2>5, <2>6
<1>2. AvgInv /\ [Next]_vars => [A]_vars
  BY <1>1
<1>3. Spec => [][A]_vars
  BY <1>2, AveragesInvariant, PTL DEF Spec
<1> QED BY SMTT(30), <1>3 DEF PublishesMeans
=============================================================================
