--------------------------- MODULE SettingsProofs ---------------------------
(***************************************************************************)
(* Proofs about Settings, for any widths that satisfy WidthAssumption, any *)
(* texts and any files: what is refused, what a request hands over and     *)
(* what it warns of.                                                       *)
(*                                                                         *)
(* The readers of numbers are recursive functions over the characters, so  *)
(* each is first shown to compute Decimal as long as it goes on (by        *)
(* induction over the length of the text), then the setters one by one,    *)
(* then that a scope stores what its lines mean (Inv).                     *)
(***************************************************************************)
EXTENDS Settings, SequenceTheorems, WellFoundedInduction, TLAPS

----------------------------------------------------------------------------
(* Texts of digits: what they mean, and how many fit.                      *)

(* A set of numbers has a smallest one.                                    *)
LEMMA LeastNumber ==
    ASSUME NEW T, T \subseteq Nat, T # {}
    PROVE  \E x \in T : \A y \in T : x <= y
<1> DEFINE R == OpToRel(<, Nat)
<1>1. IsWellFoundedOn(R, Nat)
  BY NatLessThanWellFounded
<1>2. \A x, y \in Nat : y < x => <<y, x>> \in R
  BY DEF OpToRel
<1> HIDE DEF R
<1>3. PICK x \in T : \A y \in T : ~(<<y, x>> \in R)
  BY <1>1, WFMin
<1>4. \A y \in T : ~(y < x)
  BY <1>2, <1>3
<1>5. \A y \in T : x <= y
  BY <1>4
<1> QED
  BY <1>5

(* Induction over the indices of a text: what holds of 0 and goes from an  *)
(* index to the next holds of all.                                         *)
LEMMA CountUp ==
    ASSUME NEW n \in Nat, NEW S, 0 \in S,
           \A i \in 1..n : i - 1 \in S => i \in S
    PROVE  \A i \in 0..n : i \in S
<1> DEFINE T == {i \in Nat : i <= n /\ i \notin S}
<1>1. SUFFICES ASSUME T # {} PROVE FALSE
  OBVIOUS
<1>2. T \subseteq Nat
  OBVIOUS
<1>3. PICK m \in T : \A y \in T : m <= y
  <2> HIDE DEF T
  <2> QED
    BY <1>1, <1>2, LeastNumber
<1>4. m \in 1..n /\ m \notin S
  BY <1>3
<1>5. m - 1 \in S
  BY <1>3, <1>4
<1> QED
  BY <1>4, <1>5

(* From a first value and what each step makes of a value one gets a       *)
(* function: a loop over 0..n has a result.                                *)
Courses(first, step, V, n) ==
    {g \in [0..n -> V] : g[0] = first /\ \A i \in 1..n : g[i] = step[i][g[i - 1]]}

(* There is one course, and it is what a loop goes through.                *)
LEMMA CourseExists ==
    ASSUME NEW V, NEW first \in V, NEW n \in Nat, NEW step \in [1..n -> [V -> V]]
    PROVE  Courses(first, step, V, n) # {}
<1> DEFINE S == {m \in 0..n : Courses(first, step, V, m) # {}}
<1>1. 0 \in S
  <2>1. [i \in 0..0 |-> first] \in Courses(first, step, V, 0)
    BY DEF Courses
  <2> QED
    BY <2>1
<1>2. ASSUME NEW m \in 1..n, m - 1 \in S
      PROVE  m \in S
  <2>1. PICK g : g \in Courses(first, step, V, m - 1)
    BY <1>2
  <2>2. /\ g \in [0..(m - 1) -> V] /\ g[0] = first
        /\ \A i \in 1..(m - 1) : g[i] = step[i][g[i - 1]]
    BY <2>1 DEF Courses
  <2> DEFINE h == [i \in 0..m |-> IF i = m THEN step[m][g[m - 1]] ELSE g[i]]
  <2>3. step[m] \in [V -> V] /\ m - 1 \in 0..(m - 1)
    OBVIOUS
  <2>4. h \in [0..m -> V]
    <3>1. g[m - 1] \in V /\ step[m][g[m - 1]] \in V
      BY <2>2, <2>3
    <3>2. \A i \in 0..m : i # m => i \in 0..(m - 1) /\ g[i] \in V
      BY <2>2
    <3> QED
      BY <3>1, <3>2
  <2>5. h[0] = first
    BY <2>2
  <2>6. ASSUME NEW i \in 1..m
        PROVE  h[i] = step[i][h[i - 1]]
    <3>1. h[i - 1] = g[i - 1]
      OBVIOUS
    <3>2. CASE i = m
      BY <3>1, <3>2
    <3>3. CASE i # m
      BY <2>2, <3>1, <3>3
    <3> QED
      BY <3>2, <3>3
  <2>7. h \in Courses(first, step, V, m)
    BY <2>4, <2>5, <2>6 DEF Courses
  <2> QED
    BY <2>7
<1> HIDE DEF S
<1>3. \A i \in 0..n : i \in S
  BY <1>1, <1>2, CountUp
<1>4. Courses(first, step, V, n) # {}
  BY <1>3 DEF S
<1> QED
  BY <1>4

----------------------------------------------------------------------------
(* The number that each beginning of a text stands for.                    *)
Values(text) ==
    CHOOSE f : f = [i \in 0..Len(text) |->
                      IF i = 0 THEN 0 ELSE 10 * f[i - 1] + text[i]]

(* The values of a text of digits are those numbers: the first is 0, and   *)
(* each digit multiplies by ten and adds.                                  *)
LEMMA ValuesFacts ==
    ASSUME NEW text \in Seq(Nat)
    PROVE  /\ Values(text) \in [0..Len(text) -> Nat]
           /\ Values(text)[0] = 0
           /\ \A i \in 1..Len(text) : Values(text)[i] = 10 * Values(text)[i - 1] + text[i]
           /\ Decimal(text) = Values(text)[Len(text)]
           /\ Decimal(text) \in Nat
<1> DEFINE n == Len(text)
           F(f) == [i \in 0..n |-> IF i = 0 THEN 0 ELSE 10 * f[i - 1] + text[i]]
           step == [i \in 1..n |-> [v \in Nat |-> 10 * v + text[i]]]
           c == Values(text)
<1>1. n \in Nat /\ \A i \in 1..n : text[i] \in Nat
  BY LenProperties, ElementOfSeq
<1>2. Decimal(text) = c[n]
  BY DEF Decimal, Loop, Values
<1>3. c = CHOOSE f : f = F(f)
  BY DEF Values
<1> HIDE DEF n, c
<1>4. PICK g \in [0..n -> Nat] : g[0] = 0 /\ \A i \in 1..n : g[i] = step[i][g[i - 1]]
  <2>1. step \in [1..n -> [Nat -> Nat]]
    BY <1>1
  <2> HIDE DEF step
  <2>2. Courses(0, step, Nat, n) # {}
    BY <1>1, <2>1, CourseExists
  <2> QED
    BY <2>2 DEF Courses
<1>5. ASSUME NEW i \in 1..n
      PROVE  g[i] = 10 * g[i - 1] + text[i]
  <2>1. g[i - 1] \in Nat
    BY <1>1, <1>4
  <2>2. step[i][g[i - 1]] = 10 * g[i - 1] + text[i]
    BY <2>1
  <2> HIDE DEF step
  <2> QED
    BY <1>4, <2>2
<1> HIDE DEF step
<1>6. g = F(g)
  BY <1>1, <1>4, <1>5
<1>7. c = F(c)
  <2> HIDE DEF F
  <2> QED
    BY <1>3, <1>6
<1>8. c[0] = 0 /\ \A i \in 1..n : c[i] = 10 * c[i - 1] + text[i]
  BY <1>1, <1>7
<1> DEFINE S == {i \in 0..n : c[i] \in Nat}
<1>9. \A i \in 0..n : i \in S
  <2>1. 0 \in S
    BY <1>1, <1>8
  <2>2. ASSUME NEW i \in 1..n, i - 1 \in S
        PROVE  i \in S
    <3>1. c[i - 1] \in Nat /\ text[i] \in Nat /\ c[i] = 10 * c[i - 1] + text[i]
      BY <1>1, <1>8, <2>2
    <3>2. c[i] \in Nat
      BY <3>1
    <3> QED
      BY <1>1, <3>2
  <2> HIDE DEF S
  <2> QED
    BY <1>1, <2>1, <2>2, CountUp
<1>10. c \in [0..n -> Nat]
  BY <1>7, <1>9
<1> QED
  BY <1>1, <1>2, <1>8, <1>10 DEF n, c

(* A number of one digit more is less than ten times the power.            *)
LEMMA OneMoreDigit ==
    ASSUME NEW v \in Nat, NEW w \in Nat, NEW d \in 0..9, v < w
    PROVE  10 * v + d < 10 * w
  OBVIOUS

(* A text of digits that is no longer than n is below ten to the n.        *)
LEMMA TenToFacts ==
    ASSUME NEW n \in Nat
    PROVE  /\ TenTo(n) \in Nat
           /\ \A text \in Seq(0..9) : Len(text) <= n => Decimal(text) < TenTo(n)
<1> DEFINE F(f) == [i \in 0..n |-> IF i = 0 THEN 1 ELSE 10 * f[i - 1]]
           step == [i \in 1..n |-> [v \in Nat |-> 10 * v]]
           c == CHOOSE f : f = F(f)
<1>1. TenTo(n) = c[n]
  BY DEF TenTo
<1>2. PICK g \in [0..n -> Nat] : g[0] = 1 /\ \A i \in 1..n : g[i] = step[i][g[i - 1]]
  <2>1. step \in [1..n -> [Nat -> Nat]]
    OBVIOUS
  <2> HIDE DEF step
  <2>2. Courses(1, step, Nat, n) # {}
    BY <2>1, CourseExists
  <2> QED
    BY <2>2 DEF Courses
<1>3. ASSUME NEW i \in 1..n
      PROVE  g[i] = 10 * g[i - 1]
  <2>1. g[i - 1] \in Nat
    BY <1>2
  <2>2. step[i][g[i - 1]] = 10 * g[i - 1]
    BY <2>1
  <2> HIDE DEF step
  <2> QED
    BY <1>2, <2>2
<1> HIDE DEF step
<1>4. g = F(g)
  BY <1>2, <1>3
<1>5. c = F(c)
  <2> HIDE DEF F
  <2> QED
    BY <1>4
<1> HIDE DEF c
<1>6. c[0] = 1 /\ \A i \in 1..n : c[i] = 10 * c[i - 1]
  BY <1>5
<1> DEFINE S == {i \in 0..n : c[i] \in Nat /\ c[i] > 0}
<1>7. \A i \in 0..n : i \in S
  <2>1. 0 \in S
    BY <1>6
  <2>2. \A i \in 1..n : i - 1 \in S => i \in S
    BY <1>6
  <2> HIDE DEF S
  <2> QED
    BY <2>1, <2>2, CountUp
<1>8. \A i \in 0..n : c[i] \in Nat /\ c[i] > 0
  BY <1>7
<1>9. ASSUME NEW text \in Seq(0..9), Len(text) <= n
      PROVE  Decimal(text) < c[n]
  <2> DEFINE m == Len(text)
             v == Values(text)
             k == n - m
             U == {i \in 0..m : v[i] < c[i + k]}
  <2>1. text \in Seq(Nat) /\ m \in Nat /\ \A i \in 1..m : text[i] \in 0..9
    <3>1. m \in Nat /\ \A i \in 1..m : text[i] \in 0..9
      BY LenProperties, ElementOfSeq
    <3>2. text \in [1..m -> Nat]
      BY <3>1, LenProperties
    <3> QED
      BY <3>1, <3>2, LenProperties
  <2>2. /\ v \in [0..m -> Nat] /\ v[0] = 0
        /\ \A i \in 1..m : v[i] = 10 * v[i - 1] + text[i]
        /\ Decimal(text) = v[m]
    BY <2>1, ValuesFacts
  <2> HIDE DEF m, v
  <2>3. k \in Nat /\ m + k = n
    BY <1>9, <2>1 DEF m
  <2> HIDE DEF k
  <2>4. 0 \in U
    BY <1>8, <2>1, <2>2, <2>3
  <2>5. ASSUME NEW i \in 1..m, i - 1 \in U
        PROVE  i \in U
    <3>1. v[i - 1] < c[i - 1 + k] /\ v[i - 1] \in Nat
      BY <2>2, <2>5
    <3>2. i + k \in 1..n /\ (i + k) - 1 = i - 1 + k /\ i - 1 + k \in 0..n
      BY <2>1, <2>3
    <3>3. c[i + k] = 10 * c[i - 1 + k] /\ c[i - 1 + k] \in Nat
      BY <1>6, <1>8, <3>2
    <3>4. v[i] = 10 * v[i - 1] + text[i] /\ text[i] \in 0..9
      BY <2>1, <2>2
    <3>5. v[i] < c[i + k]
      BY <3>1, <3>3, <3>4, OneMoreDigit
    <3> QED
      BY <3>5
  <2> HIDE DEF U
  <2>6. m \in U
    <3>1. \A i \in 0..m : i \in U
      BY <2>1, <2>4, <2>5, CountUp
    <3> QED
      BY <2>1, <3>1
  <2> QED
    BY <2>2, <2>3, <2>6 DEF U
<1> QED
  BY <1>1, <1>8, <1>9

----------------------------------------------------------------------------
(* The readers of numbers.                                                 *)

(* A digit more does not lose anything while there is room for it.         *)
LEMMA PushFits ==
    ASSUME NEW v \in Nat, NEW d \in Nat, 10 * v + d <= LongMax
    PROVE  /\ Push(v, d) = 10 * v + d
           /\ Nginx!Push(v, d) = 10 * v + d
           /\ Apache!Push(v, d) = 10 * v + d
           /\ Php!Push(v, d) = 10 * v + d
<1> DEFINE n == 10 * v + d
           m == 2 * (LongMax + 1)
<1>1. n \in Nat /\ LongMax \in Nat /\ n <= LongMax
  BY WidthAssumption
<1>2. n + LongMax + 1 \in 0..(m - 1) /\ m \in Nat /\ m > 0
  BY <1>1
<1>3. (n + LongMax + 1) % m = n + LongMax + 1
  <2> HIDE DEF n, m
  <2> QED
    BY <1>1, <1>2
<1>4. ((n + LongMax + 1) % m) - (LongMax + 1) = n
  <2> HIDE DEF n, m
  <2> QED
    BY <1>1, <1>3
<1> QED
  BY <1>4 DEF Push, Wrap, Nginx!Push, Nginx!Wrap, Apache!Push, Apache!Wrap, Php!Push, Php!Wrap

(* A text of digits is a sequence of numbers from 0 to 9.                  *)
LEMMA DigitText ==
    ASSUME NEW text \in Seq(0..Blank), \A i \in DOMAIN text : IsDigit(text[i])
    PROVE  /\ text \in Seq(0..9) /\ text \in Seq(Nat)
           /\ Len(text) \in Nat /\ \A i \in 1..Len(text) : text[i] \in 0..9
<1>1. Len(text) \in Nat /\ DOMAIN text = 1..Len(text) /\ text \in [1..Len(text) -> 0..Blank]
  BY LenProperties
<1>2. \A i \in 1..Len(text) : text[i] \in 0..9
  BY <1>1 DEF IsDigit
<1>3. text \in [1..Len(text) -> 0..9] /\ text \in [1..Len(text) -> Nat]
  BY <1>1, <1>2
<1>4. text \in Seq(0..9) /\ text \in Seq(Nat)
  BY <1>1, <1>3
<1> QED
  BY <1>1, <1>2, <1>4

(* What the readers that watch a maximum hold after each digit: the value  *)
(* so far, or nothing once it is above.                                    *)
Kept(text, max) == [i \in 0..Len(text) |-> {v \in {Values(text)[i]} : v <= max}]

(* One digit more keeps the value, or drops it for good.                   *)
LEMMA KeptStep ==
    ASSUME NEW text \in Seq(0..9), NEW max \in Nat, NEW i \in 1..Len(text)
    PROVE  /\ Kept(text, max)[0] = {0}
           /\ text[i] \in 0..9
           /\ Values(text)[i - 1] \in Nat
           /\ Kept(text, max)[i - 1] = IF Values(text)[i - 1] <= max
                                       THEN {Values(text)[i - 1]} ELSE {}
           /\ Kept(text, max)[i] = IF 10 * Values(text)[i - 1] + text[i] <= max
                                   THEN {10 * Values(text)[i - 1] + text[i]} ELSE {}
<1> DEFINE v == Values(text)
<1>1. text \in Seq(Nat) /\ Len(text) \in Nat /\ text[i] \in 0..9
  <2>1. Len(text) \in Nat /\ text \in [1..Len(text) -> 0..9]
    BY LenProperties
  <2>2. text \in [1..Len(text) -> Nat]
    BY <2>1
  <2> QED
    BY <2>1, <2>2
<1>2. v \in [0..Len(text) -> Nat] /\ v[0] = 0 /\ v[i] = 10 * v[i - 1] + text[i]
  BY <1>1, ValuesFacts
<1> HIDE DEF v
<1>3. i - 1 \in 0..Len(text) /\ i \in 0..Len(text) /\ 0 \in 0..Len(text)
  BY <1>1
<1>4. /\ Kept(text, max)[0] = {x \in {v[0]} : x <= max}
      /\ Kept(text, max)[i - 1] = {x \in {v[i - 1]} : x <= max}
      /\ Kept(text, max)[i] = {x \in {v[i]} : x <= max}
  BY <1>3 DEF Kept, v
<1>5. v[i - 1] \in Nat
  BY <1>2, <1>3
<1> QED
  BY <1>1, <1>2, <1>4, <1>5 DEF v

(* What is kept at the end is the number, if it is within the maximum.     *)
LEMMA KeptEnd ==
    ASSUME NEW text \in Seq(0..9), NEW max \in Nat
    PROVE  /\ Decimal(text) \in Nat
           /\ Kept(text, max)[Len(text)] = IF Decimal(text) <= max THEN {Decimal(text)}
                                           ELSE {}
<1>1. text \in Seq(Nat) /\ Len(text) \in Nat
  <2>1. Len(text) \in Nat /\ text \in [1..Len(text) -> 0..9]
    BY LenProperties
  <2>2. text \in [1..Len(text) -> Nat]
    BY <2>1
  <2> QED
    BY <2>1, <2>2
<1>2. Decimal(text) = Values(text)[Len(text)] /\ Decimal(text) \in Nat
  BY <1>1, ValuesFacts
<1>3. Kept(text, max)[Len(text)] = {x \in {Values(text)[Len(text)]} : x <= max}
  BY <1>1 DEF Kept
<1> QED
  BY <1>2, <1>3

(* A loop that goes from what is kept after a digit to what is kept after  *)
(* the next ends with what is kept of the whole text.                      *)
LEMMA KeptLoop ==
    ASSUME NEW text \in Seq(0..9), NEW max \in Nat, NEW c,
           DOMAIN c = 0..Len(text), c[0] = {0},
           \A i \in 1..Len(text) : c[i - 1] = Kept(text, max)[i - 1] =>
                                      c[i] = Kept(text, max)[i]
    PROVE  c[Len(text)] = Kept(text, max)[Len(text)]
<1> DEFINE n == Len(text)
           k == Kept(text, max)
           S == {i \in 0..n : c[i] = k[i]}
<1>1. n \in Nat
  BY LenProperties
<1>2. k[0] = {0}
  <2>1. text \in Seq(Nat)
    <3>1. text \in [1..Len(text) -> 0..9]
      BY LenProperties
    <3>2. text \in [1..Len(text) -> Nat]
      BY <3>1
    <3> QED
      BY <1>1, <3>2
  <2>2. Values(text)[0] = 0
    BY <2>1, ValuesFacts
  <2>3. k[0] = {x \in {Values(text)[0]} : x <= max}
    BY <1>1 DEF Kept
  <2> QED
    BY <2>2, <2>3
<1> HIDE DEF k
<1>3. 0 \in S
  <2>1. c[0] = k[0]
    BY <1>2
  <2>2. 0 \in 0..n
    BY <1>1
  <2> QED
    BY <2>1, <2>2
<1>4. \A i \in 1..n : i - 1 \in S => i \in S
  BY <1>1 DEF k
<1> HIDE DEF S
<1>5. \A i \in 0..n : i \in S
  <2> HIDE DEF n
  <2> QED
    BY <1>1, <1>3, <1>4, CountUp
<1>6. n \in S
  BY <1>1, <1>5
<1>7. c[n] = k[n]
  BY <1>6 DEF S
<1> QED
  BY <1>7 DEF k

(* The setters of nginx that look at the value after each digit read a     *)
(* text of digits of any length as what it means.                          *)
LEMMA EarlyExitReads ==
    ASSUME NEW text \in Seq(0..Blank), NEW min \in Nat, NEW max \in Nat,
           10 * max + 9 <= LongMax
    PROVE  Nginx!EarlyExit(text, min, max) =
              IF Digits(text) /\ Decimal(text) \in min..max THEN {<<Decimal(text)>>} ELSE {}
<1>1. Nginx!AllDigits(text) <=> Digits(text)
  BY DEF Nginx!AllDigits, Nginx!IsDigit, Digits, IsDigit
<1>2. CASE ~Digits(text)
  BY <1>1, <1>2 DEF Nginx!EarlyExit
<1>3. CASE Digits(text)
  <2> DEFINE n == Len(text)
             k == Kept(text, max)
             Step(s, d) == {v \in {Nginx!Push(w, d) : w \in s} : v <= max}
             F(f) == [i \in 0..n |-> IF i = 0 THEN {0} ELSE Step(f[i - 1], text[i])]
             c == CHOOSE f : f = F(f)
  <2>1. text \in Seq(0..9) /\ n \in Nat
    BY <1>3, DigitText DEF Digits
  <2>2. Nginx!EarlyExit(text, min, max) = {<<v>> : v \in {v \in c[n] : v >= min}}
    BY <1>1, <1>3 DEF Nginx!EarlyExit, Nginx!Loop
  <2> HIDE DEF c
  <2>3. ASSUME NEW i \in 1..n
        PROVE  Step(k[i - 1], text[i]) = k[i]
    <3> DEFINE w == Values(text)[i - 1]
               t == text[i]
               L == LongMax
    <3>1. /\ t \in 0..9 /\ w \in Nat
          /\ k[i - 1] = IF w <= max THEN {w} ELSE {}
          /\ k[i] = IF 10 * w + t <= max THEN {10 * w + t} ELSE {}
      BY <2>1, KeptStep
    <3>2. L \in Nat /\ 10 * max + 9 <= L
      BY WidthAssumption
    <3> HIDE DEF w, k, t, L
    <3>3. CASE w <= max
      <4>1. 10 * w + t <= L
        BY <3>1, <3>2, <3>3
      <4>2. Nginx!Push(w, t) = 10 * w + t
        BY <3>1, <4>1, PushFits DEF L
      <4> QED
        BY <3>1, <3>2, <3>3, <4>2 DEF t
    <3>4. CASE ~(w <= max)
      BY <3>1, <3>4 DEF t
    <3> QED
      BY <3>3, <3>4
  <2> HIDE DEF Step
  <2>4. k = F(k)
    <3>1. ASSUME NEW i \in 0..n
          PROVE  k[i] = F(k)[i]
      <4>1. CASE i = 0
        <5>1. text # <<>> /\ 1 \in 1..n
          BY <1>3, <2>1, EmptySeq DEF Digits
        <5>2. k[0] = {0}
          BY <2>1, <5>1, KeptStep
        <5> QED
          BY <4>1, <5>2
      <4>2. CASE i # 0
        <5>1. i \in 1..n
          BY <2>1, <4>2
        <5> HIDE DEF k
        <5> QED
          BY <2>3, <5>1, <4>2
      <4> QED
        BY <4>1, <4>2
    <3>2. k = [i \in 0..n |-> k[i]]
      BY DEF Kept
    <3> HIDE DEF k
    <3> QED
      BY <3>1, <3>2
  <2> HIDE DEF k
  <2>5. c = F(c)
    <3> HIDE DEF F
    <3> QED
      BY <2>4 DEF c
  <2>6. c[n] = k[n]
    <3>1. DOMAIN c = 0..n /\ c[0] = {0}
      BY <2>1, <2>5
    <3>2. ASSUME NEW i \in 1..n, c[i - 1] = k[i - 1]
          PROVE  c[i] = k[i]
      <4>1. i \in 0..n /\ i # 0
        BY <2>1
      <4>2. c[i] = F(c)[i]
        BY <2>5
      <4> QED
        BY <2>3, <3>2, <4>1, <4>2
    <3> QED
      BY <2>1, <3>1, <3>2, KeptLoop DEF k
  <2>7. k[n] = (IF Decimal(text) <= max THEN {Decimal(text)} ELSE {}) /\ Decimal(text) \in Nat
    BY <2>1, KeptEnd DEF k
  <2> HIDE DEF n
  <2> QED
    BY <1>3, <2>2, <2>6, <2>7
<1> QED
  BY <1>2, <1>3

(* So do those that look at the room that is left.                         *)
LEMMA GuardedLoopReads ==
    ASSUME NEW text \in Seq(0..Blank), NEW max \in Nat,
           max <= LongMax
    PROVE  Nginx!GuardedLoop(text, max) =
              IF Digits(text) /\ Decimal(text) <= max THEN {<<Decimal(text)>>} ELSE {}
<1>1. Nginx!AllDigits(text) <=> Digits(text)
  BY DEF Nginx!AllDigits, Nginx!IsDigit, Digits, IsDigit
<1>2. CASE ~Digits(text)
  BY <1>1, <1>2 DEF Nginx!GuardedLoop
<1>3. CASE Digits(text)
  <2> DEFINE n == Len(text)
             k == Kept(text, max)
             Step(s, d) == {Nginx!Push(w, d) : w \in {v \in s : v <= (max - d) \div 10}}
             F(f) == [i \in 0..n |-> IF i = 0 THEN {0} ELSE Step(f[i - 1], text[i])]
             c == CHOOSE f : f = F(f)
  <2>1. text \in Seq(0..9) /\ n \in Nat
    BY <1>3, DigitText DEF Digits
  <2>2. Nginx!GuardedLoop(text, max) = {<<v>> : v \in c[n]}
    BY <1>1, <1>3 DEF Nginx!GuardedLoop, Nginx!Loop
  <2> HIDE DEF c
  <2>3. ASSUME NEW i \in 1..n
        PROVE  Step(k[i - 1], text[i]) = k[i]
    <3> DEFINE w == Values(text)[i - 1]
               t == text[i]
               L == LongMax
    <3>1. /\ t \in 0..9 /\ w \in Nat
          /\ k[i - 1] = IF w <= max THEN {w} ELSE {}
          /\ k[i] = IF 10 * w + t <= max THEN {10 * w + t} ELSE {}
      BY <2>1, KeptStep
    <3>2. L \in Nat /\ max <= L
      BY WidthAssumption
    <3> HIDE DEF w, k, t, L
    <3>3. CASE w <= max
      <4>1. w <= (max - t) \div 10 <=> 10 * w + t <= max
        BY <3>1
      <4>2. 10 * w + t <= max => Nginx!Push(w, t) = 10 * w + t
        <5>1. 10 * w + t <= max => 10 * w + t <= L
          BY <3>1, <3>2
        <5> QED
          BY <3>1, <5>1, PushFits DEF L
      <4>3. CASE 10 * w + t <= max
        BY <3>1, <3>3, <4>1, <4>2, <4>3 DEF t
      <4>4. CASE ~(10 * w + t <= max)
        BY <3>1, <3>3, <4>1, <4>4 DEF t
      <4> QED
        BY <4>3, <4>4
    <3>4. CASE ~(w <= max)
      BY <3>1, <3>4 DEF t
    <3> QED
      BY <3>3, <3>4
  <2> HIDE DEF Step
  <2>4. k = F(k)
    <3>1. ASSUME NEW i \in 0..n
          PROVE  k[i] = F(k)[i]
      <4>1. CASE i = 0
        <5>1. text # <<>> /\ 1 \in 1..n
          BY <1>3, <2>1, EmptySeq DEF Digits
        <5>2. k[0] = {0}
          BY <2>1, <5>1, KeptStep
        <5> QED
          BY <4>1, <5>2
      <4>2. CASE i # 0
        <5>1. i \in 1..n
          BY <2>1, <4>2
        <5> HIDE DEF k
        <5> QED
          BY <2>3, <5>1, <4>2
      <4> QED
        BY <4>1, <4>2
    <3>2. k = [i \in 0..n |-> k[i]]
      BY DEF Kept
    <3> HIDE DEF k
    <3> QED
      BY <3>1, <3>2
  <2> HIDE DEF k
  <2>5. c = F(c)
    <3> HIDE DEF F
    <3> QED
      BY <2>4 DEF c
  <2>6. c[n] = k[n]
    <3>1. DOMAIN c = 0..n /\ c[0] = {0}
      BY <2>1, <2>5
    <3>2. ASSUME NEW i \in 1..n, c[i - 1] = k[i - 1]
          PROVE  c[i] = k[i]
      <4>1. i \in 0..n /\ i # 0
        BY <2>1
      <4>2. c[i] = F(c)[i]
        BY <2>5
      <4> QED
        BY <2>3, <3>2, <4>1, <4>2
    <3> QED
      BY <2>1, <3>1, <3>2, KeptLoop DEF k
  <2>7. k[n] = (IF Decimal(text) <= max THEN {Decimal(text)} ELSE {}) /\ Decimal(text) \in Nat
    BY <2>1, KeptEnd DEF k
  <2> HIDE DEF n
  <2> QED
    BY <1>3, <2>2, <2>6, <2>7
<1> QED
  BY <1>2, <1>3

(* Apache reads an off_t of any length likewise, after the blanks.         *)
LEMMA OffReads ==
    ASSUME NEW raw, Apache!WithoutBlanks(raw) \in Seq(0..Blank), NEW min \in Nat, NEW max \in Nat,
           max <= LongMax
    PROVE  Apache!parse_nonneg_off(raw, min, max) =
              IF /\ Digits(Apache!WithoutBlanks(raw))
                 /\ Decimal(Apache!WithoutBlanks(raw)) \in min..max
              THEN {<<Decimal(Apache!WithoutBlanks(raw))>>} ELSE {}
<1> DEFINE text == Apache!WithoutBlanks(raw)
<1>1. (text # <<>> /\ \A i \in DOMAIN text : Apache!IsDigit(text[i])) <=> Digits(text)
  BY DEF Apache!IsDigit, Digits, IsDigit
<1>2. CASE ~Digits(text)
  BY <1>1, <1>2 DEF Apache!parse_nonneg_off
<1>3. CASE Digits(text)
  <2> DEFINE n == Len(text)
             k == Kept(text, max)
             Step(s, d) == IF s = {} \/ (\E v \in s : v > (max - d) \div 10) THEN {}
                           ELSE {Apache!Push(v, d) : v \in s}
             F(f) == [i \in 0..n |-> IF i = 0 THEN {0} ELSE Step(f[i - 1], text[i])]
             c == CHOOSE f : f = F(f)
  <2>1. text \in Seq(0..9) /\ n \in Nat
    BY <1>3, DigitText DEF Digits
  <2>2. Apache!parse_nonneg_off(raw, min, max) = {<<v>> : v \in c[n] \intersect (min..max)}
    BY <1>1, <1>3 DEF Apache!parse_nonneg_off, Apache!Loop
  <2> HIDE DEF c, text
  <2>3. ASSUME NEW i \in 1..n
        PROVE  Step(k[i - 1], text[i]) = k[i]
    <3> DEFINE w == Values(text)[i - 1]
               t == text[i]
               L == LongMax
    <3>1. /\ t \in 0..9 /\ w \in Nat
          /\ k[i - 1] = IF w <= max THEN {w} ELSE {}
          /\ k[i] = IF 10 * w + t <= max THEN {10 * w + t} ELSE {}
      BY <2>1, KeptStep
    <3>2. L \in Nat /\ max <= L
      BY WidthAssumption
    <3> HIDE DEF w, k, t, L
    <3>3. CASE w <= max
      <4>1. w > (max - t) \div 10 <=> ~(10 * w + t <= max)
        BY <3>1
      <4>2. 10 * w + t <= max => Apache!Push(w, t) = 10 * w + t
        <5>1. 10 * w + t <= max => 10 * w + t <= L
          BY <3>1, <3>2
        <5> QED
          BY <3>1, <5>1, PushFits DEF L
      <4>3. CASE 10 * w + t <= max
        BY <3>1, <3>3, <4>1, <4>2, <4>3 DEF t
      <4>4. CASE ~(10 * w + t <= max)
        BY <3>1, <3>3, <4>1, <4>4 DEF t
      <4> QED
        BY <4>3, <4>4
    <3>4. CASE ~(w <= max)
      BY <3>1, <3>4 DEF t
    <3> QED
      BY <3>3, <3>4
  <2> HIDE DEF Step
  <2>4. k = F(k)
    <3>1. ASSUME NEW i \in 0..n
          PROVE  k[i] = F(k)[i]
      <4>1. CASE i = 0
        <5>1. text # <<>> /\ 1 \in 1..n
          BY <1>3, <2>1, EmptySeq DEF Digits
        <5>2. k[0] = {0}
          BY <2>1, <5>1, KeptStep
        <5> QED
          BY <4>1, <5>2
      <4>2. CASE i # 0
        <5>1. i \in 1..n
          BY <2>1, <4>2
        <5> HIDE DEF k
        <5> QED
          BY <2>3, <5>1, <4>2
      <4> QED
        BY <4>1, <4>2
    <3>2. k = [i \in 0..n |-> k[i]]
      BY DEF Kept
    <3> HIDE DEF k
    <3> QED
      BY <3>1, <3>2
  <2> HIDE DEF k
  <2>5. c = F(c)
    <3> HIDE DEF F
    <3> QED
      BY <2>4 DEF c
  <2>6. c[n] = k[n]
    <3>1. DOMAIN c = 0..n /\ c[0] = {0}
      BY <2>1, <2>5
    <3>2. ASSUME NEW i \in 1..n, c[i - 1] = k[i - 1]
          PROVE  c[i] = k[i]
      <4>1. i \in 0..n /\ i # 0
        BY <2>1
      <4>2. c[i] = F(c)[i]
        BY <2>5
      <4> QED
        BY <2>3, <3>2, <4>1, <4>2
    <3> QED
      BY <2>1, <3>1, <3>2, KeptLoop DEF k
  <2>7. k[n] = (IF Decimal(text) <= max THEN {Decimal(text)} ELSE {}) /\ Decimal(text) \in Nat
    BY <2>1, KeptEnd DEF k
  <2> HIDE DEF n
  <2> QED
    BY <1>3, <2>2, <2>6, <2>7 DEF text
<1> QED
  BY <1>2, <1>3

(* And PHP the port of an address.                                         *)
LEMMA UintReads ==
    ASSUME NEW text \in Seq(0..Blank), NEW min \in Nat, NEW max \in Nat,
           10 * max + 9 <= LongMax, max <= LongMax \div 10 - 10
    PROVE  Php!mesi_parse_uint_bounded(text, min, max) =
              IF Digits(text) /\ Decimal(text) \in min..max THEN {Decimal(text)} ELSE {}
<1>1. (text # <<>> /\ \A i \in DOMAIN text : Php!IsDigit(text[i])) <=> Digits(text)
  BY DEF Php!IsDigit, Digits, IsDigit
<1>2. CASE ~Digits(text)
  BY <1>1, <1>2 DEF Php!mesi_parse_uint_bounded
<1>3. CASE Digits(text)
  <2> DEFINE n == Len(text)
             k == Kept(text, max)
             Step(s, d) == {v \in {Php!Push(w, d) : w \in {v \in s : v <= LongMax \div 10 - 10}} :
                             v <= max}
             F(f) == [i \in 0..n |-> IF i = 0 THEN {0} ELSE Step(f[i - 1], text[i])]
             c == CHOOSE f : f = F(f)
  <2>1. text \in Seq(0..9) /\ n \in Nat
    BY <1>3, DigitText DEF Digits
  <2>2. Php!mesi_parse_uint_bounded(text, min, max) = {v \in c[n] : v >= min}
    BY <1>1, <1>3 DEF Php!mesi_parse_uint_bounded, Php!Loop
  <2> HIDE DEF c
  <2>3. ASSUME NEW i \in 1..n
        PROVE  Step(k[i - 1], text[i]) = k[i]
    <3> DEFINE w == Values(text)[i - 1]
               t == text[i]
               L == LongMax
    <3>1. /\ t \in 0..9 /\ w \in Nat
          /\ k[i - 1] = IF w <= max THEN {w} ELSE {}
          /\ k[i] = IF 10 * w + t <= max THEN {10 * w + t} ELSE {}
      BY <2>1, KeptStep
    <3>2. L \in Nat /\ L \div 10 \in Int /\ 10 * max + 9 <= L /\ max <= L \div 10 - 10
      BY WidthAssumption
    <3> HIDE DEF w, k, t, L
    <3>3. CASE w <= max
      <4>1. 10 * w + t <= L
        BY <3>1, <3>2, <3>3
      <4>2. Php!Push(w, t) = 10 * w + t
        BY <3>1, <4>1, PushFits DEF L
      <4>3. w <= L \div 10 - 10
        BY <3>1, <3>2, <3>3
      <4> QED
        BY <3>1, <3>2, <3>3, <4>2, <4>3 DEF t, L
    <3>4. CASE ~(w <= max)
      BY <3>1, <3>4 DEF t
    <3> QED
      BY <3>3, <3>4
  <2> HIDE DEF Step
  <2>4. k = F(k)
    <3>1. ASSUME NEW i \in 0..n
          PROVE  k[i] = F(k)[i]
      <4>1. CASE i = 0
        <5>1. text # <<>> /\ 1 \in 1..n
          BY <1>3, <2>1, EmptySeq DEF Digits
        <5>2. k[0] = {0}
          BY <2>1, <5>1, KeptStep
        <5> QED
          BY <4>1, <5>2
      <4>2. CASE i # 0
        <5>1. i \in 1..n
          BY <2>1, <4>2
        <5> HIDE DEF k
        <5> QED
          BY <2>3, <5>1, <4>2
      <4> QED
        BY <4>1, <4>2
    <3>2. k = [i \in 0..n |-> k[i]]
      BY DEF Kept
    <3> HIDE DEF k
    <3> QED
      BY <3>1, <3>2
  <2> HIDE DEF k
  <2>5. c = F(c)
    <3> HIDE DEF F
    <3> QED
      BY <2>4 DEF c
  <2>6. c[n] = k[n]
    <3>1. DOMAIN c = 0..n /\ c[0] = {0}
      BY <2>1, <2>5
    <3>2. ASSUME NEW i \in 1..n, c[i - 1] = k[i - 1]
          PROVE  c[i] = k[i]
      <4>1. i \in 0..n /\ i # 0
        BY <2>1
      <4>2. c[i] = F(c)[i]
        BY <2>5
      <4> QED
        BY <2>3, <3>2, <4>1, <4>2
    <3> QED
      BY <2>1, <3>1, <3>2, KeptLoop DEF k
  <2>7. k[n] = (IF Decimal(text) <= max THEN {Decimal(text)} ELSE {}) /\ Decimal(text) \in Nat
    BY <2>1, KeptEnd DEF k
  <2> HIDE DEF n
  <2> QED
    BY <1>3, <2>2, <2>6, <2>7
<1> QED
  BY <1>2, <1>3

(* A number of so many digits is below that power of ten.                  *)
LEMMA ValuesGrow ==
    ASSUME NEW text \in Seq(0..9)
    PROVE  \A i \in 0..Len(text) : Values(text)[i] <= Decimal(text)
<1> DEFINE n == Len(text)
           v == Values(text)
           S == {j \in 0..n : v[n - j] <= v[n]}
<1>1. n \in Nat /\ \A i \in 1..n : text[i] \in 0..9
  BY LenProperties, ElementOfSeq
<1>2. text \in Seq(Nat)
  <2>1. text \in [1..n -> Nat]
    BY <1>1, LenProperties
  <2> QED
    BY <1>1, <2>1
<1>3. /\ v \in [0..n -> Nat] /\ Decimal(text) = v[n]
      /\ \A i \in 1..n : v[i] = 10 * v[i - 1] + text[i]
  BY <1>2, ValuesFacts
<1> HIDE DEF v, n
<1>4. 0 \in S
  BY <1>1, <1>3
<1>5. ASSUME NEW j \in 1..n, j - 1 \in S
      PROVE  j \in S
  <2> DEFINE i == n - (j - 1)
  <2>1. i \in 1..n /\ i - 1 = n - j /\ i - 1 \in 0..n
    BY <1>1
  <2>2. v[i] <= v[n]
    BY <1>5
  <2> HIDE DEF i
  <2>3. v[i] = 10 * v[i - 1] + text[i] /\ text[i] \in 0..9 /\ v[i - 1] \in Nat /\ v[n] \in Nat
    BY <1>1, <1>3, <2>1
  <2>4. v[i - 1] <= v[n]
    <3>1. \A a, c, m \in Nat : 10 * a + c <= m => a <= m
      OBVIOUS
    <3>2. text[i] \in Nat
      BY <2>3
    <3>3. 10 * v[i - 1] + text[i] <= v[n]
      BY <2>2, <2>3
    <3> QED
      BY <2>3, <3>1, <3>2, <3>3
  <2> QED
    BY <1>1, <2>1, <2>4
<1>6. \A j \in 0..n : j \in S
  <2> HIDE DEF S
  <2> QED
    BY <1>1, <1>4, <1>5, CountUp
<1>7. ASSUME NEW i \in 0..n
      PROVE  v[i] <= v[n]
  <2>1. n - i \in 0..n /\ n - (n - i) = i
    BY <1>1
  <2>2. n - i \in S
    BY <1>6, <2>1
  <2> QED
    BY <2>1, <2>2
<1> QED
  BY <1>3, <1>7 DEF v, n

(* Nine digits fit an int, so that Apache reads them as what they mean.    *)
LEMMA IntReads ==
    ASSUME NEW raw, Apache!WithoutBlanks(raw) \in Seq(0..Blank),
           NEW min \in Nat, NEW max \in Nat
    PROVE  /\ Apache!parse_nonneg_int(raw, min, max) =
                IF /\ Digits(Apache!WithoutBlanks(raw))
                   /\ Len(Apache!WithoutBlanks(raw)) <= MaxDigits
                   /\ Decimal(Apache!WithoutBlanks(raw)) \in min..max
                THEN {<<Decimal(Apache!WithoutBlanks(raw))>>} ELSE {}
           /\ Apache!parse_nonneg_int_bounded(raw, min, max) =
                IF /\ Digits(Apache!WithoutBlanks(raw))
                   /\ Len(Apache!WithoutBlanks(raw)) <= MaxDigits
                   /\ Decimal(Apache!WithoutBlanks(raw)) \in min..max
                THEN {Decimal(Apache!WithoutBlanks(raw))} ELSE {}
<1> DEFINE text == Apache!WithoutBlanks(raw)
           n == Len(text)
           v == Values(text)
           F(f) == [i \in 0..n |-> IF i = 0 THEN 0 ELSE Apache!Push(f[i - 1], text[i])]
           c == CHOOSE f : f = F(f)
<1>1. (text # <<>> /\ \A i \in DOMAIN text : Apache!IsDigit(text[i])) <=> Digits(text)
  BY DEF Apache!IsDigit, Digits, IsDigit
<1>2. CASE ~(Digits(text) /\ Len(text) <= MaxDigits)
  BY <1>1, <1>2 DEF Apache!parse_nonneg_int, Apache!parse_nonneg_int_bounded
<1>3. CASE Digits(text) /\ Len(text) <= MaxDigits
  <2>1. text \in Seq(0..9) /\ text \in Seq(Nat) /\ n \in Nat
    BY <1>3, DigitText DEF Digits
  <2>2. /\ Apache!parse_nonneg_int(raw, min, max) =
             IF c[n] \in min..max THEN {<<c[n]>>} ELSE {}
        /\ Apache!parse_nonneg_int_bounded(raw, min, max) =
             IF c[n] \in min..max THEN {c[n]} ELSE {}
    BY <1>1, <1>3
       DEF Apache!parse_nonneg_int, Apache!parse_nonneg_int_bounded, Apache!Loop
  <2> HIDE DEF c, text
  <2>3. /\ v \in [0..n -> Nat] /\ v[0] = 0 /\ Decimal(text) = v[n]
        /\ \A i \in 1..n : v[i] = 10 * v[i - 1] + text[i]
    BY <2>1, ValuesFacts
  <2>4. \A i \in 1..n : text[i] \in 0..9
    BY <1>3, DigitText DEF Digits, text
  <2>5. Decimal(text) <= LongMax
    <3>1. MaxDigits \in Nat /\ LongMax \in Nat /\ IntMax \in Nat
          /\ TenTo(MaxDigits) - 1 <= IntMax /\ IntMax <= LongMax
      BY WidthAssumption
    <3>2. TenTo(MaxDigits) \in Nat /\ Decimal(text) < TenTo(MaxDigits)
      BY <1>3, <2>1, <3>1, TenToFacts
    <3>3. Decimal(text) \in Nat
      BY <2>1, <2>3
    <3> QED
      BY <3>1, <3>2, <3>3
  <2>6. \A i \in 0..n : v[i] <= Decimal(text)
    BY <2>1, ValuesGrow
  <2> HIDE DEF v, n
  <2>7. ASSUME NEW i \in 1..n
        PROVE  Apache!Push(v[i - 1], text[i]) = v[i]
    <3>1. v[i - 1] \in Nat /\ v[i] \in Nat /\ text[i] \in 0..9 /\ v[i] <= Decimal(text)
      BY <2>1, <2>3, <2>4, <2>6
    <3>2. Decimal(text) \in Nat /\ LongMax \in Nat /\ v[i] = 10 * v[i - 1] + text[i]
      BY <2>1, <2>3, WidthAssumption
    <3>3. v[i] <= LongMax
      BY <2>5, <3>1, <3>2
    <3>4. text[i] \in Nat /\ 10 * v[i - 1] + text[i] <= LongMax
      BY <3>1, <3>2, <3>3
    <3>5. Apache!Push(v[i - 1], text[i]) = 10 * v[i - 1] + text[i]
      BY <3>1, <3>4, PushFits
    <3> QED
      BY <3>2, <3>5
  <2>8. v = F(v)
    <3>1. ASSUME NEW i \in 0..n
          PROVE  v[i] = F(v)[i]
      <4>1. CASE i = 0
        BY <2>3, <4>1
      <4>2. CASE i # 0
        <5>1. i \in 1..n
          BY <2>1, <4>2
        <5> QED
          BY <2>7, <5>1, <4>2
      <4> QED
        BY <4>1, <4>2
    <3>2. v = [i \in 0..n |-> v[i]]
      BY <2>3
    <3> QED
      BY <3>1, <3>2
  <2>9. c = F(c)
    <3> HIDE DEF F
    <3> QED
      BY <2>8 DEF c
  <2> DEFINE S == {i \in 0..n : c[i] = v[i]}
  <2>10. 0 \in S
    BY <2>1, <2>3, <2>9
  <2>11. ASSUME NEW i \in 1..n, i - 1 \in S
         PROVE  i \in S
    <3>1. i \in 0..n /\ i # 0
      BY <2>1
    <3>2. c[i] = Apache!Push(c[i - 1], text[i])
      BY <2>9, <3>1
    <3> QED
      BY <2>7, <2>11, <3>1, <3>2
  <2>12. \A i \in 0..n : i \in S
    <3> HIDE DEF S
    <3> QED
      BY <2>1, <2>10, <2>11, CountUp
  <2>13. c[n] = Decimal(text)
    BY <2>1, <2>3, <2>12
  <2> QED
    BY <1>3, <2>2, <2>13 DEF text
<1> QED
  BY <1>2, <1>3

(* What is left of a text after the blanks.                                *)
LEMMA BlanksDropped ==
    ASSUME NEW text \in Seq(0..Blank)
    PROVE  /\ WithoutBlanks(text) \in Seq(0..Blank)
           /\ Apache!WithoutBlanks(text) = WithoutBlanks(text)
           /\ (\A i \in DOMAIN text : text[i] # Blank) => WithoutBlanks(text) = text
<1> DEFINE kept == {i \in DOMAIN text : \A j \in 1..i : j = i \/ text[j] = Blank}
           start == {i \in kept : text[i] # Blank}
           n == Len(text)
<1>1. n \in Nat /\ DOMAIN text = 1..n
  BY LenProperties
<1>2. WithoutBlanks(text) = IF start = {} THEN <<>>
                            ELSE SubSeq(text, CHOOSE i \in start : TRUE, n)
  BY DEF WithoutBlanks
<1>3. Apache!WithoutBlanks(text) = WithoutBlanks(text)
  BY DEF WithoutBlanks, Apache!WithoutBlanks, Apache!Blank, Blank
<1> DEFINE s == CHOOSE i \in start : TRUE
<1>4. start # {} => s \in 1..n /\ s \in start
  BY <1>1
<1>5. WithoutBlanks(text) \in Seq(0..Blank)
  <2> HIDE DEF start, s, n
  <2>1. CASE start = {}
    BY <1>2, <2>1
  <2>2. CASE start # {}
    <3>1. WithoutBlanks(text) = SubSeq(text, s, n)
      BY <1>2, <2>2 DEF s
    <3>2. SubSeq(text, s, n) \in Seq(0..Blank)
      <4>1. s \in Int /\ n \in Int /\ \A i \in s..n : i \in 1..n
        BY <1>1, <1>4, <2>2
      <4>2. \A i \in s..n : text[i] \in 0..Blank
        BY <1>1, <4>1, ElementOfSeq DEF n
      <4> QED
        BY <4>1, <4>2, SubSeqProperties
    <3> QED
      BY <3>1, <3>2
  <2> QED
    BY <2>1, <2>2
<1>6. ASSUME \A i \in DOMAIN text : text[i] # Blank
      PROVE  WithoutBlanks(text) = text
  <2>1. CASE n = 0
    <3>1. text = <<>>
      BY <2>1, EmptySeq
    <3>2. start = {}
      BY <1>1, <2>1
    <3> QED
      BY <1>2, <3>1, <3>2
  <2>2. CASE n # 0
    <3>1. 1 \in start
      BY <1>1, <1>6, <2>2
    <3>2. \A i \in start : i = 1
      BY <1>1, <1>6
    <3>3. s = 1
      <4> HIDE DEF start
      <4> QED
        BY <3>1, <3>2
    <3>4. WithoutBlanks(text) = SubSeq(text, 1, n)
      <4> HIDE DEF n
      <4>1. start # {}
        BY <3>1
      <4> QED
        BY <1>2, <3>3, <4>1
    <3>5. SubSeq(text, 1, n) = text
      <4> DEFINE t == SubSeq(text, 1, n)
      <4>1. \A i \in 1..n : text[i] \in 0..Blank
        BY <1>1, ElementOfSeq
      <4> HIDE DEF n
      <4>2. 1 \in Int /\ n \in Int /\ n - 1 + 1 = n /\ (1 <= n)
        BY <1>1, <2>2
      <4>3. /\ t \in Seq(0..Blank) /\ Len(t) = n
            /\ \A i \in 1..(n - 1 + 1) : t[i] = text[1 + i - 1]
        BY <4>1, <4>2, SubSeqProperties
      <4>4. \A i \in 1..n : t[i] = text[i]
        BY <1>1, <4>2, <4>3
      <4> HIDE DEF t
      <4> QED
        BY <4>3, <4>4, SeqEqual DEF n
    <3> QED
      BY <3>4, <3>5
  <2> QED
    BY <2>1, <2>2
<1> QED
  BY <1>3, <1>5, <1>6

(* The assumptions on the widths, one by one.                              *)
LEMMA WidthFacts ==
    /\ IntMax \in Nat /\ LongMax \in Nat /\ MaxDigits \in Nat /\ DepthMax \in Nat
    /\ TimeoutMax \in Nat /\ CountMax \in Nat /\ CacheSizeMax \in Nat
    /\ TtlMax \in Nat /\ DbMax \in Nat /\ PortMax \in Nat
    /\ LongMax > 0 /\ IntMax > 0 /\ TimeoutMax > 0 /\ CacheSizeMax > 0
    /\ SizeMax \in Nat /\ SizeMax <= LongMax /\ IntMax <= LongMax
    /\ CountMax <= LongMax
    /\ 10 * DepthMax + 9 <= LongMax /\ 10 * TimeoutMax + 9 <= LongMax
    /\ 10 * PortMax + 9 <= LongMax /\ PortMax <= LongMax \div 10 - 10
    /\ 5 <= DepthMax
<1>1. /\ IntMax \in Nat /\ LongMax \in Nat /\ MaxDigits \in Nat /\ DepthMax \in Nat
      /\ TimeoutMax \in Nat /\ CountMax \in Nat /\ CacheSizeMax \in Nat
      /\ TtlMax \in Nat /\ DbMax \in Nat /\ PortMax \in Nat
      /\ LongMax > 0 /\ IntMax > 0 /\ TimeoutMax > 0 /\ CacheSizeMax > 0
  BY WidthAssumption
<1>2. SizeMax \in Nat /\ SizeMax <= LongMax
  BY <1>1 DEF SizeMax
<1>3. /\ IntMax <= LongMax /\ 10 * DepthMax + 9 <= LongMax
      /\ 10 * TimeoutMax + 9 <= LongMax /\ 10 * PortMax + 9 <= LongMax
      /\ PortMax <= LongMax \div 10 - 10 /\ 5 <= DepthMax
  BY WidthAssumption
<1>4. CountMax <= LongMax
  <2>1. TenTo(MaxDigits) \in Nat
    BY <1>1, TenToFacts
  <2>2. CountMax < TenTo(MaxDigits) /\ TenTo(MaxDigits) - 1 <= IntMax
    BY WidthAssumption
  <2> QED
    BY <1>1, <1>3, <2>1, <2>2
<1> QED
  BY <1>1, <1>2, <1>3, <1>4

(* The rows of nginx's command table whose setters read numbers.           *)
LEMMA NginxTable ==
    ASSUME NEW text
    PROVE  /\ Nginx!ngx_http_mesi_commands("maxDepth", Unset, text)
                  = Nginx!EarlyExit(text, 0, DepthMax)
           /\ Nginx!ngx_http_mesi_commands("timeout", Unset, text)
                  = Nginx!EarlyExit(text, 1, TimeoutMax)
           /\ Nginx!ngx_http_mesi_commands("maxResponseSize", Unset, text)
                  = Nginx!GuardedLoop(text, SizeMax)
           /\ Nginx!ngx_http_mesi_commands("maxBodySize", Unset, text)
                  = Nginx!GuardedLoop(text, SizeMax)
           /\ Nginx!ngx_http_mesi_commands("maxConcurrent", Unset, text)
                  = Nginx!GuardedLoop(text, CountMax)
           /\ Nginx!ngx_http_mesi_commands("maxWorkers", Unset, text)
                  = Nginx!GuardedLoop(text, CountMax)
           /\ \A d \in {"cacheSize", "cacheTtl", "redisDb"} :
                Nginx!ngx_http_mesi_commands(d, Unset, text) =
                   IF Digits(text) /\ Decimal(text) <= LongMax THEN {<<Decimal(text)>>} ELSE {}
<1> USE DEF Nginx!ngx_http_mesi_commands, Nginx!Unset, Unset, Nginx!Flags
<1>1. /\ Nginx!ngx_http_mesi_commands("maxDepth", Unset, text)
             = Nginx!EarlyExit(text, 0, DepthMax)
      /\ Nginx!ngx_http_mesi_commands("timeout", Unset, text)
             = Nginx!EarlyExit(text, 1, TimeoutMax)
  BY DEF Nginx!set_max_depth, Nginx!set_timeout
<1>2. /\ Nginx!ngx_http_mesi_commands("maxResponseSize", Unset, text)
             = Nginx!GuardedLoop(text, SizeMax)
      /\ Nginx!ngx_http_mesi_commands("maxBodySize", Unset, text)
             = Nginx!GuardedLoop(text, SizeMax)
  BY DEF Nginx!set_max_response_size, Nginx!set_max_body_size, SizeMax, Nginx!SizeMax
<1>3. /\ Nginx!ngx_http_mesi_commands("maxConcurrent", Unset, text)
             = Nginx!GuardedLoop(text, CountMax)
      /\ Nginx!ngx_http_mesi_commands("maxWorkers", Unset, text)
             = Nginx!GuardedLoop(text, CountMax)
  BY DEF Nginx!set_max_concurrent_requests, Nginx!set_max_workers
<1>4. ASSUME NEW d \in {"cacheSize", "cacheTtl", "redisDb"}
      PROVE  Nginx!ngx_http_mesi_commands(d, Unset, text) =
                IF Digits(text) /\ Decimal(text) <= LongMax THEN {<<Decimal(text)>>} ELSE {}
  <2>1. Nginx!ngx_http_mesi_commands(d, Unset, text) = Nginx!num_slot(text)
    OBVIOUS
  <2>2. Nginx!Decimal(text) = Decimal(text)
    BY DEF Nginx!Decimal, Decimal, Nginx!Loop, Loop
  <2>3. Nginx!AllDigits(text) <=> Digits(text)
    BY DEF Nginx!AllDigits, Nginx!IsDigit, Digits, IsDigit
  <2> QED
    BY <2>1, <2>2, <2>3 DEF Nginx!num_slot
<1> QED
  BY <1>1, <1>2, <1>3, <1>4

(* A text of digits means a number.                                        *)
LEMMA DigitsDecimal ==
    ASSUME NEW text \in Seq(0..Blank), Digits(text)
    PROVE  Decimal(text) \in Nat
  BY DigitText, ValuesFacts DEF Digits

(* nginx takes as a number exactly what is one.                            *)
LEMMA NginxNumbers ==
    ASSUME NEW text \in Seq(0..Blank), NEW d \in Numbers, platform = "nginx"
    PROVE  Nginx!ngx_http_mesi_commands(d, Unset, text) =
              IF IsNumber(d, text) THEN {<<Decimal(NumberOf(text))>>} ELSE {}
<1>1. NumberOf(text) = text
  BY DEF NumberOf
<1>2. IsNumber(d, text) <=> Digits(text) /\ Decimal(text) \in Bounds(d)
  BY <1>1 DEF IsNumber
<1>3. Digits(text) => Decimal(text) \in Nat
  BY DigitsDecimal
<1> DEFINE Read == Nginx!ngx_http_mesi_commands(d, Unset, text)
           Taken(B) == IF Digits(text) /\ Decimal(text) \in B THEN {<<Decimal(text)>>} ELSE {}
<1>4. SUFFICES Read = Taken(Bounds(d))
  BY <1>1, <1>2
<1>5. CASE d \in {"cacheSize", "cacheTtl", "redisDb"}
  <2>1. Read = IF Digits(text) /\ Decimal(text) <= LongMax THEN {<<Decimal(text)>>} ELSE {}
    BY <1>5, NginxTable
  <2>2. Bounds(d) = 0..LongMax
    BY <1>5 DEF Bounds, DocumentedBounds
  <2>3. Digits(text) => (Decimal(text) <= LongMax <=> Decimal(text) \in 0..LongMax)
    BY <1>3, WidthFacts
  <2> QED
    BY <2>1, <2>2, <2>3
<1>6. CASE d \in {"maxDepth", "timeout"}
  <2>1. d = "maxDepth" => Read = Taken(0..DepthMax) /\ Bounds(d) = 0..DepthMax
    BY NginxTable, EarlyExitReads, WidthFacts DEF Bounds, DocumentedBounds
  <2>2. d = "timeout" => Read = Taken(1..TimeoutMax) /\ Bounds(d) = 1..TimeoutMax
    BY NginxTable, EarlyExitReads, WidthFacts DEF Bounds, DocumentedBounds
  <2> QED
    BY <1>6, <2>1, <2>2
<1>7. CASE d \in {"maxResponseSize", "maxBodySize"}
  <2>1. Read = Nginx!GuardedLoop(text, SizeMax)
    BY <1>7, NginxTable
  <2>2. Read = IF Digits(text) /\ Decimal(text) <= SizeMax THEN {<<Decimal(text)>>} ELSE {}
    BY <2>1, GuardedLoopReads, WidthFacts
  <2>3. Bounds(d) = 0..SizeMax
    BY <1>7 DEF Bounds, DocumentedBounds
  <2>4. Digits(text) => (Decimal(text) <= SizeMax <=> Decimal(text) \in 0..SizeMax)
    BY <1>3, WidthFacts
  <2> QED
    BY <2>2, <2>3, <2>4
<1>8. CASE d \in {"maxConcurrent", "maxWorkers"}
  <2>1. Read = Nginx!GuardedLoop(text, CountMax)
    BY <1>8, NginxTable
  <2>2. Read = IF Digits(text) /\ Decimal(text) <= CountMax THEN {<<Decimal(text)>>} ELSE {}
    BY <2>1, GuardedLoopReads, WidthFacts
  <2>3. Bounds(d) = 0..CountMax
    BY <1>8 DEF Bounds, DocumentedBounds
  <2>4. Digits(text) => (Decimal(text) <= CountMax <=> Decimal(text) \in 0..CountMax)
    BY <1>3, WidthFacts
  <2> QED
    BY <2>2, <2>3, <2>4
<1> QED
  BY <1>5, <1>6, <1>7, <1>8 DEF Numbers

(* Apache too.                                                             *)
LEMMA ApacheNumbers ==
    ASSUME NEW text \in Seq(0..Blank), NEW d \in Numbers, NEW old, platform = "apache"
    PROVE  Apache!mesi_directives(d, old, text) =
              IF IsNumber(d, text) THEN {<<Decimal(NumberOf(text))>>} ELSE {}
<1> DEFINE n == NumberOf(text)
           Read == Apache!mesi_directives(d, old, text)
           Int9(min, max) == IF Digits(n) /\ Len(n) <= MaxDigits /\ Decimal(n) \in min..max
                             THEN {<<Decimal(n)>>} ELSE {}
           Off(min, max) == IF Digits(n) /\ Decimal(n) \in min..max
                            THEN {<<Decimal(n)>>} ELSE {}
<1>1. n = WithoutBlanks(text) /\ n \in Seq(0..Blank) /\ n = Apache!WithoutBlanks(text)
  BY BlanksDropped DEF NumberOf
<1>2. ASSUME NEW min \in Nat, NEW max \in Nat
      PROVE  /\ Apache!parse_nonneg_int(text, min, max) = Int9(min, max)
             /\ max <= LongMax => Apache!parse_nonneg_off(text, min, max) = Off(min, max)
  BY <1>1, IntReads, OffReads
<1>3. CASE text = <<>>
  <2>1. Apache!Take1(d) /\ Apache!EmptyWord(d, text)
    BY <1>3 DEF Apache!Take1, Apache!EmptyWord, Numbers, Apache!Numbers, Apache!Flags, Apache!Lists
  <2>2. Read = {}
    BY <2>1 DEF Apache!mesi_directives
  <2>3. n = <<>>
    <3>1. \A i \in DOMAIN text : text[i] # Blank
      BY <1>3
    <3> QED
      BY <1>1, <1>3, <3>1, BlanksDropped
  <2>4. ~Digits(n)
    BY <2>3 DEF Digits
  <2> QED
    BY <2>2, <2>4 DEF IsNumber
<1>4. CASE text # <<>>
  <2>1. ~Apache!EmptyWord(d, text)
    BY <1>4 DEF Apache!EmptyWord, Numbers, Apache!Numbers
  <2>2. /\ d = "maxDepth" => Read = Apache!parse_nonneg_int(text, 0, DepthMax)
        /\ d = "timeout" => Read = Apache!parse_nonneg_int(text, 1, TimeoutMax)
        /\ d = "maxConcurrent" => Read = Apache!parse_nonneg_int(text, 0, CountMax)
        /\ d = "maxWorkers" => Read = Apache!parse_nonneg_int(text, 0, CountMax)
        /\ d = "cacheSize" => Read = Apache!parse_nonneg_int(text, 1, CacheSizeMax)
        /\ d = "cacheTtl" => Read = Apache!parse_nonneg_int(text, 0, TtlMax)
        /\ d = "redisDb" => Read = Apache!parse_nonneg_int(text, 0, DbMax)
        /\ d = "maxResponseSize" => Read = Apache!parse_nonneg_off(text, 0, SizeMax)
        /\ d = "maxBodySize" => Read = Apache!parse_nonneg_off(text, 0, SizeMax)
    BY <2>1 DEF Apache!mesi_directives, Apache!set_max_depth, Apache!set_timeout,
                Apache!set_max_concurrent_requests, Apache!set_max_workers,
                Apache!set_cache_size, Apache!set_cache_ttl, Apache!set_cache_redis_db,
                Apache!set_max_response_size, Apache!set_max_body_size, Apache!SizeMax,
                SizeMax, Apache!Flags
  <2> HIDE DEF Read, n
  <2> DEFINE Size == {"maxResponseSize", "maxBodySize"}
  <2>3. /\ d = "maxDepth" => Bounds(d) = 0..DepthMax /\ Read = Int9(0, DepthMax)
        /\ d = "timeout" => Bounds(d) = 1..TimeoutMax /\ Read = Int9(1, TimeoutMax)
        /\ d = "maxConcurrent" => Bounds(d) = 0..CountMax /\ Read = Int9(0, CountMax)
        /\ d = "maxWorkers" => Bounds(d) = 0..CountMax /\ Read = Int9(0, CountMax)
        /\ d = "cacheSize" => Bounds(d) = 1..CacheSizeMax /\ Read = Int9(1, CacheSizeMax)
        /\ d = "cacheTtl" => Bounds(d) = 0..TtlMax /\ Read = Int9(0, TtlMax)
        /\ d = "redisDb" => Bounds(d) = 0..DbMax /\ Read = Int9(0, DbMax)
    BY <1>2, <2>2, WidthFacts DEF Bounds, DocumentedBounds
  <2>4. d \in Size => Bounds(d) = 0..SizeMax /\ Read = Off(0, SizeMax)
    BY <1>2, <2>2, WidthFacts DEF Bounds, DocumentedBounds
  <2>5. CASE d \in Size
    BY <2>4, <2>5 DEF IsNumber, n, Read
  <2>6. CASE d \notin Size
    <3>1. Read = IF Digits(n) /\ Len(n) <= MaxDigits /\ Decimal(n) \in Bounds(d)
                 THEN {<<Decimal(n)>>} ELSE {}
      BY <2>3, <2>6 DEF Numbers
    <3>2. IsNumber(d, text) <=> Digits(n) /\ Decimal(n) \in Bounds(d) /\ Len(n) <= MaxDigits
      BY <2>6 DEF IsNumber, n
    <3> QED
      BY <3>1, <3>2 DEF n, Read
  <2> QED
    BY <2>5, <2>6
<1> QED
  BY <1>3, <1>4

(* A port is a number with digits only, for Apache of at most nine.        *)
LEMMA Ports ==
    ASSUME NEW text \in Seq(0..Blank), text # <<>>
    PROVE  /\ platform = "apache" =>
                Apache!set_cache_redis_addr(text) = IF IsPort(text) THEN {text} ELSE {}
           /\ platform = "php" => (Php!parse_host_port(text) <=> IsPort(text))
<1>1. ASSUME platform = "php"
      PROVE  Php!parse_host_port(text) <=> IsPort(text)
  <2>1. Php!mesi_parse_uint_bounded(text, 1, PortMax) =
           IF Digits(text) /\ Decimal(text) \in 1..PortMax THEN {Decimal(text)} ELSE {}
    BY UintReads, WidthFacts
  <2> QED
    BY <1>1, <2>1 DEF Php!parse_host_port, IsPort
<1>2. ASSUME platform = "apache"
      PROVE  Apache!set_cache_redis_addr(text) = IF IsPort(text) THEN {text} ELSE {}
  <2>1. CASE \E i \in DOMAIN text : text[i] = Blank
    <3>1. ~Digits(text)
      BY <2>1 DEF Digits, IsDigit, Blank
    <3>2. Apache!set_cache_redis_addr(text) = {}
      BY <2>1 DEF Apache!set_cache_redis_addr, Apache!Blank, Blank
    <3> QED
      BY <1>2, <3>1, <3>2 DEF IsPort
  <2>2. CASE \A i \in DOMAIN text : text[i] # Blank
    <3>1. Apache!WithoutBlanks(text) = text
      BY <2>2, BlanksDropped
    <3>2. Apache!parse_nonneg_int_bounded(text, 1, PortMax) =
             IF Digits(text) /\ Len(text) <= MaxDigits /\ Decimal(text) \in 1..PortMax
             THEN {Decimal(text)} ELSE {}
      BY <3>1, IntReads, WidthFacts
    <3>3. Apache!set_cache_redis_addr(text) =
             {text : port \in Apache!parse_nonneg_int_bounded(text, 1, PortMax)}
      BY <2>2 DEF Apache!set_cache_redis_addr, Apache!Blank, Blank
    <3>4. IsPort(text) <=> Digits(text) /\ Len(text) <= MaxDigits /\ Decimal(text) \in 1..PortMax
      BY <1>2 DEF IsPort
    <3> QED
      BY <3>2, <3>3, <3>4
  <2> QED
    BY <2>1, <2>2
<1> QED
  BY <1>1, <1>2

----------------------------------------------------------------------------
(* What a file says.                                                       *)

(* The lines for d in scope s of the lines f, and of each beginning of f.  *)
SaidIn(f, s, d) ==
    Loop(LAMBDA said, l : IF l.scope = s /\ l.d = d THEN Append(said, l) ELSE said,
         <<>>, f)

(* The lines for d in scope s, after each line of the file f.              *)
Saying(f, s, d) ==
    CHOOSE g : g = [i \in 0..Len(f) |->
                      IF i = 0 THEN <<>>
                      ELSE IF f[i].scope = s /\ f[i].d = d THEN Append(g[i - 1], f[i])
                           ELSE g[i - 1]]

(* The lines of W that are for d in scope s.                               *)
About(W, s, d) == {l \in W : l.scope = s /\ l.d = d}

(* The loop over the lines keeps those for d in s, in their order.         *)
LEMMA SayingFacts ==
    ASSUME NEW W, NEW f \in Seq(W), NEW s, NEW d
    PROVE  /\ Saying(f, s, d) \in [0..Len(f) -> Seq(About(W, s, d))]
           /\ Saying(f, s, d)[0] = <<>>
           /\ \A i \in 1..Len(f) : Saying(f, s, d)[i] =
                IF f[i].scope = s /\ f[i].d = d THEN Append(Saying(f, s, d)[i - 1], f[i])
                ELSE Saying(f, s, d)[i - 1]
           /\ SaidIn(f, s, d) = Saying(f, s, d)[Len(f)]
<1> DEFINE n == Len(f)
           A == About(W, s, d)
           V == Seq(A)
           F(g) == [i \in 0..n |->
                      IF i = 0 THEN <<>>
                      ELSE IF f[i].scope = s /\ f[i].d = d THEN Append(g[i - 1], f[i])
                           ELSE g[i - 1]]
           step == [i \in 1..n |-> [v \in V |->
                      IF f[i].scope = s /\ f[i].d = d THEN Append(v, f[i]) ELSE v]]
           c == Saying(f, s, d)
<1>1. n \in Nat /\ \A i \in 1..n : f[i] \in W
  BY LenProperties, ElementOfSeq
<1>2. <<>> \in V
  BY EmptySeq
<1>3. SaidIn(f, s, d) = c[n]
  BY DEF SaidIn, Loop, Saying
<1>4. c = CHOOSE g : g = F(g)
  BY DEF Saying
<1> HIDE DEF n, c
<1>5. ASSUME NEW i \in 1..n, NEW v \in V
      PROVE  (IF f[i].scope = s /\ f[i].d = d THEN Append(v, f[i]) ELSE v) \in V
  <2>1. CASE f[i].scope = s /\ f[i].d = d
    <3>1. f[i] \in A
      BY <1>1, <2>1 DEF About
    <3> HIDE DEF A
    <3>2. Append(v, f[i]) \in V
      BY <3>1, AppendProperties
    <3> QED
      BY <2>1, <3>2
  <2>2. CASE ~(f[i].scope = s /\ f[i].d = d)
    BY <2>2
  <2> QED
    BY <2>1, <2>2
<1> HIDE DEF V
<1>6. PICK g \in [0..n -> V] : g[0] = <<>> /\ \A i \in 1..n : g[i] = step[i][g[i - 1]]
  <2>1. step \in [1..n -> [V -> V]]
    <3>1. \A i \in 1..n : [v \in V |->
                      IF f[i].scope = s /\ f[i].d = d THEN Append(v, f[i]) ELSE v] \in [V -> V]
      BY <1>5
    <3> QED
      BY <3>1
  <2> HIDE DEF step
  <2>2. Courses(<<>>, step, V, n) # {}
    BY <1>1, <1>2, <2>1, CourseExists
  <2> QED
    BY <2>2 DEF Courses
<1>7. ASSUME NEW i \in 1..n
      PROVE  g[i] = IF f[i].scope = s /\ f[i].d = d THEN Append(g[i - 1], f[i])
                    ELSE g[i - 1]
  <2>1. g[i - 1] \in V
    BY <1>1, <1>6
  <2>2. step[i][g[i - 1]] = IF f[i].scope = s /\ f[i].d = d THEN Append(g[i - 1], f[i])
                            ELSE g[i - 1]
    BY <2>1
  <2> HIDE DEF step
  <2> QED
    BY <1>6, <2>2
<1> HIDE DEF step
<1>8. g = F(g)
  <2>1. ASSUME NEW i \in 0..n
        PROVE  g[i] = F(g)[i]
    <3>1. CASE i = 0
      BY <1>6, <3>1
    <3>2. CASE i # 0
      <4>1. i \in 1..n
        BY <1>1, <3>2
      <4> QED
        BY <1>7, <3>2, <4>1
    <3> QED
      BY <3>1, <3>2
  <2>2. g = [i \in 0..n |-> g[i]]
    BY <1>6
  <2> QED
    BY <2>1, <2>2
<1>9. c = F(c)
  <2> HIDE DEF F
  <2> QED
    BY <1>4, <1>8
<1>10. c[0] = <<>>
  BY <1>1, <1>9
<1>11. ASSUME NEW i \in 1..n
       PROVE  c[i] = IF f[i].scope = s /\ f[i].d = d THEN Append(c[i - 1], f[i])
                     ELSE c[i - 1]
  <2>1. i \in 0..n /\ i # 0
    BY <1>1
  <2>2. c[i] = F(c)[i]
    BY <1>9
  <2> QED
    BY <2>1, <2>2
<1> DEFINE S == {i \in 0..n : c[i] \in V}
<1>12. \A i \in 0..n : i \in S
  <2>1. 0 \in S
    BY <1>1, <1>2, <1>10
  <2>2. ASSUME NEW i \in 1..n, i - 1 \in S
        PROVE  i \in S
    BY <1>1, <1>5, <1>11, <2>2
  <2> HIDE DEF S
  <2> QED
    BY <1>1, <2>1, <2>2, CountUp
<1>13. c \in [0..n -> V]
  BY <1>9, <1>12
<1> QED
  BY <1>3, <1>10, <1>11, <1>13 DEF n, c, V

(* An empty file says nothing.                                             *)
LEMMA SaidOfNothing ==
    ASSUME NEW s, NEW d
    PROVE  SaidIn(<<>>, s, d) = <<>>
<1>1. <<>> \in Seq({}) /\ Len(<<>>) = 0
  BY EmptySeq
<1>2. ASSUME NEW f \in Seq({})
      PROVE  Saying(f, s, d)[0] = <<>> /\ SaidIn(f, s, d) = Saying(f, s, d)[Len(f)]
  BY SayingFacts
<1>3. Saying(<<>>, s, d)[0] = <<>> /\ SaidIn(<<>>, s, d) = Saying(<<>>, s, d)[Len(<<>>)]
  BY <1>1, <1>2
<1> QED
  BY <1>1, <1>3

(* A line more is a line more for its directive in its scope.              *)
LEMMA SaidAppend ==
    ASSUME NEW W, NEW f \in Seq(W), NEW l \in W, NEW s, NEW d
    PROVE  /\ SaidIn(f, s, d) \in Seq(About(W, s, d))
           /\ SaidIn(Append(f, l), s, d) =
                IF l.scope = s /\ l.d = d THEN Append(SaidIn(f, s, d), l)
                ELSE SaidIn(f, s, d)
<1> DEFINE n == Len(f)
           h == Append(f, l)
           c == Saying(f, s, d)
           e == Saying(h, s, d)
           S == {i \in 0..n : c[i] = e[i]}
<1>1. n \in Nat /\ h \in Seq(W) /\ Len(h) = n + 1 /\ h[n + 1] = l
      /\ \A i \in 1..n : h[i] = f[i]
  BY AppendProperties, LenProperties
<1>2. /\ c \in [0..n -> Seq(About(W, s, d))] /\ c[0] = <<>>
      /\ \A i \in 1..n : c[i] = IF f[i].scope = s /\ f[i].d = d
                                THEN Append(c[i - 1], f[i]) ELSE c[i - 1]
      /\ SaidIn(f, s, d) = c[n]
  BY SayingFacts
<1>3. /\ e[0] = <<>>
      /\ \A i \in 1..(n + 1) : e[i] = IF h[i].scope = s /\ h[i].d = d
                                      THEN Append(e[i - 1], h[i]) ELSE e[i - 1]
      /\ SaidIn(h, s, d) = e[n + 1]
  <2> HIDE DEF h
  <2>1. Len(h) = n + 1
    BY <1>1
  <2> HIDE DEF n
  <2> QED
    BY <1>1, <2>1, SayingFacts
<1> HIDE DEF n, h, c, e
<1>4. 0 \in S
  BY <1>1, <1>2, <1>3
<1>5. ASSUME NEW i \in 1..n, i - 1 \in S
      PROVE  i \in S
  <2>1. i \in 1..(n + 1) /\ i \in 0..n /\ h[i] = f[i] /\ c[i - 1] = e[i - 1]
    BY <1>1, <1>5
  <2>2. c[i] = e[i]
    BY <1>2, <1>3, <2>1
  <2> QED
    BY <2>1, <2>2
<1>6. \A i \in 0..n : i \in S
  <2> HIDE DEF S
  <2> QED
    BY <1>1, <1>4, <1>5, CountUp
<1>7. c[n] = e[n]
  BY <1>1, <1>6
<1>8. e[n + 1] = IF l.scope = s /\ l.d = d THEN Append(e[n], l) ELSE e[n]
  <2>1. n + 1 \in 1..(n + 1) /\ (n + 1) - 1 = n
    BY <1>1
  <2>2. e[n + 1] = IF h[n + 1].scope = s /\ h[n + 1].d = d
                   THEN Append(e[(n + 1) - 1], h[n + 1]) ELSE e[(n + 1) - 1]
    BY <1>3, <2>1
  <2> QED
    BY <1>1, <2>1, <2>2
<1>9. c[n] \in Seq(About(W, s, d))
  BY <1>1, <1>2
<1> QED
  BY <1>2, <1>3, <1>7, <1>8, <1>9 DEF h

----------------------------------------------------------------------------
(* What one line means, and what a setter makes of it.                     *)

(* What one line means.                                                    *)
ArgMeaning(d, arg) ==
    IF d \in Numbers THEN IF platform = "php" THEN arg ELSE <<Decimal(NumberOf(arg))>>
    ELSE IF d = "redisAddr" THEN IF arg = <<>> THEN DefaultAddr ELSE arg
    ELSE IF d \in Flags THEN <<IF arg = "off" THEN 0 ELSE 1>>
    ELSE IF d = "template" THEN <<IF platform = "apache" /\ arg = "doubled" THEN "keyed"
                                  ELSE arg>>
    ELSE <<arg>>

(* A number that is none, or an address without a port.                    *)
Flawed(d, arg) == \/ d \in Numbers /\ ~IsNumber(d, arg)
                  \/ d = "redisAddr" /\ ~IsPort(arg)

(* A plain line, by its directive and its argument.                        *)
PlainArg(d, arg) ==
    d \in Numbers \union {"redisAddr"} \/
    arg \notin {"", "blank", "quoted", "bad", "cut", "doubled", "type", "one", "disk"}

(* A number, or a port, is written as a text.                              *)
LEMMA WrittenTexts ==
    ASSUME topic \in Topics, NEW d \in Numbers \union {"redisAddr"}, NEW arg \in Writable(d)
    PROVE  platform # "php" \/ d = "redisAddr" => arg \in Seq(0..Blank)
<1>1. Texts \subseteq Seq(0..Blank) /\ SomeTexts \subseteq Seq(0..Blank)
  BY TopicAssumption
<1>2. CASE d = "redisAddr"
  BY <1>1, <1>2 DEF Writable, Numbers, Flags, WritableNumbers
<1>3. CASE d \in Numbers
  <2>1. Writable(d) = WritableNumbers(d)
    BY <1>3 DEF Writable, Numbers, Flags
  <2>2. d # "redisAddr"
    BY <1>3 DEF Numbers
  <2> QED
    BY <1>1, <2>1, <2>2 DEF WritableNumbers
<1> QED
  BY <1>2, <1>3

(* No text is mistaken for the default address, nor for an empty one.      *)
LEMMA NoTextIsDefault ==
    ASSUME NEW text \in Seq(0..Blank)
    PROVE  text # DefaultAddr /\ text # EmptyText("redisAddr")
<1>1. \A i \in 1..Len(text) : text[i] >= 0
  <2>1. \A i \in 1..Len(text) : text[i] \in 0..11
    BY ElementOfSeq DEF Blank
  <2> QED
    BY <2>1
<1> QED
  BY <1>1 DEF DefaultAddr, EmptyText

(* nginx stores what a line means, an empty address as an empty text.      *)
NginxStored(d, m) == IF d = "redisAddr" /\ m = DefaultAddr THEN EmptyText(d) ELSE m

(* nginx stores what a line means, and refuses nothing else than numbers   *)
(* that are none.                                                          *)
LEMMA NginxLine ==
    ASSUME platform = "nginx", topic \in Topics, NEW d \in Available, NEW arg \in Writable(d)
    PROVE  LET Read == Nginx!ngx_http_mesi_commands(d, Unset, arg)
           IN /\ \A v \in Read : v = NginxStored(d, ArgMeaning(d, arg)) /\ ~Flawed(d, arg)
              /\ Read = {} /\ PlainArg(d, arg) => Flawed(d, arg)
              /\ ArgMeaning(d, arg) # Unset /\ NginxStored(d, ArgMeaning(d, arg)) # Unset
<1> DEFINE Read == Nginx!ngx_http_mesi_commands(d, Unset, arg)
<1>1. IsPort(arg)
  BY DEF IsPort
<1>2. CASE d \in Numbers
  <2>1. d # "redisAddr"
    BY <1>2 DEF Numbers
  <2>2. arg \in Seq(0..Blank)
    BY <1>2, WrittenTexts
  <2>3. Read = IF IsNumber(d, arg) THEN {<<Decimal(NumberOf(arg))>>} ELSE {}
    BY <1>2, <2>2, NginxNumbers
  <2>4. ArgMeaning(d, arg) = <<Decimal(NumberOf(arg))>>
    BY <1>2 DEF ArgMeaning
  <2>5. NginxStored(d, ArgMeaning(d, arg)) = ArgMeaning(d, arg)
    BY <2>1 DEF NginxStored
  <2>6. ArgMeaning(d, arg) # Unset
    BY <2>4 DEF Unset
  <2> HIDE DEF Read
  <2>7. \A v \in Read : v = ArgMeaning(d, arg) /\ IsNumber(d, arg)
    BY <2>3, <2>4
  <2>8. Read = {} => ~IsNumber(d, arg)
    BY <2>3
  <2> QED
    BY <1>2, <2>1, <2>5, <2>6, <2>7, <2>8 DEF Flawed, Read
<1>3. CASE d = "redisAddr"
  <2>1. arg \in Seq(0..Blank)
    BY <1>3, WrittenTexts
  <2>2. Read = {IF arg = <<>> THEN EmptyText(d) ELSE arg}
    BY <1>3 DEF Nginx!ngx_http_mesi_commands, Nginx!Unset, Unset, Nginx!Flags, Nginx!str_slot,
                Nginx!EmptyText, EmptyText
  <2>3. d \notin Numbers
    BY <1>3 DEF Numbers
  <2>4. ArgMeaning(d, arg) = IF arg = <<>> THEN DefaultAddr ELSE arg
    BY <1>3, <2>3 DEF ArgMeaning
  <2>5. arg # DefaultAddr
    BY <2>1, NoTextIsDefault
  <2>6. NginxStored(d, ArgMeaning(d, arg)) = IF arg = <<>> THEN EmptyText(d) ELSE arg
    BY <1>3, <2>4, <2>5 DEF NginxStored
  <2>7. EmptyText(d) # Unset /\ DefaultAddr # Unset
    BY <1>3 DEF EmptyText, Unset, DefaultAddr
  <2> HIDE DEF Read
  <2>8. ~Flawed(d, arg)
    BY <1>1, <2>3 DEF Flawed
  <2>9. Read # {} /\ \A v \in Read : v = NginxStored(d, ArgMeaning(d, arg))
    BY <2>2, <2>6
  <2>10. ArgMeaning(d, arg) # Unset /\ NginxStored(d, ArgMeaning(d, arg)) # Unset
    BY <2>4, <2>6, <2>7 DEF Unset
  <2> QED
    BY <2>8, <2>9, <2>10 DEF Read
<1>4. CASE d \notin Numbers \union {"redisAddr"}
  <2>1. ~Flawed(d, arg)
    BY <1>4 DEF Flawed
  <2>2. NginxStored(d, ArgMeaning(d, arg)) = ArgMeaning(d, arg)
    BY <1>4 DEF NginxStored
  <2>3. CASE d \in Flags
    <3>1. Read = IF arg = "on" THEN {<<1>>} ELSE IF arg = "off" THEN {<<0>>} ELSE {}
      BY <1>4, <2>3 DEF Nginx!ngx_http_mesi_commands, Nginx!Unset, Unset, Nginx!Flags,
                        Nginx!flag_slot, Flags
    <3>2. ArgMeaning(d, arg) = <<IF arg = "off" THEN 0 ELSE 1>>
      BY <1>4, <2>3 DEF ArgMeaning
    <3>3. arg \in {"on", "off", "bad"}
      BY <1>4, <2>3 DEF Writable, Flags
    <3> HIDE DEF Read
    <3>4. /\ \A v \in Read : v = ArgMeaning(d, arg)
          /\ ArgMeaning(d, arg) # Unset
          /\ Read = {} => arg = "bad"
      BY <3>1, <3>2, <3>3 DEF Unset
    <3>5. Read = {} => ~PlainArg(d, arg)
      BY <1>4, <3>4 DEF PlainArg
    <3> QED
      BY <2>1, <2>2, <3>4, <3>5 DEF Read
  <2>4. CASE d = "onOversize"
    <3>1. Read = IF arg \in {"pass", "error"} THEN {<<arg>>} ELSE {}
      BY <1>4, <2>4 DEF Nginx!ngx_http_mesi_commands, Nginx!Unset, Unset, Nginx!Flags,
                        Nginx!enum_slot
    <3>2. ArgMeaning(d, arg) = <<arg>>
      BY <1>4, <2>4 DEF ArgMeaning, Flags
    <3>3. arg \in {"pass", "error", "bad"}
      BY <1>4, <2>4 DEF Writable, Flags
    <3> HIDE DEF Read
    <3>4. /\ \A v \in Read : v = ArgMeaning(d, arg)
          /\ ArgMeaning(d, arg) # Unset
          /\ Read = {} => arg = "bad"
      BY <3>1, <3>2, <3>3 DEF Unset
    <3>5. Read = {} => ~PlainArg(d, arg)
      BY <1>4, <3>4 DEF PlainArg
    <3> QED
      BY <2>1, <2>2, <3>4, <3>5 DEF Read
  <2>5. CASE d \notin Flags \union {"onOversize"}
    <3>1. Read = {<<arg>>}
      BY <1>4, <2>5 DEF Nginx!ngx_http_mesi_commands, Nginx!Unset, Unset, Nginx!Flags,
                        Nginx!str_slot, Flags, Numbers
    <3>2. ArgMeaning(d, arg) = <<arg>>
      BY <1>4, <2>5 DEF ArgMeaning
    <3>3. ArgMeaning(d, arg) # Unset
      BY <3>2 DEF Unset
    <3> HIDE DEF Read
    <3>4. Read # {} /\ \A v \in Read : v = ArgMeaning(d, arg)
      BY <3>1, <3>2
    <3> QED
      BY <2>1, <2>2, <3>3, <3>4 DEF Read
  <2> QED
    BY <2>3, <2>4, <2>5
<1> QED
  BY <1>2, <1>3, <1>4

(* So does Apache, which adds up lists and takes no empty word.            *)
LEMMA ApacheLine ==
    ASSUME platform = "apache", topic \in Topics, NEW d \in Available, NEW arg \in Writable(d),
           NEW old
    PROVE  LET Read == Apache!mesi_directives(d, old, arg)
           IN /\ \A v \in Read :
                   /\ v = IF d \in Lists THEN Append(old, arg)
                          ELSE ArgMeaning(d, arg)
                   /\ ~Flawed(d, arg)
                   /\ d \in {"redisPassword", "template", "backend"} => arg # ""
                   /\ d \in Flags => arg \in {"on", "off"}
              /\ Read = {} /\ PlainArg(d, arg) => Flawed(d, arg)
              /\ d \in Lists \/ Read = {} \/ ArgMeaning(d, arg) # Unset
<1> DEFINE Read == Apache!mesi_directives(d, old, arg)
<1>1. CASE d \in Numbers
  <2>1. d \notin Lists \union Flags \union {"redisAddr", "redisPassword", "template", "backend"}
    BY <1>1 DEF Numbers, Lists, Flags
  <2>2. arg \in Seq(0..Blank)
    BY <1>1, WrittenTexts
  <2>3. Read = IF IsNumber(d, arg) THEN {<<Decimal(NumberOf(arg))>>} ELSE {}
    BY <1>1, <2>2, ApacheNumbers
  <2>4. ArgMeaning(d, arg) = <<Decimal(NumberOf(arg))>>
    BY <1>1 DEF ArgMeaning
  <2>5. ArgMeaning(d, arg) # Unset
    BY <2>4 DEF Unset
  <2> HIDE DEF Read
  <2>6. \A v \in Read : v = ArgMeaning(d, arg) /\ IsNumber(d, arg)
    BY <2>3, <2>4
  <2>7. Read = {} => ~IsNumber(d, arg)
    BY <2>3
  <2> QED
    BY <1>1, <2>1, <2>5, <2>6, <2>7 DEF Flawed, Read
<1>2. CASE d = "redisAddr"
  <2>1. arg \in Seq(0..Blank)
    BY <1>2, WrittenTexts
  <2>2. d \notin Lists \union Flags \union Numbers
    BY <1>2 DEF Numbers, Lists, Flags
  <2>3. CASE arg = <<>>
    <3>1. Read = {}
      BY <1>2, <2>3 DEF Apache!mesi_directives, Apache!Take1, Apache!EmptyWord, Apache!Flags,
                        Apache!Lists
    <3>2. ~IsPort(arg)
      BY <2>3 DEF IsPort, Digits
    <3> QED
      BY <1>2, <3>1, <3>2 DEF Flawed
  <2>4. CASE arg # <<>>
    <3>1. Read = Apache!set_cache_redis_addr(arg)
      BY <1>2, <2>4 DEF Apache!mesi_directives, Apache!EmptyWord, Apache!Flags
    <3>2. Read = IF IsPort(arg) THEN {arg} ELSE {}
      BY <2>1, <2>4, <3>1, Ports
    <3>3. ArgMeaning(d, arg) = arg
      BY <1>2, <2>2, <2>4 DEF ArgMeaning
    <3> HIDE DEF Read
    <3>4. \A v \in Read : v = ArgMeaning(d, arg) /\ IsPort(arg)
      BY <3>2, <3>3
    <3>5. Read = {} => ~IsPort(arg)
      BY <3>2
    <3>6. ArgMeaning(d, arg) # Unset
      BY <2>4, <3>3 DEF Unset
    <3> QED
      BY <1>2, <2>2, <3>4, <3>5, <3>6 DEF Flawed, Read
  <2> QED
    BY <2>3, <2>4
<1>3. CASE d \notin Numbers \union {"redisAddr"}
  <2>1. ~Flawed(d, arg)
    BY <1>3 DEF Flawed
  <2>2. PlainArg(d, arg)
            <=> arg \notin {"", "blank", "quoted", "bad", "cut", "doubled", "type", "one", "disk"}
    BY <1>3 DEF PlainArg
  <2>3. CASE d \in Flags
    <3>1. Read = IF arg = "bad" THEN {} ELSE {<<IF arg = "on" THEN 1 ELSE 0>>}
      BY <1>3, <2>3 DEF Apache!mesi_directives, Apache!Take1, Apache!Flags, Flags,
                        Apache!set_enable_mesi, Apache!set_flag
    <3>2. ArgMeaning(d, arg) = <<IF arg = "off" THEN 0 ELSE 1>>
      BY <1>3, <2>3 DEF ArgMeaning
    <3>3. arg \in {"on", "off", "bad"}
      BY <1>3, <2>3 DEF Writable, Flags
    <3>4. d \notin Lists \union {"redisPassword", "template", "backend"}
      BY <2>3 DEF Lists, Flags
    <3> HIDE DEF Read
    <3>5. /\ \A v \in Read : v = ArgMeaning(d, arg) /\ arg \in {"on", "off"}
          /\ ArgMeaning(d, arg) # Unset
          /\ Read = {} => arg = "bad"
      BY <3>1, <3>2, <3>3 DEF Unset
    <3>6. Read = {} => ~PlainArg(d, arg)
      BY <2>2, <3>5
    <3> QED
      BY <2>1, <3>4, <3>5, <3>6 DEF Read
  <2>4. CASE d \in Lists
    <3>1. Read = IF arg \in {"", "blank", "quoted"} \/ (d = "servers" /\ arg = "bad") THEN {}
                 ELSE {Append(old, arg)}
      BY <1>3, <2>4 DEF Apache!mesi_directives, Apache!Take1, Apache!Flags, Apache!Lists, Lists,
                        Apache!set_allowed_hosts, Apache!set_cache_memcached_servers
    <3>2. d \notin Flags \union {"redisPassword", "template", "backend"}
      BY <2>4 DEF Lists, Flags
    <3> HIDE DEF Read
    <3>3. /\ \A v \in Read : v = Append(old, arg)
          /\ Read = {} => arg \in {"", "blank", "quoted", "bad"}
      BY <3>1
    <3>4. Read = {} => ~PlainArg(d, arg)
      BY <2>2, <3>3
    <3> QED
      BY <2>1, <2>4, <3>2, <3>3, <3>4 DEF Read
  <2>5. CASE d \in {"marker", "onOversize", "backend", "redisPassword", "template"}
    <3>1. d \notin Lists \union Flags
      BY <2>5 DEF Lists, Flags
    <3>2. ArgMeaning(d, arg) = <<IF d = "template" /\ arg = "doubled" THEN "keyed" ELSE arg>>
      BY <1>3, <3>1 DEF ArgMeaning
    <3>3. ArgMeaning(d, arg) # Unset
      BY <3>2 DEF Unset
    <3>4. Read = IF d # "marker" /\ arg = "" THEN {}
                 ELSE IF d = "marker" THEN IF arg \in {"blank", "bad"} THEN {} ELSE {<<arg>>}
                 ELSE IF d = "onOversize" THEN IF arg \in {"pass", "error"} THEN {<<arg>>} ELSE {}
                 ELSE IF d = "backend" THEN IF arg \in Backends \union {""} THEN {<<arg>>} ELSE {}
                 ELSE IF d = "redisPassword" THEN IF arg = "bad" THEN {} ELSE {<<arg>>}
                 ELSE IF arg \in {"bad", "cut"} THEN {}
                 ELSE {<<IF arg = "doubled" THEN "keyed" ELSE arg>>}
      BY <1>3, <2>5 DEF Apache!mesi_directives, Apache!Take1, Apache!EmptyWord, Apache!Flags,
                        Apache!Lists, Apache!Numbers, Apache!set_include_error_marker,
                        Apache!set_on_oversize, Apache!set_cache_backend, Apache!Backends,
                        Backends, Apache!set_cache_redis_password,
                        Apache!set_cache_key_template
    <3>5. /\ d = "onOversize" => arg \in {"pass", "error", "bad"}
          /\ d = "backend" => arg \in Backends \union {"", "disk"}
      BY DEF Writable, Numbers, Flags
    <3> HIDE DEF Read
    <3>6. \A v \in Read : v = ArgMeaning(d, arg)
      BY <2>5, <3>2, <3>4
    <3>7. Read # {} => d = "marker" \/ arg # ""
      BY <3>4
    <3>8. Read = {} => ~PlainArg(d, arg)
      BY <2>2, <2>5, <3>4, <3>5
    <3> QED
      BY <2>1, <2>5, <3>1, <3>3, <3>6, <3>7, <3>8 DEF Read
  <2>6. d \in Flags \union Lists
            \union {"marker", "onOversize", "backend", "redisPassword", "template"}
    BY <1>3 DEF Available, Directives, Words
  <2> QED
    BY <2>3, <2>4, <2>5, <2>6
<1> QED
  BY <1>1, <1>2, <1>3

(* An option that the checks of a call do not let through.                 *)
PhpFlawed(d, arg, backend) ==
    \/ d \in Numbers /\ (arg = <<>> \/ arg[1] \notin Bounds(d))
    \/ d = "redisAddr" /\ ~IsPort(arg)
    \/ d \in {"redisAddr", "redisPassword", "redisDb"} /\ backend # <<"redis">>
    \/ d = "servers" /\ backend # <<"memcached">>

(* What PHP leaves of an option is what it means.                          *)
LEMMA PhpOption ==
    ASSUME platform = "php", topic \in Topics, NEW d \in Available, NEW arg \in Writable(d),
           NEW backend
    PROVE  LET Left == Php!Option(d, backend, arg)
           IN /\ \A v \in Left :
                   /\ v = IF d = "template" /\ arg = "" THEN Unset ELSE ArgMeaning(d, arg)
                   /\ ~PhpFlawed(d, arg, backend)
                   /\ d \in Flags => arg \in {"on", "one", "off"}
                   /\ d = "backend" => arg \in Backends \union {""}
              /\ Left = {} /\ PlainArg(d, arg) => PhpFlawed(d, arg, backend)
              /\ Left = {} \/ ArgMeaning(d, arg) # Unset
<1> DEFINE Left == Php!Option(d, backend, arg)
<1>1. CASE d \in Numbers
  <2>1. d \notin Flags \union {"redisAddr", "redisPassword", "servers", "template", "backend"}
    BY <1>1 DEF Numbers, Flags
  <2>2. Left = IF arg # <<>> /\ arg[1] \in Bounds(d) /\ (d = "redisDb" => backend = <<"redis">>)
               THEN {arg} ELSE {}
    <3>1. CASE d = "maxDepth"
      <4>1. arg # <<>>
        <5>1. Writable(d) = WritableNumbers(d)
          BY <1>1, <3>1 DEF Writable, Flags
        <5>2. WritableNumbers(d) = IF topic.all THEN {<<n>> : n \in -1..LongMax} \union {}
                                   ELSE {<<n>> : n \in {0, 2, 15}}
          BY <3>1 DEF WritableNumbers
        <5>3. \E n : arg = <<n>>
          BY <5>1, <5>2
        <5> QED
          BY <5>3
      <4> QED
        BY <3>1, <4>1 DEF Php!Option, Php!mesi_reject_max_depth,
                          Bounds, DocumentedBounds
    <3>2. CASE d = "redisDb"
      BY <3>2 DEF Php!Option, Php!cache_redis_db, Php!Long,
                  Bounds, DocumentedBounds
    <3>3. CASE d \in {"timeout", "maxResponseSize", "maxBodySize"}
      BY <3>3 DEF Php!Option, Php!timeout, Php!max_response_size, Php!max_body_size, Php!Long,
                  Bounds, DocumentedBounds, Php!SizeMax, SizeMax
    <3>4. CASE d \in {"maxConcurrent", "maxWorkers", "cacheSize", "cacheTtl"}
      BY <3>4 DEF Php!Option, Php!max_concurrent_requests, Php!max_workers, Php!cache_size,
                  Php!cache_ttl, Php!Long, Bounds, DocumentedBounds
    <3> QED
      BY <1>1, <3>1, <3>2, <3>3, <3>4 DEF Numbers
  <2>3. ArgMeaning(d, arg) = arg
    BY <1>1 DEF ArgMeaning
  <2> HIDE DEF Left
  <2>4. PhpFlawed(d, arg, backend) <=>
           ~(arg # <<>> /\ arg[1] \in Bounds(d) /\ (d = "redisDb" => backend = <<"redis">>))
    BY <1>1, <2>1 DEF PhpFlawed
  <2>5. \A v \in Left : v = arg /\ ~PhpFlawed(d, arg, backend)
    BY <2>2, <2>4
  <2>6. Left = {} => PhpFlawed(d, arg, backend)
    BY <2>2, <2>4
  <2>7. Left = {} \/ ArgMeaning(d, arg) # Unset
    BY <2>2, <2>3 DEF Unset
  <2> QED
    BY <2>1, <2>3, <2>5, <2>6, <2>7 DEF Left
<1>2. CASE d = "redisAddr"
  <2>1. d \notin Flags \union Numbers
    BY <1>2 DEF Numbers, Flags
  <2>2. arg \in Seq(0..Blank)
    BY <1>2, WrittenTexts
  <2>3. Php!parse_host_port(arg) <=> IsPort(arg)
    <3>1. CASE arg = <<>>
      <4>1. ~Php!parse_host_port(arg)
        BY <3>1 DEF Php!parse_host_port, Php!mesi_parse_uint_bounded
      <4> QED
        BY <3>1, <4>1 DEF IsPort, Digits
    <3>2. CASE arg # <<>>
      BY <2>2, <3>2, Ports
    <3> QED
      BY <3>1, <3>2
  <2>4. Left = IF backend = <<"redis">> /\ IsPort(arg) THEN {arg} ELSE {}
    BY <1>2, <2>3 DEF Php!Option, Php!cache_redis_addr
  <2>5. PhpFlawed(d, arg, backend) <=> ~(backend = <<"redis">> /\ IsPort(arg))
    BY <1>2, <2>1 DEF PhpFlawed
  <2>6. arg # <<>> => ArgMeaning(d, arg) = arg
    BY <1>2, <2>1 DEF ArgMeaning
  <2>7. IsPort(arg) => arg # <<>>
    BY DEF IsPort, Digits
  <2> HIDE DEF Left
  <2>8. \A v \in Left : v = ArgMeaning(d, arg) /\ ~PhpFlawed(d, arg, backend)
    BY <2>4, <2>5, <2>6, <2>7
  <2>9. Left = {} => PhpFlawed(d, arg, backend)
    BY <2>4, <2>5
  <2>10. Left = {} \/ ArgMeaning(d, arg) # Unset
    BY <2>4, <2>6, <2>7 DEF Unset
  <2> QED
    BY <1>2, <2>1, <2>8, <2>9, <2>10 DEF Left
<1>3. CASE d \notin Numbers \union {"redisAddr"}
  <2>1. PlainArg(d, arg)
            <=> arg \notin {"", "blank", "quoted", "bad", "cut", "doubled", "type", "one", "disk"}
    BY <1>3 DEF PlainArg
  <2>2. CASE d \in Flags
    <3>1. d \in {"block", "bypass", "shared", "debug"}
      BY <2>2 DEF Flags, Available
    <3>2. Left = IF arg = "on" \/ (arg = "one" /\ d # "debug") THEN {<<1>>}
                 ELSE IF arg = "off" THEN {<<0>>} ELSE {}
      BY <3>1 DEF Php!Option, Php!block_private_ips, Php!shared_http_client, Php!debug,
                  Php!allow_private_ips_for_allowed_hosts, Php!BoolOrLong
    <3>3. ArgMeaning(d, arg) = <<IF arg = "off" THEN 0 ELSE 1>>
      BY <1>3, <2>2 DEF ArgMeaning
    <3>4. arg \in {"on", "off", "one", "type"}
      BY <1>3, <2>2 DEF Writable, Flags
    <3>5. ~PhpFlawed(d, arg, backend)
      BY <1>3, <3>1 DEF PhpFlawed
    <3> HIDE DEF Left
    <3>6. /\ \A v \in Left : v = ArgMeaning(d, arg) /\ arg \in {"on", "one", "off"}
          /\ ArgMeaning(d, arg) # Unset
          /\ Left = {} => arg \in {"one", "type"}
      BY <3>2, <3>3, <3>4 DEF Unset
    <3>7. Left = {} => ~PlainArg(d, arg)
      BY <2>1, <3>6
    <3> QED
      BY <3>1, <3>5, <3>6, <3>7 DEF Left
  <2>3. CASE d \notin Flags
    <3>1. d \in {"backend", "redisPassword", "servers", "allowedHosts", "template", "headers",
                 "cookies", "onOversize", "marker"}
      BY <1>3, <2>3 DEF Available, Directives, Lists, Words, Contexts
    <3>2. ArgMeaning(d, arg) = <<arg>>
      BY <1>3, <2>3 DEF ArgMeaning
    <3>3. ArgMeaning(d, arg) # Unset
      BY <3>2 DEF Unset
    <3> DEFINE Safe == arg \notin {"blank", "quoted", "bad", "type"}
               Kept1 == IF d = "backend" THEN arg \in Backends \union {""}
                        ELSE IF d = "redisPassword" THEN backend = <<"redis">> /\ Safe
                        ELSE IF d = "servers"
                             THEN backend = <<"memcached">> /\ arg # "" /\ Safe
                        ELSE IF d = "allowedHosts" THEN arg \notin {"blank", "bad", "type"}
                        ELSE IF d = "template" THEN arg = "" \/ Safe
                        ELSE IF d = "headers" THEN Safe
                        ELSE IF d = "cookies" THEN arg \notin {"quoted", "bad", "type"}
                        ELSE IF d = "onOversize" THEN arg \in {"pass", "error"}
                        ELSE arg \notin {"bad", "type"}
    <3>4. Left = IF Kept1 THEN {IF d = "template" /\ arg = "" THEN Unset ELSE <<arg>>} ELSE {}
      <4>1. CASE d \in {"backend", "redisPassword", "servers", "allowedHosts"}
        BY <4>1 DEF Php!Option, Php!cache_backend, Php!Backends, Backends,
                    Php!cache_redis_password, Php!mesi_is_safe_string,
                    Php!cache_memcached_servers, Php!allowed_hosts
      <4>2. CASE d = "template"
        BY <4>2 DEF Php!Option, Php!cache_key_template, Php!Unset, Unset,
                    Php!mesi_is_safe_string
      <4>3. CASE d \in {"headers", "cookies", "onOversize", "marker"}
        BY <4>3 DEF Php!Option, Php!request_headers, Php!mesi_is_safe_string,
                    Php!request_cookies, Php!mesi_is_safe_cookie_value, Php!on_oversize,
                    Php!include_error_marker
      <4> QED
        BY <3>1, <4>1, <4>2, <4>3
    <3>5. PhpFlawed(d, arg, backend) <=> \/ d = "redisPassword" /\ backend # <<"redis">>
                                         \/ d = "servers" /\ backend # <<"memcached">>
      BY <1>3, <3>1 DEF PhpFlawed, Numbers
    <3>6. /\ d = "backend" => arg \in Backends \union {"", "disk"}
          /\ d = "onOversize" => arg \in {"pass", "error", "bad"}
      BY DEF Writable, Numbers, Flags
    <3> HIDE DEF Left
    <3>7. \A v \in Left : v = IF d = "template" /\ arg = "" THEN Unset ELSE ArgMeaning(d, arg)
      BY <3>2, <3>4
    <3>8. Left # {} => Kept1
      BY <3>4
    <3>9. Left = {} => ~Kept1
      BY <3>4
    <3>10. Left # {}
               => ~PhpFlawed(d, arg, backend) /\ (d = "backend" => arg \in Backends \union {""})
      BY <3>5, <3>8
    <3>11. Left = {} /\ PlainArg(d, arg) => PhpFlawed(d, arg, backend)
      BY <2>1, <3>1, <3>5, <3>6, <3>9
    <3> QED
      BY <2>3, <3>3, <3>7, <3>10, <3>11 DEF Left
  <2> QED
    BY <2>2, <2>3
<1> QED
  BY <1>1, <1>2, <1>3

----------------------------------------------------------------------------
(* What the lines read so far leave in a scope.                            *)

(* The scopes a line can be in.                                            *)
LineScopes == {"outer", "inner"}

(* The lines there can be, and those a setter takes.                       *)
Lines ==
    {l \in [scope : LineScopes, d : Directives,
            arg : UNION {Writable(d) : d \in Directives}] :
        l.scope \in Scopes /\ l.d \in Available /\ l.arg \in Writable(l.d)}

(* A line that a setter takes.                                             *)
Good(l) ==
    /\ platform # "php" => ~Flawed(l.d, l.arg)
    /\ platform = "apache" =>
          /\ l.d \in {"redisPassword", "template", "backend"} => l.arg # ""
          /\ l.d \in Flags => l.arg \in {"on", "off"}

(* The lines that are taken.                                               *)
GoodLines == {l \in Lines : Good(l)}

(* What a scope holds before its first line.                               *)
NewConf == IF platform = "apache" THEN Apache!create_server_config
           ELSE Nginx!create_loc_conf

(* What the lines for d leave in a scope.                                  *)
StoredOf(said, d) ==
    IF said = <<>> THEN NewConf[d]
    ELSE IF platform = "php" THEN <<said[Len(said)].arg>>
    ELSE IF platform = "nginx" THEN NginxStored(d, ArgMeaning(d, said[Len(said)].arg))
    ELSE IF d \in Lists THEN [i \in DOMAIN said |-> said[i].arg]
    ELSE ArgMeaning(d, said[Len(said)].arg)

(* Nothing, except for the two settings Apache starts with.                *)
LEMMA NewConfIs ==
    /\ NewConf = [d \in Directives |-> NewConf[d]]
    /\ \A d \in Directives : NewConf[d] =
          IF platform = "apache" /\ d = "enable" THEN <<0>>
          ELSE IF platform = "apache" /\ d = "backend" THEN <<"">> ELSE Unset
  BY DEF NewConf, Nginx!create_loc_conf, Apache!create_server_config, Nginx!Directives,
         Apache!Directives, Directives, Nginx!Unset, Apache!Unset, Unset, Numbers, Flags, Lists,
         Words, Contexts, Nginx!Numbers, Nginx!Flags, Nginx!Lists, Nginx!Words, Nginx!Contexts,
         Apache!Numbers, Apache!Flags, Apache!Lists, Apache!Words, Apache!Contexts

(* What is said is said by the file.                                       *)
LEMMA SaidIs ==
    ASSUME NEW s, NEW d
    PROVE  Said(s, d) = SaidIn(file, s, d)
  BY DEF Said, SaidIn

(* A line said is a line of the file.                                      *)
LEMMA SaidFromFile ==
    ASSUME NEW W, file \in Seq(W), NEW s, NEW d
    PROVE  /\ Said(s, d) \in Seq(About(W, s, d))
           /\ \A k \in 1..Len(Said(s, d)) :
                 /\ Said(s, d)[k] \in About(W, s, d)
                 /\ \E i \in DOMAIN file : Said(s, d)[k] = file[i]
           /\ Len(Said(s, d)) \in Nat /\ (Said(s, d) # <<>> => Len(Said(s, d)) >= 1)
<1> DEFINE V == {file[i] : i \in DOMAIN file}
<1>1. file \in Seq(V)
  <2>1. Len(file) \in Nat /\ DOMAIN file = 1..Len(file) /\ file \in [1..Len(file) -> W]
    BY LenProperties
  <2>2. file \in [1..Len(file) -> V]
    BY <2>1
  <2> QED
    BY <2>1, <2>2
<1> HIDE DEF V
<1>2. /\ Said(s, d) = Saying(file, s, d)[Len(file)]
      /\ Saying(file, s, d) \in [0..Len(file) -> Seq(About(V, s, d))]
      /\ Saying(file, s, d) \in [0..Len(file) -> Seq(About(W, s, d))]
      /\ Len(file) \in 0..Len(file)
  <2>1. Len(file) \in Nat
    BY LenProperties
  <2> QED
    BY <1>1, <2>1, SayingFacts, SaidIs
<1>3. Said(s, d) \in Seq(About(V, s, d)) /\ Said(s, d) \in Seq(About(W, s, d))
  BY <1>2
<1>4. /\ \A k \in 1..Len(Said(s, d)) : Said(s, d)[k] \in About(V, s, d)
                                       /\ Said(s, d)[k] \in About(W, s, d)
      /\ Len(Said(s, d)) \in Nat
  BY <1>3, ElementOfSeq, LenProperties
<1>5. \A k \in 1..Len(Said(s, d)) : \E i \in DOMAIN file : Said(s, d)[k] = file[i]
  BY <1>4 DEF About, V
<1>6. Said(s, d) # <<>> => Len(Said(s, d)) >= 1
  BY <1>3, EmptySeq
<1> QED
  BY <1>3, <1>4, <1>5, <1>6

(* A line about d in s is of an available directive and a writable         *)
(* argument.                                                               *)
LEMMA LineFacts ==
    ASSUME NEW s, NEW d, NEW l \in About(Lines, s, d)
    PROVE  /\ l.scope = s /\ l.d = d /\ s \in Scopes /\ d \in Available /\ d \in Directives
           /\ l.arg \in Writable(d)
  BY DEF About, Lines

(* Meaning, for a directive at a time.                                     *)
LEMMA MeaningIs ==
    ASSUME NEW s, NEW d
    PROVE  Meaning(s, d) =
              IF \/ Said(s, d) = <<>>
                 \/ /\ platform = "apache" /\ d = "enable"
                    /\ Said(s, d)[Len(Said(s, d))].arg = "off"
              THEN Unset
              ELSE IF platform = "apache" /\ d \in Lists
              THEN [i \in DOMAIN Said(s, d) |-> Said(s, d)[i].arg]
              ELSE ArgMeaning(d, Said(s, d)[Len(Said(s, d))].arg)
<1> DEFINE said == Said(s, d)
           arg == said[Len(said)].arg
<1> HIDE DEF said, arg
<1>1. Meaning(s, d) =
         IF said = <<>> \/ (platform = "apache" /\ d = "enable" /\ arg = "off") THEN Unset ELSE
         CASE d \in Numbers -> IF platform = "php" THEN arg ELSE <<Decimal(NumberOf(arg))>>
           [] d = "redisAddr" -> IF arg = <<>> THEN DefaultAddr ELSE arg
           [] d \in Flags -> <<IF arg = "off" THEN 0 ELSE 1>>
           [] d \in Lists -> IF platform = "apache" THEN [i \in DOMAIN said |-> said[i].arg]
                             ELSE <<arg>>
           [] d = "template" -> <<IF platform = "apache" /\ arg = "doubled" THEN "keyed"
                                  ELSE arg>>
           [] OTHER -> <<arg>>
  BY DEF Meaning, said, arg
<1>2. CASE d \in Lists
  <2>1. d \notin Numbers \union Flags \union {"redisAddr", "template"}
    BY <1>2 DEF Numbers, Flags, Lists
  <2> QED
    BY <1>1, <1>2, <2>1 DEF ArgMeaning, said, arg
<1>3. CASE d \notin Lists
  <2>1. CASE d \in Numbers
    BY <1>1, <1>3, <2>1 DEF ArgMeaning, said, arg, Numbers, Flags
  <2>2. CASE d \in Flags
    BY <1>1, <1>3, <2>2 DEF ArgMeaning, said, arg, Numbers, Flags
  <2>3. CASE d \notin Numbers \union Flags
    BY <1>1, <1>3, <2>3 DEF ArgMeaning, said, arg
  <2> QED
    BY <2>1, <2>2, <2>3
<1> QED
  BY <1>2, <1>3

(* What is stored and what is meant.                                       *)
LEMMA NginxStores ==
    ASSUME platform = "nginx", topic \in Topics, file \in Seq(GoodLines), NEW s, NEW d
    PROVE  /\ Meaning(s, d) = Unset => StoredOf(Said(s, d), d) = NewConf[d]
           /\ Meaning(s, d) # Unset => StoredOf(Said(s, d), d) = NginxStored(d, Meaning(s, d))
           /\ Said(s, d) # <<>> => Meaning(s, d) # Unset /\ NginxStored(d, Meaning(s, d)) # Unset
<1>1. CASE Said(s, d) = <<>>
  BY <1>1, MeaningIs DEF StoredOf
<1>2. CASE Said(s, d) # <<>>
  <2> DEFINE l == Said(s, d)[Len(Said(s, d))]
  <2>1. l \in About(GoodLines, s, d)
    BY <1>2, SaidFromFile
  <2>2. l \in About(Lines, s, d)
    BY <2>1 DEF GoodLines, About
  <2>3. d \in Available /\ l.arg \in Writable(d)
    BY <2>2, LineFacts
  <2>4. Meaning(s, d) = ArgMeaning(d, l.arg)
    BY <1>2, MeaningIs
  <2>5. StoredOf(Said(s, d), d) = NginxStored(d, ArgMeaning(d, l.arg))
    BY <1>2 DEF StoredOf
  <2> HIDE DEF l
  <2>6. ArgMeaning(d, l.arg) # Unset /\ NginxStored(d, ArgMeaning(d, l.arg)) # Unset
    BY <2>3, NginxLine
  <2> QED
    BY <2>4, <2>5, <2>6
<1> QED
  BY <1>1, <1>2

(* Values of one word differ when the words do.                            *)
LEMMA OneWord == \A x, y : <<x>> = <<y>> => x = y
<1> TAKE x, y
<1> HAVE <<x>> = <<y>>
<1>1. <<x>>[1] = x /\ <<y>>[1] = y
  OBVIOUS
<1> QED
  BY <1>1

(* Apache stores what is meant, and what a scope started with when nothing *)
(* is; an empty address or password is never what is meant.                *)
LEMMA ApacheStores ==
    ASSUME platform = "apache", topic \in Topics, file \in Seq(GoodLines), NEW s, NEW d
    PROVE  /\ d \in Directives => (StoredOf(Said(s, d), d) = NewConf[d] <=> Meaning(s, d) = Unset)
           /\ Meaning(s, d) # Unset =>
                 /\ StoredOf(Said(s, d), d) = Meaning(s, d)
                 /\ d = "redisAddr" => Meaning(s, d) # DefaultAddr
                 /\ d = "redisPassword" => Meaning(s, d) # <<"">>
<1>1. CASE Said(s, d) = <<>>
  BY <1>1, MeaningIs DEF StoredOf
<1>2. CASE Said(s, d) # <<>>
  <2> DEFINE l == Said(s, d)[Len(Said(s, d))]
  <2>1. l \in About(GoodLines, s, d)
    BY <1>2, SaidFromFile
  <2>2. l \in About(Lines, s, d) /\ Good(l)
    BY <2>1 DEF GoodLines, About
  <2>3. d \in Available /\ d \in Directives /\ l.arg \in Writable(d) /\ l.d = d
    BY <2>2, LineFacts
  <2>4. ~Flawed(d, l.arg) /\ (d \in {"redisPassword", "template", "backend"} => l.arg # "")
        /\ (d \in Flags => l.arg \in {"on", "off"})
    BY <2>2, <2>3 DEF Good
  <2>5. CASE d \in Lists
    <3>1. Meaning(s, d) = [i \in DOMAIN Said(s, d) |-> Said(s, d)[i].arg]
      BY <1>2, <2>5, MeaningIs DEF Lists
    <3>2. StoredOf(Said(s, d), d) = Meaning(s, d)
      BY <1>2, <2>5, <3>1 DEF StoredOf
    <3>3. Meaning(s, d) # <<>>
      <4>1. DOMAIN Said(s, d) = 1..Len(Said(s, d)) /\ Len(Said(s, d)) >= 1
            /\ Len(Said(s, d)) \in Nat
        BY <1>2, SaidFromFile, LenProperties
      <4>2. DOMAIN Meaning(s, d) # {}
        <5>1. 1 \in DOMAIN Said(s, d)
          BY <4>1
        <5> QED
          BY <3>1, <5>1
      <4>3. DOMAIN <<>> = {}
        OBVIOUS
      <4> QED
        BY <4>2, <4>3
    <3>4. NewConf[d] = Unset
      BY <2>3, <2>5, NewConfIs DEF Lists
    <3> QED
      BY <2>5, <3>2, <3>3, <3>4 DEF Unset, Lists
  <2>6. CASE d \notin Lists
    <3>1. StoredOf(Said(s, d), d) = ArgMeaning(d, l.arg)
      BY <1>2, <2>6 DEF StoredOf
    <3>2. Meaning(s, d) = IF d = "enable" /\ l.arg = "off" THEN Unset ELSE ArgMeaning(d, l.arg)
      BY <1>2, <2>6, MeaningIs
    <3> HIDE DEF l
    <3>3. CASE d = "enable"
      <4>1. ArgMeaning(d, l.arg) = <<IF l.arg = "off" THEN 0 ELSE 1>>
        BY <3>3 DEF ArgMeaning, Numbers, Flags
      <4>2. l.arg \in {"on", "off"}
        BY <2>4, <3>3 DEF Flags
      <4>3. NewConf[d] = <<0>>
        BY <2>3, <3>3, NewConfIs
      <4> QED
        BY <3>1, <3>2, <3>3, <4>1, <4>2, <4>3 DEF Unset
    <3>4. CASE d = "redisAddr"
      <4>1. IsPort(l.arg) /\ l.arg \in Seq(0..Blank)
        BY <2>3, <2>4, <3>4, WrittenTexts DEF Flawed
      <4>2. l.arg # <<>> /\ l.arg # DefaultAddr
        BY <4>1, NoTextIsDefault DEF IsPort, Digits
      <4>3. ArgMeaning(d, l.arg) = l.arg
        BY <3>4, <4>2 DEF ArgMeaning, Numbers
      <4>4. NewConf[d] = Unset
        BY <2>3, <3>4, NewConfIs
      <4> QED
        BY <3>1, <3>2, <3>4, <4>2, <4>3, <4>4 DEF Unset
    <3>5. CASE d \notin {"enable", "redisAddr"}
      <4>1. ArgMeaning(d, l.arg) # Unset
        BY <3>5 DEF ArgMeaning, Unset
      <4>2. CASE d \in {"backend", "redisPassword"}
        <5>1. ArgMeaning(d, l.arg) = <<l.arg>> /\ l.arg # ""
          BY <2>4, <4>2 DEF ArgMeaning, Numbers, Flags
        <5>2. ArgMeaning(d, l.arg) # <<"">>
          BY <5>1, OneWord
        <5>3. NewConf[d] \in {Unset, <<"">>}
          BY <2>3, <3>5, NewConfIs
        <5> QED
          BY <3>1, <3>2, <3>5, <4>1, <5>2, <5>3
      <4>3. CASE d \notin {"backend", "redisPassword"}
        <5>1. NewConf[d] = Unset
          BY <2>3, <3>5, <4>3, NewConfIs
        <5> QED
          BY <3>1, <3>2, <3>5, <4>1, <4>3, <5>1
      <4> QED
        BY <4>2, <4>3
    <3> QED
      BY <3>3, <3>4, <3>5
  <2> QED
    BY <2>5, <2>6
<1> QED
  BY <1>1, <1>2

----------------------------------------------------------------------------
(* The inductive invariant.                                                *)

(* What a reader of the documentation expects in scope s: Wanted, of a     *)
(* request in s.                                                           *)
WantedIn(s, d) ==
    IF Meaning(s, d) # Unset THEN Meaning(s, d)
    ELSE IF Meaning("outer", d) # Unset THEN Meaning("outer", d)
    ELSE Documented(d)

(* A value v that a request finds stands for the wanted one, w.            *)
Stands(d, v, w) ==
    IF platform = "nginx"
    THEN v = IF d = "redisAddr" /\ w = DefaultAddr THEN EmptyText(d)
             ELSE IF d = "template" /\ w = Unset THEN <<"">> ELSE w
    ELSE IF platform = "apache"
    THEN v = IF \/ d = "redisAddr" /\ w = DefaultAddr
                \/ d = "redisPassword" /\ w = <<"">>
             THEN Unset ELSE w
    ELSE IF d = "template" /\ w = <<"">> THEN v = Unset
    ELSE \/ v = w
         \/ /\ v = Unset
            /\ \/ d = "redisAddr" /\ w = DefaultAddr
               \/ d = "redisPassword" /\ w = <<"">>

(* The file, or the array, has been taken.                                 *)
Taken == phase \in {"serving", "served"}

(* The types, and that all lines but a refused one are good ones.          *)
TypeInv ==
    /\ platform \in {"nginx", "apache", "php"} /\ topic \in Topics
    /\ lib \in Libraries /\ (platform = "php" => lib \in {"json", "ctx"})
    /\ phase \in {"loading", "failed", "serving", "served"}
    /\ scope \in Scopes
    /\ file \in Seq(Lines) /\ (phase # "failed" => file \in Seq(GoodLines))
    /\ conf = [s \in LineScopes |-> [d \in Directives |-> conf[s][d]]]
    /\ phase # "served" => handed = NothingHanded

(* Only Apache takes a second line for a directive in a scope.             *)
OnceInv ==
    phase # "failed" /\ platform # "apache" =>
        \A s \in LineScopes, d \in Directives : Len(Said(s, d)) <= 1

(* Until the file ends, a scope holds what its lines leave.                *)
LoadInv ==
    phase = "loading" =>
        \A s \in LineScopes, d \in Directives : conf[s][d] = StoredOf(Said(s, d), d)

(* What is refused, and was written plainly, has a fault.                  *)
FailInv ==
    phase = "failed" /\ (\A i \in DOMAIN file : Plain(file[i])) =>
        \E i \in DOMAIN file : Fault(file[i])

(* What has been taken has no fault.                                       *)
FitInv == Taken => \A i \in DOMAIN file : ~Fault(file[i])

(* Every value a request finds stands for the wanted one; a PHP call with  *)
(* redis has an address, and no option of another server.                  *)
ServeInv ==
    Taken =>
        /\ \A s \in Scopes, d \in Available :
              Stands(d, Resolved(conf[s])[d], WantedIn(s, d))
        /\ platform = "php" =>
              /\ conf["outer"]["backend"] = <<"redis">> => conf["outer"]["redisAddr"] # Unset
              /\ conf["outer"]["parseOnHeader"] = Unset

(* A request hands over, and warns of, what its scope holds.               *)
ServedInv ==
    phase = "served" =>
        /\ handed = Handed(Resolved(conf[scope]))
        /\ warned = Warnings(Resolved(conf[scope]))

(* The inductive invariant.                                                *)
Inv == TypeInv /\ OnceInv /\ LoadInv /\ FailInv /\ FitInv /\ ServeInv /\ ServedInv

(* The scopes and the directives of a platform.                            *)
LEMMA ScopeFacts ==
    ASSUME topic \in Topics
    PROVE  /\ Scopes \subseteq LineScopes /\ "outer" \in Scopes
           /\ Available \subseteq Directives \/ platform \notin {"nginx", "apache", "php"}
           /\ platform = "php" => Scopes = {"outer"}
  BY DEF Scopes, LineScopes, Available

(* What stays as it is while the file is read and served.                  *)
LEMMA SamePlatform ==
    ASSUME platform' = platform, topic' = topic
    PROVE  /\ Scopes' = Scopes /\ Lines' = Lines /\ GoodLines' = GoodLines
           /\ Available' = Available
           /\ \A said, d : StoredOf(said, d)' = StoredOf(said, d)
           /\ \A d, arg : Flawed(d, arg)' <=> Flawed(d, arg)
           /\ NewConf' = NewConf
           /\ \A d, arg : ArgMeaning(d, arg)' = ArgMeaning(d, arg)
           /\ \A d : Documented(d)' = Documented(d)
<1>1. Scopes' = Scopes /\ Available' = Available /\ NewConf' = NewConf
  BY DEF Scopes, Available, NewConf
<1>2. \A d : Writable(d)' = Writable(d)
  BY DEF Writable, WritableNumbers
<1>3. Lines' = Lines
  BY <1>1, <1>2 DEF Lines
<1>4. \A text : NumberOf(text)' = NumberOf(text) /\ (IsPort(text)' <=> IsPort(text))
  BY DEF NumberOf, IsPort
<1>5. \A d : Bounds(d)' = Bounds(d)
  BY DEF Bounds, DocumentedBounds
<1>6. \A d, text : IsNumber(d, text)' <=> IsNumber(d, text)
  BY <1>4, <1>5 DEF IsNumber
<1>7. \A d, arg : Flawed(d, arg)' <=> Flawed(d, arg)
  BY <1>4, <1>6 DEF Flawed
<1>8. \A d, arg : ArgMeaning(d, arg)' = ArgMeaning(d, arg)
  BY <1>4 DEF ArgMeaning
<1>9. GoodLines' = GoodLines
  BY <1>3, <1>7 DEF GoodLines, Good
<1>10. \A said, d : StoredOf(said, d)' = StoredOf(said, d)
  BY <1>1, <1>8 DEF StoredOf
<1>11. \A d : Documented(d)' = Documented(d)
  BY DEF Documented
<1> QED
  BY <1>1, <1>3, <1>7, <1>8, <1>9, <1>10, <1>11

(* What the file says after a step.                                        *)
LEMMA SaidIsNext ==
    ASSUME NEW s, NEW d
    PROVE  Said(s, d)' = SaidIn(file', s, d)
  BY DEF Said, SaidIn, Loop

(* What is said when nothing is read.                                      *)
LEMMA SameFile ==
    ASSUME platform' = platform, topic' = topic, file' = file
    PROVE  /\ \A s, d : Said(s, d)' = Said(s, d)
           /\ \A s, d : Meaning(s, d)' = Meaning(s, d)
           /\ \A s, d : WantedIn(s, d)' = WantedIn(s, d)
           /\ \A l : Fault(l)' <=> Fault(l)
<1>1. \A s, d : Said(s, d)' = Said(s, d)
  BY SaidIs, SaidIsNext
<1>2. \A s, d : Meaning(s, d)' = Meaning(s, d)
  BY <1>1 DEF Meaning, NumberOf
<1>3. \A s, d : WantedIn(s, d)' = WantedIn(s, d)
  BY <1>2, SamePlatform DEF WantedIn
<1>4. SaidBackend' = SaidBackend
  BY <1>1 DEF SaidBackend
<1>5. \A d : Bounds(d)' = Bounds(d)
  BY DEF Bounds, DocumentedBounds
<1>6. \A d, text : (IsNumber(d, text)' <=> IsNumber(d, text)) /\ (IsPort(text)' <=> IsPort(text))
  BY <1>5 DEF IsNumber, NumberOf, IsPort
<1>7. \A l : Fault(l)' <=> Fault(l)
  BY <1>1, <1>4, <1>5, <1>6 DEF Fault
<1> QED
  BY <1>1, <1>2, <1>3, <1>7

(* Without PHP, a fault is a flaw or a repetition.                         *)
LEMMA FaultIs ==
    ASSUME NEW l, platform # "php"
    PROVE  Fault(l) <=> Flawed(l.d, l.arg) \/ (platform = "nginx" /\ Len(Said(l.scope, l.d)) > 1)
  BY DEF Fault, Flawed

(* An empty file has been stored as it says.                               *)
LEMMA InitInv == Init => Inv
<1> SUFFICES ASSUME Init PROVE Inv
  OBVIOUS
<1> USE DEF Init
<1>1. \A s, d : Said(s, d) = <<>>
  BY SaidIs, SaidOfNothing
<1>2. /\ conf = [s \in LineScopes |-> NewConf]
      /\ conf["outer"] = NewConf /\ conf["inner"] = NewConf
  BY DEF NewConf, LineScopes
<1>3. NewConf = [d \in Directives |-> NewConf[d]]
  BY NewConfIs
<1>4. conf = [s \in LineScopes |-> [d \in Directives |-> conf[s][d]]]
  BY <1>2, <1>3 DEF LineScopes
<1>5. file \in Seq(Lines) /\ file \in Seq(GoodLines)
  BY EmptySeq
<1>6. lib \in Libraries /\ scope \in Scopes
  BY TopicAssumption, ScopeFacts
<1>7. TypeInv
  BY <1>4, <1>5, <1>6 DEF TypeInv
<1>8. OnceInv
  BY <1>1, EmptySeq DEF OnceInv
<1>9. LoadInv
  BY <1>1, <1>2 DEF LoadInv, StoredOf, LineScopes
<1> QED
  BY <1>7, <1>8, <1>9 DEF Inv, FailInv, FitInv, ServeInv, ServedInv, Taken

----------------------------------------------------------------------------
(* A line is read.                                                         *)

(* One more line.                                                          *)
LEMMA LineRead ==
    ASSUME Inv, NEW s \in Scopes, NEW d \in Available, NEW arg \in Writable(d), Line(s, d, arg),
           NEW l, l = [scope |-> s, d |-> d, arg |-> arg]
    PROVE  /\ platform' = platform /\ topic' = topic
           /\ s \in LineScopes /\ d \in Directives
           /\ l \in Lines /\ file' = Append(file, l) /\ file' \in Seq(Lines)
           /\ DOMAIN file' = 1..(Len(file) + 1) /\ Len(file) \in Nat
           /\ file'[Len(file) + 1] = l
           /\ Said(s, d)' = Append(Said(s, d), l)
           /\ \A s2, d2 : s2 # s \/ d2 # d => Said(s2, d2)' = Said(s2, d2)
           /\ Said(s, d) \in Seq(Lines) /\ Len(Said(s, d)) \in Nat
<1> USE DEF Inv, TypeInv
<1>1. platform' = platform /\ topic' = topic /\ file' = Append(file, l)
  BY DEF Line
<1>2. s \in LineScopes /\ d \in Directives
  BY ScopeFacts
<1>3. l \in Lines
  <2>1. arg \in UNION {Writable(dd) : dd \in Directives}
    BY <1>2
  <2>2. l \in [scope : LineScopes, d : Directives, arg : UNION {Writable(dd) : dd \in Directives}]
    BY <1>2, <2>1
  <2> QED
    BY <2>2 DEF Lines
<1>4. /\ file' \in Seq(Lines) /\ DOMAIN file' = 1..(Len(file) + 1) /\ Len(file) \in Nat
      /\ file'[Len(file) + 1] = l
  <2>1. /\ Append(file, l) \in Seq(Lines) /\ Len(Append(file, l)) = Len(file) + 1
        /\ Append(file, l)[Len(file) + 1] = l
    BY <1>3, AppendProperties
  <2>2. Len(file) \in Nat /\ DOMAIN file' = 1..Len(file')
    BY <1>1, <2>1, LenProperties
  <2> QED
    BY <1>1, <2>1, <2>2
<1>5. \A s2, d2 : Said(s2, d2)' = IF l.scope = s2 /\ l.d = d2 THEN Append(Said(s2, d2), l)
                                  ELSE Said(s2, d2)
  BY <1>1, <1>3, SaidIs, SaidIsNext, SaidAppend
<1>6. l.scope = s /\ l.d = d
  OBVIOUS
<1>7. Said(s, d) \in Seq(About(Lines, s, d)) /\ Len(Said(s, d)) \in Nat
  BY SaidFromFile
<1>8. Said(s, d) \in Seq(Lines)
  <2>1. Said(s, d) \in [1..Len(Said(s, d)) -> About(Lines, s, d)]
    BY <1>7, LenProperties
  <2>2. Said(s, d) \in [1..Len(Said(s, d)) -> Lines]
    BY <2>1 DEF About
  <2> QED
    BY <1>7, <2>2
<1> QED
  BY <1>1, <1>2, <1>3, <1>4, <1>5, <1>6, <1>7, <1>8

(* A refused line is at fault.                                             *)
LEMMA LineRefused ==
    ASSUME Inv, NEW s \in Scopes, NEW d \in Available, NEW arg \in Writable(d), Line(s, d, arg),
           Setter(d, conf[s][d], arg) = {}, PlainArg(d, arg)
    PROVE  (\E i \in DOMAIN file : Fault(file[i]))'
<1> DEFINE l == [scope |-> s, d |-> d, arg |-> arg]
           last == Len(file) + 1
<1>1. /\ platform' = platform /\ topic' = topic /\ s \in LineScopes /\ d \in Directives
      /\ DOMAIN file' = 1..last /\ last \in 1..last /\ file'[last] = l
      /\ Said(s, d)' = Append(Said(s, d), l)
      /\ Said(s, d) \in Seq(Lines) /\ l \in Lines
  BY LineRead
<1>2. l.scope = s /\ l.d = d /\ l.arg = arg
  OBVIOUS
<1> HIDE DEF l, last
<1>3. phase = "loading" /\ topic \in Topics /\ platform \in {"nginx", "apache", "php"}
      /\ file \in Seq(GoodLines)
  BY DEF Line, Inv, TypeInv
<1>4. platform # "php"
  BY DEF Setter
<1>5. Fault(l)' <=> Flawed(d, arg)' \/ (platform' = "nginx" /\ Len(Said(s, d)') > 1)
  <2>1. Fault(l)' <=> Flawed(l.d, l.arg)' \/ (platform' = "nginx" /\ Len(Said(l.scope, l.d)') > 1)
    BY <1>1, <1>4 DEF Fault, Flawed
  <2> QED
    BY <1>2, <2>1
<1>6. Flawed(d, arg)' <=> Flawed(d, arg)
  BY <1>1, SamePlatform
<1>7. Fault(l)'
  <2>1. CASE platform = "apache"
    <3>1. Apache!mesi_directives(d, conf[s][d], arg) = {}
      BY <2>1 DEF Setter
    <3>2. Flawed(d, arg)
      BY <1>3, <2>1, <3>1, ApacheLine
    <3> QED
      BY <1>5, <1>6, <3>2
  <2>2. CASE platform = "nginx"
    <3>1. Nginx!ngx_http_mesi_commands(d, conf[s][d], arg) = {}
      BY <2>2 DEF Setter
    <3>2. CASE conf[s][d] = Unset
      <4>1. Flawed(d, arg)
        BY <1>3, <2>2, <3>1, <3>2, NginxLine
      <4> QED
        BY <1>5, <1>6, <4>1
    <3>3. CASE conf[s][d] # Unset
      <4>1. conf[s][d] = StoredOf(Said(s, d), d)
        BY <1>1, <1>3 DEF Inv, LoadInv
      <4>2. Said(s, d) # <<>>
        <5>1. NewConf[d] = Unset
          BY <1>1, <2>2, NewConfIs
        <5> QED
          BY <3>3, <4>1, <5>1 DEF StoredOf
      <4>3. Len(Said(s, d)) >= 1 /\ Len(Said(s, d)) \in Nat
        BY <1>3, <4>2, SaidFromFile
      <4>4. Len(Said(s, d)') = Len(Said(s, d)) + 1
        BY <1>1, AppendProperties
      <4> QED
        BY <1>1, <1>5, <2>2, <4>3, <4>4
    <3> QED
      BY <3>2, <3>3
  <2> QED
    BY <1>3, <1>4, <2>1, <2>2
<1> QED
  BY <1>1, <1>7

(* A line taken leaves what it means.                                      *)
LEMMA LineTaken ==
    ASSUME Inv, NEW s \in Scopes, NEW d \in Available, NEW arg \in Writable(d), Line(s, d, arg),
           NEW v \in Setter(d, conf[s][d], arg), NEW l, l = [scope |-> s, d |-> d, arg |-> arg]
    PROVE  /\ v = StoredOf(Append(Said(s, d), l), d)
           /\ Good(l)
           /\ platform # "apache" => Said(s, d) = <<>>
<1>1. /\ platform' = platform /\ topic' = topic /\ s \in LineScopes /\ d \in Directives
      /\ Said(s, d) \in Seq(Lines) /\ l \in Lines /\ Len(Said(s, d)) \in Nat
  BY LineRead
<1>2. l.scope = s /\ l.d = d /\ l.arg = arg
  OBVIOUS
<1>3. /\ phase = "loading" /\ topic \in Topics /\ platform \in {"nginx", "apache", "php"}
      /\ file \in Seq(GoodLines) /\ file \in Seq(Lines)
      /\ conf[s][d] = StoredOf(Said(s, d), d)
  BY <1>1 DEF Line, Inv, TypeInv, LoadInv
<1> DEFINE more == Append(Said(s, d), l)
<1>4. /\ Len(more) = Len(Said(s, d)) + 1 /\ more[Len(more)] = l /\ more # <<>>
      /\ DOMAIN more = 1..(Len(Said(s, d)) + 1)
      /\ \A i \in 1..Len(Said(s, d)) : more[i] = Said(s, d)[i]
  <2>1. /\ more \in Seq(Lines) /\ Len(more) = Len(Said(s, d)) + 1
        /\ more[Len(Said(s, d)) + 1] = l
        /\ \A i \in 1..Len(Said(s, d)) : more[i] = Said(s, d)[i]
    BY <1>1, AppendProperties
  <2>2. DOMAIN more = 1..Len(more)
    BY <2>1, LenProperties
  <2>3. more # <<>>
    BY <1>1, <2>1, EmptySeq
  <2> QED
    BY <2>1, <2>2, <2>3
<1> HIDE DEF more
<1>5. CASE platform = "php"
  <2>1. v = <<arg>>
    BY <1>5 DEF Setter
  <2>2. \A i \in DOMAIN file : file[i].d # d
    BY <1>5 DEF Line
  <2>3. Said(s, d) = <<>>
    <3>1. SUFFICES ASSUME Said(s, d) # <<>> PROVE FALSE
      OBVIOUS
    <3>2. Len(Said(s, d)) >= 1
      BY <1>3, <3>1, SaidFromFile
    <3>3. 1 \in 1..Len(Said(s, d))
      BY <1>1, <3>2
    <3>4. /\ Said(s, d)[1] \in About(Lines, s, d)
          /\ \E i \in DOMAIN file : Said(s, d)[1] = file[i]
      BY <1>3, <3>3, SaidFromFile
    <3>5. Said(s, d)[1].d = d
      BY <3>4 DEF About
    <3> QED
      BY <2>2, <3>4, <3>5
  <2>4. StoredOf(more, d) = <<arg>>
    BY <1>2, <1>4, <1>5 DEF StoredOf
  <2> QED
    BY <1>5, <2>1, <2>3, <2>4 DEF more, Good
<1>6. CASE platform = "nginx"
  <2>1. v \in Nginx!ngx_http_mesi_commands(d, conf[s][d], arg)
    BY <1>6 DEF Setter
  <2>2. conf[s][d] = Unset
    BY <2>1 DEF Nginx!ngx_http_mesi_commands, Nginx!Unset, Unset
  <2>3. v = NginxStored(d, ArgMeaning(d, arg)) /\ ~Flawed(d, arg)
    BY <1>3, <1>6, <2>1, <2>2, NginxLine
  <2>4. Said(s, d) = <<>>
    <3>1. SUFFICES ASSUME Said(s, d) # <<>> PROVE FALSE
      OBVIOUS
    <3>2. Meaning(s, d) # Unset /\ NginxStored(d, Meaning(s, d)) # Unset
      BY <1>3, <1>6, <3>1, NginxStores
    <3>3. StoredOf(Said(s, d), d) = NginxStored(d, Meaning(s, d))
      BY <1>3, <1>6, <3>2, NginxStores
    <3> QED
      BY <1>3, <2>2, <3>2, <3>3
  <2>5. StoredOf(more, d) = NginxStored(d, ArgMeaning(d, arg))
    BY <1>2, <1>4, <1>6 DEF StoredOf
  <2> QED
    BY <1>2, <1>6, <2>3, <2>4, <2>5 DEF more, Good
<1>7. CASE platform = "apache"
  <2>1. v \in Apache!mesi_directives(d, conf[s][d], arg)
    BY <1>7 DEF Setter
  <2>2. /\ v = IF d \in Lists THEN Append(conf[s][d], arg) ELSE ArgMeaning(d, arg)
        /\ ~Flawed(d, arg) /\ (d \in {"redisPassword", "template", "backend"} => arg # "")
        /\ (d \in Flags => arg \in {"on", "off"})
    BY <1>3, <1>7, <2>1, ApacheLine
  <2>3. Good(l)
    BY <1>2, <2>2 DEF Good
  <2>4. StoredOf(more, d) = IF d \in Lists THEN [i \in DOMAIN more |-> more[i].arg]
                            ELSE ArgMeaning(d, arg)
    BY <1>2, <1>4, <1>7 DEF StoredOf
  <2>5. CASE d \notin Lists
    BY <1>7, <2>2, <2>3, <2>4, <2>5 DEF more
  <2>6. CASE d \in Lists
    <3> DEFINE old == conf[s][d]
               n == Len(Said(s, d))
    <3>1. old = [i \in 1..n |-> Said(s, d)[i].arg]
      <4>1. CASE Said(s, d) = <<>>
        <5>1. NewConf[d] = Unset
          BY <1>1, <2>6, NewConfIs DEF Lists
        <5>2. old = <<>> /\ n = 0
          BY <1>3, <4>1, <5>1, EmptySeq DEF StoredOf, Unset
        <5> QED
          BY <5>2
      <4>2. CASE Said(s, d) # <<>>
        <5>1. DOMAIN Said(s, d) = 1..n
          BY <1>1, LenProperties
        <5> QED
          BY <1>3, <1>7, <2>6, <4>2, <5>1 DEF StoredOf
      <4> QED
        BY <4>1, <4>2
    <3>2. n \in Nat
      BY <1>1
    <3>3. Append(old, arg) = [i \in 1..(n + 1) |-> more[i].arg]
      <4> DEFINE A == {Said(s, d)[i].arg : i \in 1..n} \union {arg}
      <4>1. old \in Seq(A) /\ Len(old) = n /\ arg \in A
        <5>1. old \in [1..n -> A]
          BY <3>1
        <5>2. arg \in A
          OBVIOUS
        <5> HIDE DEF A
        <5>3. old \in Seq(A)
          BY <3>2, <5>1
        <5>4. Len(old) \in Nat /\ DOMAIN old = 1..Len(old) /\ DOMAIN old = 1..n
          BY <5>1, <5>3, LenProperties
        <5>5. Len(old) = n
          BY <3>2, <5>4
        <5> QED
          BY <5>2, <5>3, <5>5
      <4> HIDE DEF A, old
      <4>2. /\ Append(old, arg) \in Seq(A) /\ Len(Append(old, arg)) = n + 1
            /\ \A i \in 1..n : Append(old, arg)[i] = old[i] /\ Append(old, arg)[n + 1] = arg
        BY <3>2, <4>1, AppendProperties
      <4>3. Append(old, arg)[n + 1] = arg
        BY <4>1, AppendProperties
      <4>4. Append(old, arg) = [i \in 1..(n + 1) |-> Append(old, arg)[i]]
        <5>1. Append(old, arg) \in [1..(n + 1) -> A]
          BY <4>2, LenProperties
        <5> QED
          BY <5>1
      <4>5. ASSUME NEW i \in 1..(n + 1)
            PROVE  Append(old, arg)[i] = more[i].arg
        <5>1. CASE i = n + 1
          BY <1>2, <1>4, <4>3, <5>1
        <5>2. CASE i # n + 1
          <6>1. i \in 1..n
            BY <3>2, <5>2
          <6>2. old[i] = Said(s, d)[i].arg
            BY <3>1, <6>1
          <6> QED
            BY <1>4, <4>2, <6>1, <6>2
        <5> QED
          BY <5>1, <5>2
      <4> QED
        BY <4>4, <4>5
    <3>4. StoredOf(more, d) = [i \in 1..(n + 1) |-> more[i].arg]
      BY <1>4, <2>4, <2>6
    <3> QED
      BY <1>7, <2>2, <2>3, <2>6, <3>3, <3>4 DEF more
  <2> QED
    BY <2>5, <2>6
<1> QED
  BY <1>3, <1>5, <1>6, <1>7

(* What lines leave does not depend on the step.                           *)
LEMMA StoredOfNext ==
    ASSUME platform' = platform, topic' = topic, NEW s, NEW d
    PROVE  StoredOf(Said(s, d), d)' = StoredOf(Said(s, d)', d)
<1>1. NewConf' = NewConf /\ \A dd, arg : ArgMeaning(dd, arg)' = ArgMeaning(dd, arg)
  BY SamePlatform
<1>2. \A said : ArgMeaning(d, said[Len(said)].arg)' = ArgMeaning(d, said[Len(said)].arg)
  BY <1>1
<1> QED
  BY <1>1, <1>2 DEF StoredOf

(* A line keeps the invariant, taken or refused.                           *)
LEMMA LineInv ==
    ASSUME Inv, NEW s \in Scopes, NEW d \in Available, NEW arg \in Writable(d), Line(s, d, arg)
    PROVE  Inv'
<1> DEFINE l == [scope |-> s, d |-> d, arg |-> arg]
           values == Setter(d, conf[s][d], arg)
<1>1. /\ platform' = platform /\ topic' = topic
      /\ s \in LineScopes /\ d \in Directives
      /\ l \in Lines /\ file' = Append(file, l) /\ file' \in Seq(Lines)
      /\ DOMAIN file' = 1..(Len(file) + 1) /\ Len(file) \in Nat
      /\ file'[Len(file) + 1] = l
      /\ Said(s, d)' = Append(Said(s, d), l)
      /\ \A s2, d2 : s2 # s \/ d2 # d => Said(s2, d2)' = Said(s2, d2)
      /\ Said(s, d) \in Seq(Lines) /\ Len(Said(s, d)) \in Nat
  BY LineRead
<1>2. TypeInv /\ OnceInv /\ LoadInv
  BY DEF Inv
<1>3. /\ phase = "loading" /\ lib' = lib /\ scope' = scope /\ handed' = handed
      /\ \/ values = {} /\ phase' = "failed" /\ conf' = conf
         \/ \E v \in values : conf' = [conf EXCEPT ![s][d] = v] /\ phase' = "loading"
  BY DEF Line
<1>4. Lines' = Lines /\ GoodLines' = GoodLines /\ Scopes' = Scopes
  BY <1>1, SamePlatform
<1>5. ASSUME NEW v \in values, conf' = [conf EXCEPT ![s][d] = v], phase' = "loading"
      PROVE  Inv'
  <2> HIDE DEF l, values
  <2>1. /\ v = StoredOf(Append(Said(s, d), l), d) /\ Good(l)
        /\ platform # "apache" => Said(s, d) = <<>>
    BY LineTaken DEF l, values
  <2>2. file' \in Seq(GoodLines)
    <3>1. l \in GoodLines
      BY <1>1, <2>1 DEF GoodLines
    <3>2. file \in Seq(GoodLines)
      BY <1>2, <1>3 DEF TypeInv
    <3> QED
      BY <1>1, <3>1, <3>2, AppendProperties
  <2>3. conf = [s2 \in LineScopes |-> [d2 \in Directives |-> conf[s2][d2]]]
    BY <1>2 DEF TypeInv
  <2>4. \A s2 \in LineScopes, d2 \in Directives :
           conf'[s2][d2] = IF s2 = s /\ d2 = d THEN v ELSE conf[s2][d2]
    <3>1. DOMAIN conf = LineScopes /\ \A s2 \in LineScopes : DOMAIN conf[s2] = Directives
      BY <2>3
    <3> QED
      BY <1>1, <1>5, <3>1
  <2>5. conf' = [s2 \in LineScopes |-> [d2 \in Directives |-> conf'[s2][d2]]]
    <3>1. DOMAIN conf = LineScopes /\ conf' = [s2 \in LineScopes |-> conf'[s2]]
      BY <1>5, <2>3
    <3>2. ASSUME NEW s2 \in LineScopes
          PROVE  conf'[s2] = [d2 \in Directives |-> conf'[s2][d2]]
      <4>1. conf[s2] = [d2 \in Directives |-> conf[s2][d2]]
        BY <2>3
      <4>2. CASE s2 = s
        <5>1. conf'[s2] = [conf[s] EXCEPT ![d] = v]
          BY <1>1, <1>5, <3>1, <4>2
        <5> QED
          BY <4>1, <4>2, <5>1
      <4>3. CASE s2 # s
        <5>1. conf'[s2] = conf[s2]
          BY <1>5, <3>1, <4>3
        <5> QED
          BY <4>1, <5>1
      <4> QED
        BY <4>2, <4>3
    <3> QED
      BY <3>1, <3>2
  <2>6. TypeInv'
    BY <1>1, <1>2, <1>3, <1>4, <1>5, <2>2, <2>5 DEF TypeInv
  <2>7. OnceInv'
    <3>1. SUFFICES ASSUME platform # "apache", NEW s2 \in LineScopes, NEW d2 \in Directives
                   PROVE  Len(Said(s2, d2)') <= 1
      BY <1>1 DEF OnceInv
    <3>2. CASE s2 = s /\ d2 = d
      <4>1. Said(s, d) = <<>>
        BY <2>1, <3>1
      <4>2. Len(Said(s, d)') = Len(Said(s, d)) + 1 /\ Len(Said(s, d)) = 0
        BY <1>1, <4>1, AppendProperties, EmptySeq
      <4> QED
        BY <3>2, <4>2
    <3>3. CASE ~(s2 = s /\ d2 = d)
      BY <1>1, <1>2, <1>3, <3>1, <3>3 DEF OnceInv
    <3> QED
      BY <3>2, <3>3
  <2>8. LoadInv'
    <3>1. SUFFICES ASSUME NEW s2 \in LineScopes, NEW d2 \in Directives
                   PROVE  conf'[s2][d2] = StoredOf(Said(s2, d2), d2)'
      BY DEF LoadInv
    <3>2. StoredOf(Said(s2, d2), d2)' = StoredOf(Said(s2, d2)', d2)
      BY <1>1, SamePlatform, StoredOfNext
    <3>3. CASE s2 = s /\ d2 = d
      BY <1>1, <2>1, <2>4, <3>2, <3>3
    <3>4. CASE ~(s2 = s /\ d2 = d)
      BY <1>1, <1>2, <1>3, <2>4, <3>2, <3>4 DEF LoadInv
    <3> QED
      BY <3>3, <3>4
  <2> QED
    BY <1>5, <2>6, <2>7, <2>8 DEF Inv, FailInv, FitInv, ServeInv, ServedInv, Taken
<1>6. ASSUME values = {}, phase' = "failed", conf' = conf
      PROVE  Inv'
  <2>1. (\A i \in DOMAIN file' : Plain(file'[i])) => PlainArg(d, arg)
    <3>1. Len(file) + 1 \in DOMAIN file'
      BY <1>1
    <3>2. Plain(l) <=> PlainArg(d, arg)
      BY DEF Plain, PlainArg
    <3> HIDE DEF l
    <3> QED
      BY <1>1, <3>1, <3>2
  <2>2. PlainArg(d, arg) => (\E i \in DOMAIN file : Fault(file[i]))'
    BY <1>6, LineRefused
  <2>3. FailInv'
    BY <2>1, <2>2 DEF FailInv
  <2>4. TypeInv'
    BY <1>1, <1>2, <1>3, <1>4, <1>6 DEF TypeInv
  <2> QED
    BY <1>6, <2>3, <2>4 DEF Inv, OnceInv, LoadInv, FitInv, ServeInv, ServedInv, Taken
<1> QED
  BY <1>3, <1>5, <1>6

----------------------------------------------------------------------------
(* The file ends, or the call is made.                                     *)

(* The instances speak of the same directives.                             *)
LEMMA SameDirectives ==
    /\ Nginx!Directives = Directives /\ Apache!Directives = Directives
    /\ Php!Directives = Directives
    /\ Nginx!Unset = Unset /\ Apache!Unset = Unset /\ Php!Unset = Unset
  BY DEF Nginx!Directives, Apache!Directives, Php!Directives, Directives, Numbers, Flags, Lists,
         Words, Contexts, Nginx!Numbers, Nginx!Flags, Nginx!Lists, Nginx!Words, Nginx!Contexts,
         Apache!Numbers, Apache!Flags, Apache!Lists, Apache!Words, Apache!Contexts,
         Php!Numbers, Php!Flags, Php!Lists, Php!Words, Php!Contexts,
         Nginx!Unset, Apache!Unset, Php!Unset, Unset

(* The defaults of nginx are the documented ones.                          *)
LEMMA NginxDefaults ==
    ASSUME platform = "nginx", NEW d \in Available
    PROVE  /\ Nginx!NginxDefault[d] = IF d = "redisAddr" THEN EmptyText(d)
                                      ELSE IF d = "template" THEN <<"">> ELSE Documented(d)
           /\ d = "redisAddr" => Documented(d) = DefaultAddr
           /\ d = "template" => Documented(d) = Unset
<1>1. d \in Directives /\ d \in Nginx!Directives /\ d \notin Contexts \union {"shared"}
  BY SameDirectives DEF Available
<1>2. Nginx!NginxDefault[d] =
         CASE d \in {"enable", "maxBodySize", "bypass", "redisDb"} -> <<0>>
           [] d = "maxDepth" -> <<5>>
           [] d = "onOversize" -> <<"pass">>
           [] d \in {"backend", "servers", "redisPassword", "allowedHosts",
                     "template"} -> <<"">>
           [] d = "redisAddr" -> EmptyText(d)
           [] d = "cacheSize" -> <<10>>
           [] d = "cacheTtl" -> <<3>>
           [] d = "block" -> <<1>>
           [] OTHER -> Unset
  BY <1>1, SameDirectives DEF Nginx!NginxDefault, Nginx!EmptyText, EmptyText
<1>3. Documented(d) =
         CASE d = "maxDepth" -> <<5>>
           [] d = "block" -> <<1>>
           [] d \in {"enable", "bypass", "maxBodySize"} -> <<0>>
           [] d = "onOversize" -> <<"pass">>
           [] d = "cacheSize" -> <<10>>
           [] d = "cacheTtl" -> <<3>>
           [] d = "redisDb" -> <<0>>
           [] d = "redisAddr" -> DefaultAddr
           [] d \in {"backend", "redisPassword", "allowedHosts", "servers"} -> <<"">>
           [] OTHER -> Unset
  BY <1>1 DEF Documented, Lists
<1> QED
  BY <1>2, <1>3

(* A location finds what it, or the one around it, says, or the default.   *)
LEMMA NginxInherits ==
    ASSUME platform = "nginx", topic \in Topics, file \in Seq(GoodLines), NEW s,
           NEW d \in Available, NEW v,
           v = IF StoredOf(Said(s, d), d) # Unset THEN StoredOf(Said(s, d), d)
               ELSE IF StoredOf(Said("outer", d), d) # Unset
                    THEN StoredOf(Said("outer", d), d)
                    ELSE Nginx!NginxDefault[d]
    PROVE  Stands(d, v, WantedIn(s, d))
<1>1. NewConf[d] = Unset
  BY NewConfIs DEF Available
<1>2. ASSUME NEW s2
      PROVE  StoredOf(Said(s2, d), d) = IF Meaning(s2, d) = Unset THEN Unset
                                        ELSE NginxStored(d, Meaning(s2, d))
  BY <1>1, NginxStores
<1>3. ASSUME NEW s2, Meaning(s2, d) # Unset
      PROVE  NginxStored(d, Meaning(s2, d)) # Unset
  <2>1. Said(s2, d) # <<>>
    BY <1>3, MeaningIs
  <2> QED
    BY <2>1, NginxStores
<1>4. CASE Meaning(s, d) # Unset
  <2>1. v = NginxStored(d, Meaning(s, d)) /\ WantedIn(s, d) = Meaning(s, d)
    BY <1>2, <1>3, <1>4 DEF WantedIn
  <2> QED
    BY <1>4, <2>1 DEF Stands, NginxStored
<1>5. CASE Meaning(s, d) = Unset /\ Meaning("outer", d) # Unset
  <2>1. v = NginxStored(d, Meaning("outer", d)) /\ WantedIn(s, d) = Meaning("outer", d)
    BY <1>2, <1>3, <1>5 DEF WantedIn
  <2> QED
    BY <1>5, <2>1 DEF Stands, NginxStored
<1>6. CASE Meaning(s, d) = Unset /\ Meaning("outer", d) = Unset
  <2>1. v = Nginx!NginxDefault[d] /\ WantedIn(s, d) = Documented(d)
    BY <1>2, <1>6 DEF WantedIn
  <2>2. d \notin {"redisAddr", "template"} => v = Documented(d)
    BY <2>1, NginxDefaults
  <2>3. d = "redisAddr" => v = EmptyText(d) /\ Documented(d) = DefaultAddr
    BY <2>1, NginxDefaults
  <2>4. d = "template" => v = <<"">> /\ Documented(d) = Unset
    BY <2>1, NginxDefaults
  <2> QED
    BY <2>1, <2>2, <2>3, <2>4 DEF Stands
<1> QED
  BY <1>4, <1>5, <1>6

(* What mesi_response_filter puts in for what is unset is what is          *)
(* documented.                                                             *)
LEMMA ApacheDefaults ==
    ASSUME platform = "apache", NEW d \in Available, NEW c, c[d] = NewConf[d]
    PROVE  /\ Apache!ApacheResolved(c)[d] =
                IF d \in {"redisAddr", "redisPassword"} THEN Unset ELSE Documented(d)
           /\ d = "redisAddr" => Documented(d) = DefaultAddr
           /\ d = "redisPassword" => Documented(d) = <<"">>
<1>1. d \in Directives /\ d \in Apache!Directives /\ d \notin Contexts
  BY SameDirectives DEF Available
<1>2. Apache!ApacheResolved(c)[d] =
         IF c[d] # Unset THEN c[d]
         ELSE CASE d = "maxDepth" -> <<5>>
                [] d = "block" -> <<1>>
                [] d \in {"bypass", "shared", "cacheTtl"} -> <<0>>
                [] d = "maxBodySize" -> <<0>>
                [] d = "onOversize" -> <<"pass">>
                [] d = "cacheSize" -> <<10>>
                [] OTHER -> Unset
  BY <1>1, SameDirectives DEF Apache!ApacheResolved
<1>3. c[d] = IF d = "enable" THEN <<0>> ELSE IF d = "backend" THEN <<"">> ELSE Unset
  BY <1>1, NewConfIs
<1>4. Documented(d) =
         CASE d = "maxDepth" -> <<5>>
           [] d = "block" -> <<1>>
           [] d \in {"enable", "bypass", "maxBodySize", "shared", "cacheTtl"} -> <<0>>
           [] d = "onOversize" -> <<"pass">>
           [] d = "cacheSize" -> <<10>>
           [] d = "redisAddr" -> DefaultAddr
           [] d \in {"backend", "redisPassword"} -> <<"">>
           [] OTHER -> Unset
  BY <1>1 DEF Documented, Lists
<1>5. <<0>> # Unset /\ <<"">> # Unset
  BY DEF Unset
<1> QED
  BY <1>2, <1>3, <1>4, <1>5

(* A virtual host finds what it, or the main server, says, or the default. *)
LEMMA ApacheInherits ==
    ASSUME platform = "apache", topic \in Topics, file \in Seq(GoodLines), NEW s,
           NEW d \in Available, NEW c,
           c[d] = IF StoredOf(Said(s, d), d) = NewConf[d] THEN StoredOf(Said("outer", d), d)
                  ELSE StoredOf(Said(s, d), d)
    PROVE  Stands(d, Apache!ApacheResolved(c)[d], WantedIn(s, d))
<1>1. d \in Directives /\ d \in Apache!Directives
  BY SameDirectives DEF Available
<1>2. c[d] # Unset => Apache!ApacheResolved(c)[d] = c[d]
  BY <1>1, SameDirectives DEF Apache!ApacheResolved
<1>3. ASSUME NEW s2
      PROVE  /\ StoredOf(Said(s2, d), d) = NewConf[d] <=> Meaning(s2, d) = Unset
             /\ Meaning(s2, d) # Unset =>
                 /\ StoredOf(Said(s2, d), d) = Meaning(s2, d)
                 /\ d = "redisAddr" => Meaning(s2, d) # DefaultAddr
                 /\ d = "redisPassword" => Meaning(s2, d) # <<"">>
  BY <1>1, ApacheStores
<1>4. CASE Meaning(s, d) # Unset
  <2>1. c[d] = Meaning(s, d) /\ WantedIn(s, d) = Meaning(s, d)
    BY <1>3, <1>4 DEF WantedIn
  <2> QED
    BY <1>2, <1>3, <1>4, <2>1 DEF Stands
<1>5. CASE Meaning(s, d) = Unset /\ Meaning("outer", d) # Unset
  <2>1. c[d] = Meaning("outer", d) /\ WantedIn(s, d) = Meaning("outer", d)
    BY <1>3, <1>5 DEF WantedIn
  <2> QED
    BY <1>2, <1>3, <1>5, <2>1 DEF Stands
<1>6. CASE Meaning(s, d) = Unset /\ Meaning("outer", d) = Unset
  <2>1. c[d] = NewConf[d] /\ WantedIn(s, d) = Documented(d)
    <3>1. StoredOf(Said(s, d), d) = NewConf[d] /\ StoredOf(Said("outer", d), d) = NewConf[d]
      BY <1>3, <1>6
    <3> QED
      BY <1>6, <3>1 DEF WantedIn
  <2> DEFINE v == Apache!ApacheResolved(c)[d]
  <2>2. /\ v = IF d \in {"redisAddr", "redisPassword"} THEN Unset ELSE Documented(d)
        /\ d = "redisAddr" => Documented(d) = DefaultAddr
        /\ d = "redisPassword" => Documented(d) = <<"">>
    BY <2>1, ApacheDefaults
  <2> HIDE DEF v
  <2>3. Stands(d, v, Documented(d))
    BY <2>2 DEF Stands
  <2> QED
    BY <2>1, <2>3 DEF v
<1> QED
  BY <1>4, <1>5, <1>6

(* With the lines good, and nginx's not repeated, nothing is at fault.     *)
LEMMA NoFault ==
    ASSUME Inv, phase = "loading", platform # "php"
    PROVE  \A i \in DOMAIN file : ~Fault(file[i])
<1> TAKE i \in DOMAIN file
<1>1. file \in Seq(GoodLines)
  BY DEF Inv, TypeInv
<1>2. file[i] \in GoodLines
  BY <1>1, LenProperties, ElementOfSeq
<1>3. file[i].scope \in LineScopes /\ file[i].d \in Directives /\ ~Flawed(file[i].d, file[i].arg)
  BY <1>2 DEF GoodLines, Lines, Good
<1>4. platform = "nginx" => Len(Said(file[i].scope, file[i].d)) <= 1
  BY <1>3 DEF Inv, OnceInv
<1>5. platform = "nginx" => Len(Said(file[i].scope, file[i].d)) \in Nat
  BY <1>1, SaidFromFile
<1> QED
  BY <1>3, <1>4, <1>5, FaultIs

(* A location that nginx refuses at the end of the file has a template, or *)
(* hosts, that are not plain.                                              *)
LEMMA NginxRefused ==
    ASSUME platform = "nginx", topic \in Topics, file \in Seq(GoodLines), NEW s,
           NEW d \in {"template", "allowedHosts"},
           StoredOf(Said(s, d), d) \in {<<"bad">>, <<"blank">>}
    PROVE  \E i \in DOMAIN file : ~Plain(file[i])
<1>1. d \in Directives /\ NewConf[d] = Unset
  BY NewConfIs DEF Directives, Words, Lists
<1>2. Said(s, d) # <<>>
  BY <1>1 DEF StoredOf, Unset
<1> DEFINE l == Said(s, d)[Len(Said(s, d))]
<1>3. l \in About(GoodLines, s, d) /\ \E i \in DOMAIN file : l = file[i]
  BY <1>2, SaidFromFile
<1>4. l.d = d
  BY <1>3 DEF About
<1>5. StoredOf(Said(s, d), d) = NginxStored(d, ArgMeaning(d, l.arg))
  BY <1>2 DEF StoredOf
<1> HIDE DEF l
<1>6. StoredOf(Said(s, d), d) = <<l.arg>>
  BY <1>5 DEF NginxStored, ArgMeaning, Numbers, Flags
<1>7. l.arg \in {"bad", "blank"}
  BY <1>6, OneWord
<1>8. ~Plain(l)
  BY <1>4, <1>7 DEF Plain, Numbers
<1> QED
  BY <1>3, <1>8

(* The merge at the end of the file keeps the invariant.                   *)
LEMMA EndInv ==
    ASSUME Inv, EndOfFile
    PROVE  Inv'
<1> DEFINE outer == IF platform = "nginx"
                    THEN Nginx!merge_loc_conf(Nginx!create_loc_conf, conf.outer)
                    ELSE conf.outer
           inner == IF platform = "nginx" THEN Nginx!merge_loc_conf(outer, conf.inner)
                    ELSE Apache!merge_server_config(outer, conf.inner)
           bad == platform = "nginx" /\
                    (Nginx!MergeRefuses(outer) \/ Nginx!MergeRefuses(inner))
<1>1. /\ phase = "loading" /\ platform # "php"
      /\ conf' = [outer |-> outer, inner |-> inner]
      /\ phase' = IF bad THEN "failed" ELSE "serving"
      /\ platform' = platform /\ lib' = lib /\ topic' = topic /\ file' = file
      /\ scope' = scope /\ handed' = handed /\ warned' = warned
  BY DEF EndOfFile
<1>2. conf'["outer"] = outer /\ conf'["inner"] = inner
  BY <1>1
<1>3. /\ TypeInv /\ topic \in Topics /\ platform \in {"nginx", "apache"}
      /\ file \in Seq(GoodLines)
      /\ \A d \in Directives : /\ conf["outer"][d] = StoredOf(Said("outer", d), d)
                               /\ conf["inner"][d] = StoredOf(Said("inner", d), d)
  BY <1>1 DEF Inv, TypeInv, LoadInv, LineScopes
<1>4. /\ Lines' = Lines /\ GoodLines' = GoodLines /\ Scopes' = Scopes /\ Available' = Available
      /\ \A s, d : Said(s, d)' = Said(s, d)
      /\ \A s, d : WantedIn(s, d)' = WantedIn(s, d)
      /\ \A l : Fault(l)' <=> Fault(l)
  BY <1>1, SamePlatform, SameFile
<1>5. Scopes \subseteq LineScopes /\ Available \subseteq Directives
  BY <1>3, ScopeFacts
<1> HIDE DEF bad
<1>6. CASE platform = "nginx"
  <2> DEFINE so(d) == StoredOf(Said("outer", d), d)
             si(d) == StoredOf(Said("inner", d), d)
  <2>1. ASSUME NEW d \in Directives
        PROVE  outer[d] = IF so(d) # Unset THEN so(d) ELSE Nginx!NginxDefault[d]
    BY <1>3, <1>6, SameDirectives DEF Nginx!merge_loc_conf, Nginx!create_loc_conf
  <2>2. ASSUME NEW d \in Directives
        PROVE  inner[d] = IF si(d) # Unset THEN si(d)
                          ELSE IF so(d) # Unset THEN so(d) ELSE Nginx!NginxDefault[d]
    <3>1. inner[d] = IF si(d) # Unset THEN si(d)
                     ELSE IF outer[d] # Unset THEN outer[d] ELSE Nginx!NginxDefault[d]
      BY <1>3, <1>6, SameDirectives DEF Nginx!merge_loc_conf
    <3> HIDE DEF outer, inner
    <3> QED
      BY <2>1, <3>1
  <2>3. outer = [d \in Directives |-> outer[d]] /\ inner = [d \in Directives |-> inner[d]]
    BY <1>6, SameDirectives DEF Nginx!merge_loc_conf
  <2> HIDE DEF outer, inner
  <2>4. conf' = [s \in LineScopes |-> [d \in Directives |-> conf'[s][d]]]
    BY <1>1, <1>2, <2>3 DEF LineScopes
  <2>5. TypeInv'
    BY <1>1, <1>3, <1>4, <2>4 DEF TypeInv
  <2>6. OnceInv'
    BY <1>1, <1>4 DEF Inv, OnceInv
  <2>7. ASSUME NEW s \in Scopes, NEW d \in Available
        PROVE  Stands(d, conf'[s][d], WantedIn(s, d))
    <3>1. s \in {"outer", "inner"} /\ d \in Directives
      BY <1>5 DEF LineScopes
    <3>2. conf'[s][d] = IF StoredOf(Said(s, d), d) # Unset THEN StoredOf(Said(s, d), d)
                        ELSE IF so(d) # Unset THEN so(d) ELSE Nginx!NginxDefault[d]
      BY <1>2, <2>1, <2>2, <3>1
    <3> QED
      BY <1>3, <1>6, <3>2, NginxInherits
  <2>8. ServeInv'
    <3>1. ASSUME NEW s \in Scopes, NEW d \in Available
          PROVE  Stands(d, Resolved(conf[s])[d], WantedIn(s, d))'
      <4>1. Resolved(conf[s])' = conf'[s]
        BY <1>1, <1>6 DEF Resolved
      <4>2. Stands(d, conf'[s][d], WantedIn(s, d)')
        BY <1>4, <2>7
      <4> QED
        BY <1>1, <4>1, <4>2 DEF Stands
    <3> QED
      BY <1>1, <1>4, <1>6, <3>1 DEF ServeInv
  <2>9. FitInv'
    BY <1>1, <1>4, NoFault DEF FitInv
  <2>10. FailInv'
    <3>1. CASE ~bad
      BY <1>1, <3>1 DEF FailInv
    <3>2. CASE bad
      <4>1. /\ "template" \in Directives /\ "allowedHosts" \in Directives
            /\ Nginx!NginxDefault["template"] = <<"">>
            /\ Nginx!NginxDefault["allowedHosts"] = <<"">>
        <5>1. "template" \in Nginx!Directives /\ "allowedHosts" \in Nginx!Directives
              /\ "template" \in Directives /\ "allowedHosts" \in Directives
          BY SameDirectives DEF Directives, Words, Lists
        <5> QED
          BY <5>1 DEF Nginx!NginxDefault
      <4>2. \E c \in {outer, inner} : c["template"] = <<"bad">> \/ c["allowedHosts"] = <<"blank">>
        BY <3>2 DEF bad, Nginx!MergeRefuses
      <4>3. \E d \in {"template", "allowedHosts"} : \E s \in {"outer", "inner"} :
               StoredOf(Said(s, d), d) \in {<<"bad">>, <<"blank">>}
        <5>1. <<"">> \notin {<<"bad">>, <<"blank">>}
          BY OneWord
        <5>2. \A d \in {"template", "allowedHosts"} :
                 /\ outer[d] \in {so(d), <<"">>} /\ inner[d] \in {si(d), so(d), <<"">>}
          BY <2>1, <2>2, <4>1
        <5> QED
          BY <4>2, <5>1, <5>2
      <4>4. \E i \in DOMAIN file : ~Plain(file[i])
        BY <1>3, <1>6, <4>3, NginxRefused
      <4> QED
        BY <1>1, <4>4 DEF FailInv
    <3> QED
      BY <3>1, <3>2
  <2> QED
    BY <1>1, <2>5, <2>6, <2>8, <2>9, <2>10 DEF Inv, LoadInv, ServedInv
<1>7. CASE platform = "apache"
  <2> DEFINE so(d) == StoredOf(Said("outer", d), d)
             si(d) == StoredOf(Said("inner", d), d)
  <2>1. \A d \in Directives : outer[d] = so(d)
    BY <1>3, <1>7
  <2>2. ASSUME NEW d \in Directives
        PROVE  inner[d] = IF si(d) = NewConf[d] THEN so(d) ELSE si(d)
    BY <1>3, <1>7, SameDirectives DEF Apache!merge_server_config, NewConf
  <2>3. outer = [d \in Directives |-> outer[d]] /\ inner = [d \in Directives |-> inner[d]]
    <3>1. conf = [s \in LineScopes |-> [d \in Directives |-> conf[s][d]]]
      BY <1>3 DEF TypeInv
    <3>2. conf["outer"] = [d \in Directives |-> conf["outer"][d]]
      BY <3>1 DEF LineScopes
    <3> QED
      BY <1>7, <3>2, SameDirectives DEF Apache!merge_server_config
  <2> HIDE DEF outer, inner
  <2>4. conf' = [s \in LineScopes |-> [d \in Directives |-> conf'[s][d]]]
    BY <1>1, <1>2, <2>3 DEF LineScopes
  <2>5. phase' = "serving"
    BY <1>1, <1>7 DEF bad
  <2>6. TypeInv'
    BY <1>1, <1>3, <1>4, <2>4 DEF TypeInv
  <2>7. ASSUME NEW s \in Scopes, NEW d \in Available
        PROVE  Stands(d, Apache!ApacheResolved(conf'[s])[d], WantedIn(s, d))
    <3>1. s \in {"outer", "inner"} /\ d \in Directives
      BY <1>5 DEF LineScopes
    <3>2. conf'[s][d] = IF StoredOf(Said(s, d), d) = NewConf[d] THEN so(d)
                        ELSE StoredOf(Said(s, d), d)
      BY <1>2, <2>1, <2>2, <3>1
    <3> DEFINE c == conf'[s]
    <3>3. c[d] = IF StoredOf(Said(s, d), d) = NewConf[d] THEN so(d)
                 ELSE StoredOf(Said(s, d), d)
      BY <3>2
    <3> HIDE DEF c
    <3>4. Stands(d, Apache!ApacheResolved(c)[d], WantedIn(s, d))
      BY <1>3, <1>7, <3>3, ApacheInherits
    <3> QED
      BY <3>4 DEF c
  <2>8. ServeInv'
    <3>1. ASSUME NEW s \in Scopes, NEW d \in Available
          PROVE  Stands(d, Resolved(conf[s])[d], WantedIn(s, d))'
      <4>1. Resolved(conf[s])' = Apache!ApacheResolved(conf'[s])
        BY <1>1, <1>7 DEF Resolved
      <4>2. Stands(d, Apache!ApacheResolved(conf'[s])[d], WantedIn(s, d)')
        BY <1>4, <2>7
      <4> QED
        BY <1>1, <4>1, <4>2 DEF Stands
    <3> QED
      BY <1>1, <1>4, <1>7, <3>1 DEF ServeInv
  <2>9. FitInv'
    BY <1>1, <1>4, NoFault DEF FitInv
  <2>10. OnceInv'
    BY <1>1, <1>7 DEF OnceInv
  <2> QED
    BY <1>1, <2>5, <2>6, <2>8, <2>9, <2>10 DEF Inv, LoadInv, ServedInv, FailInv
<1> QED
  BY <1>3, <1>6, <1>7

(* A line of the file is said.                                             *)
LEMMA FileIsSaid ==
    ASSUME NEW W, file \in Seq(W), NEW i \in DOMAIN file
    PROVE  \E k \in 1..Len(Said(file[i].scope, file[i].d)) :
              Said(file[i].scope, file[i].d)[k] = file[i]
<1> DEFINE s == file[i].scope
           d == file[i].d
           n == Len(file)
           c == Saying(file, s, d)
           S == {j \in 0..n : j >= i => \E k \in 1..Len(c[j]) : c[j][k] = file[i]}
<1>1. n \in Nat /\ i \in 1..n
  BY LenProperties
<1> HIDE DEF s, d
<1>2. /\ c \in [0..n -> Seq(About(W, s, d))]
      /\ \A j \in 1..n : c[j] = IF file[j].scope = s /\ file[j].d = d
                                THEN Append(c[j - 1], file[j]) ELSE c[j - 1]
      /\ Said(s, d) = c[n]
  BY SayingFacts, SaidIs
<1>3. \A j \in 1..n : file[j] \in W
  BY ElementOfSeq
<1>4. file[i].scope = s /\ file[i].d = d
  BY DEF s, d
<1> HIDE DEF c, n
<1>5. 0 \in S
  BY <1>1
<1>6. ASSUME NEW j \in 1..n, j - 1 \in S
      PROVE  j \in S
  <2>1. j - 1 \in 0..n /\ j \in 0..n /\ j \in Nat
    BY <1>1
  <2> DEFINE b == c[j - 1]
  <2>2. b \in Seq(About(W, s, d)) /\ Len(b) \in Nat
    BY <1>2, <2>1, LenProperties
  <2>3. c[j] = IF file[j].scope = s /\ file[j].d = d THEN Append(b, file[j]) ELSE b
    BY <1>2
  <2>4. j - 1 >= i => \E k \in 1..Len(b) : b[k] = file[i]
    BY <1>6
  <2> HIDE DEF b
  <2>5. file[j].scope = s /\ file[j].d = d =>
           /\ Len(Append(b, file[j])) = Len(b) + 1
           /\ Append(b, file[j])[Len(b) + 1] = file[j]
           /\ \A k \in 1..Len(b) : Append(b, file[j])[k] = b[k]
    <3>1. SUFFICES ASSUME file[j].scope = s /\ file[j].d = d
                   PROVE  /\ Len(Append(b, file[j])) = Len(b) + 1
                          /\ Append(b, file[j])[Len(b) + 1] = file[j]
                          /\ \A k \in 1..Len(b) : Append(b, file[j])[k] = b[k]
      OBVIOUS
    <3>2. file[j] \in About(W, s, d)
      BY <1>3, <3>1 DEF About
    <3> QED
      BY <2>2, <3>2, AppendProperties
  <2>6. CASE j = i
    <3>1. c[j] = Append(b, file[i]) /\ Len(c[j]) = Len(b) + 1 /\ c[j][Len(b) + 1] = file[i]
      BY <1>4, <2>3, <2>5, <2>6
    <3>2. Len(b) + 1 \in 1..Len(c[j])
      BY <2>2, <3>1
    <3> QED
      BY <2>1, <3>1, <3>2
  <2>7. CASE j > i
    <3>1. j - 1 >= i
      BY <1>1, <2>1, <2>7
    <3>2. PICK k \in 1..Len(b) : b[k] = file[i]
      BY <2>4, <3>1
    <3>3. k \in 1..Len(c[j]) /\ c[j][k] = file[i]
      BY <2>2, <2>3, <2>5, <3>2
    <3> QED
      BY <2>1, <3>3
  <2>8. CASE j < i
    BY <1>1, <2>1, <2>8
  <2> QED
    BY <1>1, <2>1, <2>6, <2>7, <2>8
<1>7. \A j \in 0..n : j \in S
  <2> HIDE DEF S
  <2> QED
    BY <1>1, <1>5, <1>6, CountUp
<1>8. n \in S /\ n >= i
  BY <1>1, <1>7
<1>9. \E k \in 1..Len(c[n]) : c[n][k] = file[i]
  BY <1>8
<1> QED
  BY <1>2, <1>9 DEF s, d

(* The array of a call before it is checked: each line is an option.       *)
LEMMA ArrayIs ==
    ASSUME Inv, phase = "loading", platform = "php"
    PROVE  /\ \A i \in DOMAIN file :
                /\ file[i].scope = "outer" /\ file[i].d \in Available
                /\ file[i].arg \in Writable(file[i].d)
                /\ conf["outer"][file[i].d] = <<file[i].arg>>
           /\ \A d \in Directives : conf["outer"][d] # Unset =>
                \E i \in DOMAIN file : /\ file[i].d = d
                                       /\ conf["outer"][d] = <<file[i].arg>>
                                       /\ Said("outer", d) # <<>>
                                       /\ Said("outer", d)[1] = file[i]
                                       /\ Len(Said("outer", d)) = 1
           /\ \A d \in Directives : conf["outer"][d] = Unset => Said("outer", d) = <<>>
<1>1. /\ TypeInv /\ file \in Seq(Lines) /\ topic \in Topics /\ Scopes = {"outer"}
      /\ \A d \in Directives : /\ conf["outer"][d] = StoredOf(Said("outer", d), d)
                               /\ Len(Said("outer", d)) <= 1
      /\ \A d \in Directives : NewConf[d] = Unset
  BY ScopeFacts, NewConfIs DEF Inv, TypeInv, LoadInv, OnceInv, LineScopes
<1>2. ASSUME NEW d \in Directives, Said("outer", d) # <<>>
      PROVE  /\ Len(Said("outer", d)) = 1
             /\ conf["outer"][d] = <<Said("outer", d)[1].arg>>
             /\ \E i \in DOMAIN file : Said("outer", d)[1] = file[i]
             /\ Said("outer", d)[1].d = d
  <2>1. Len(Said("outer", d)) \in Nat /\ Len(Said("outer", d)) >= 1
    BY <1>1, <1>2, SaidFromFile
  <2>2. Len(Said("outer", d)) = 1
    <3> DEFINE n == Len(Said("outer", d))
    <3>1. n \in Nat /\ n >= 1 /\ n <= 1
      BY <1>1, <2>1
    <3> HIDE DEF n
    <3>2. n = 1
      BY <3>1
    <3> QED
      BY <3>2 DEF n
  <2>3. Said("outer", d)[1] \in About(Lines, "outer", d)
        /\ \E i \in DOMAIN file : Said("outer", d)[1] = file[i]
    BY <1>1, <2>2, SaidFromFile
  <2>4. Said("outer", d)[1].d = d
    BY <2>3 DEF About
  <2> QED
    BY <1>1, <1>2, <2>2, <2>3, <2>4 DEF StoredOf
<1>3. ASSUME NEW i \in DOMAIN file
      PROVE  /\ file[i].scope = "outer" /\ file[i].d \in Available
             /\ file[i].arg \in Writable(file[i].d)
             /\ conf["outer"][file[i].d] = <<file[i].arg>>
  <2>1. file[i] \in Lines
    BY <1>1, LenProperties, ElementOfSeq
  <2>2. /\ file[i].scope = "outer" /\ file[i].d \in Available /\ file[i].d \in Directives
        /\ file[i].arg \in Writable(file[i].d)
    BY <1>1, <2>1 DEF Lines
  <2>3. \E k \in 1..Len(Said("outer", file[i].d)) : Said("outer", file[i].d)[k] = file[i]
    BY <1>1, <2>2, FileIsSaid
  <2>4. Said("outer", file[i].d) # <<>>
    <3>1. Len(<<>>) = 0
      OBVIOUS
    <3> QED
      BY <2>3, <3>1
  <2>5. Len(Said("outer", file[i].d)) = 1
    BY <1>2, <2>2, <2>4
  <2>6. Said("outer", file[i].d)[1] = file[i]
    BY <2>3, <2>5
  <2> QED
    BY <1>2, <2>2, <2>4, <2>6
<1>4. ASSUME NEW d \in Directives, conf["outer"][d] # Unset
      PROVE  Said("outer", d) # <<>>
  BY <1>1, <1>4 DEF StoredOf
<1>5. ASSUME NEW d \in Directives, conf["outer"][d] = Unset
      PROVE  Said("outer", d) = <<>>
  BY <1>2, <1>5 DEF Unset
<1> QED
  BY <1>2, <1>3, <1>4, <1>5

(* The faults of a call are what its checks are about.                     *)
LEMMA PhpFaultIs ==
    ASSUME Inv, phase = "loading", platform = "php", NEW i \in DOMAIN file
    PROVE  Fault(file[i]) <=>
              \/ PhpFlawed(file[i].d, file[i].arg, conf["outer"]["backend"])
              \/ /\ file[i].d = "backend" /\ file[i].arg = "redis"
                 /\ conf["outer"]["redisAddr"] = Unset
              \/ /\ file[i].d = "backend" /\ file[i].arg = "memcached"
                 /\ conf["outer"]["servers"] = Unset
<1> DEFINE backend == conf["outer"]["backend"]
<1>1. "backend" \in Directives /\ "redisAddr" \in Directives /\ "servers" \in Directives
  BY DEF Directives, Words, Lists
<1>2. /\ Said("outer", "redisAddr") = <<>> <=> conf["outer"]["redisAddr"] = Unset
      /\ Said("outer", "servers") = <<>> <=> conf["outer"]["servers"] = Unset
  BY <1>1, ArrayIs
<1>3. /\ SaidBackend = "redis" <=> backend = <<"redis">>
      /\ SaidBackend = "memcached" <=> backend = <<"memcached">>
  <2>1. CASE backend = Unset
    <3>1. SaidBackend = ""
      BY <1>1, <2>1, ArrayIs DEF SaidBackend
    <3>2. Unset # <<"redis">> /\ Unset # <<"memcached">>
      BY DEF Unset
    <3> HIDE DEF backend
    <3> QED
      BY <2>1, <3>1, <3>2
  <2>2. CASE backend # Unset
    <3>1. Said("outer", "backend") # <<>> /\ backend = <<Said("outer", "backend")[1].arg>>
      BY <1>1, <2>2, ArrayIs
    <3>2. backend = <<SaidBackend>>
      BY <3>1 DEF SaidBackend
    <3> HIDE DEF backend
    <3>3. backend = <<"redis">> => SaidBackend = "redis"
      BY <3>2, OneWord
    <3>4. backend = <<"memcached">> => SaidBackend = "memcached"
      BY <3>2, OneWord
    <3> QED
      BY <3>2, <3>3, <3>4
  <2> QED
    BY <2>1, <2>2
<1> HIDE DEF backend
<1> QED
  BY <1>2, <1>3 DEF Fault, PhpFlawed, backend

(* The first values of the variables of a PHP call are what is documented. *)
LEMMA PhpDefaults ==
    ASSUME platform = "php", NEW d \in Available
    PROVE  /\ Php!PhpDefault[d] = IF d \in {"redisAddr", "redisPassword"} THEN Unset
                                  ELSE Documented(d)
           /\ d = "redisAddr" => Documented(d) = DefaultAddr
           /\ d = "redisPassword" => Documented(d) = <<"">>
<1>1. d \in Directives /\ d \in Php!Directives /\ d \notin {"enable", "parseOnHeader"}
  BY SameDirectives DEF Available
<1>2. Php!PhpDefault[d] =
         CASE d \in {"block", "shared"} -> <<1>>
           [] d \in {"bypass", "maxBodySize", "cacheTtl"} -> <<0>>
           [] d \in {"backend", "allowedHosts"} -> <<"">>
           [] d = "maxDepth" -> <<5>>
           [] d = "onOversize" -> <<"pass">>
           [] d = "cacheSize" -> <<10>>
           [] OTHER -> Unset
  BY <1>1, SameDirectives DEF Php!PhpDefault
<1>3. Documented(d) =
         CASE d = "maxDepth" -> <<5>>
           [] d \in {"block", "shared"} -> <<1>>
           [] d \in {"bypass", "maxBodySize", "cacheTtl"} -> <<0>>
           [] d = "onOversize" -> <<"pass">>
           [] d = "cacheSize" -> <<10>>
           [] d = "redisAddr" -> DefaultAddr
           [] d \in {"backend", "redisPassword", "allowedHosts"} -> <<"">>
           [] OTHER -> Unset
  BY <1>1 DEF Documented, Lists
<1> QED
  BY <1>2, <1>3

(* The checks of a PHP call keep the invariant.                            *)
LEMMA CallInv ==
    ASSUME Inv, Call
    PROVE  Inv'
<1> DEFINE config == conf["outer"]
           options == Php!Options(config)
           bad == (\E d \in Directives : options[d] = {}) \/ Php!BackendIncomplete(config)
           Value(d) == CHOOSE v \in options[d] : TRUE
           Left(d) == IF Value(d) = Unset THEN Php!PhpDefault[d] ELSE Value(d)
<1>1. /\ phase = "loading" /\ platform = "php"
      /\ platform' = platform /\ lib' = lib /\ topic' = topic /\ file' = file
      /\ scope' = scope /\ handed' = handed /\ warned' = warned
      /\ IF bad THEN phase' = "failed" /\ conf' = conf
         ELSE phase' = "serving" /\ conf' = [conf EXCEPT !.outer = [d \in Directives |-> Left(d)]]
  BY DEF Call
<1>2. /\ TypeInv /\ topic \in Topics /\ Scopes = {"outer"} /\ Available \subseteq Directives
      /\ conf = [s \in LineScopes |-> [d \in Directives |-> conf[s][d]]]
  BY <1>1, ScopeFacts DEF Inv, TypeInv
<1>3. /\ Lines' = Lines /\ GoodLines' = GoodLines /\ Scopes' = Scopes /\ Available' = Available
      /\ \A s, d : Said(s, d)' = Said(s, d)
      /\ \A s, d : WantedIn(s, d)' = WantedIn(s, d)
      /\ \A l : Fault(l)' <=> Fault(l)
  BY <1>1, SamePlatform, SameFile
<1>4. \A d \in Directives :
         options[d] = IF config[d] = Unset THEN {Unset}
                      ELSE Php!Option(d, config["backend"], config[d][1])
  BY SameDirectives DEF Php!Options, Unset
<1>5. /\ \A i \in DOMAIN file :
                /\ file[i].scope = "outer" /\ file[i].d \in Available
                /\ file[i].arg \in Writable(file[i].d)
                /\ config[file[i].d] = <<file[i].arg>>
      /\ \A d \in Directives : config[d] # Unset =>
                \E i \in DOMAIN file : /\ file[i].d = d
                                       /\ config[d] = <<file[i].arg>>
                                       /\ Said("outer", d) # <<>>
                                       /\ Said("outer", d)[1] = file[i]
                                       /\ Len(Said("outer", d)) = 1
      /\ \A d \in Directives : config[d] = Unset => Said("outer", d) = <<>>
  BY <1>1, ArrayIs
<1>6. Php!BackendIncomplete(config) <=>
         \/ config["backend"] = <<"redis">> /\ config["redisAddr"] = Unset
         \/ config["backend"] = <<"memcached">> /\ config["servers"] = Unset
  BY DEF Php!BackendIncomplete, Unset
<1>7. "backend" \in Directives /\ "redisAddr" \in Directives /\ "servers" \in Directives
  BY DEF Directives, Words, Lists
<1> DEFINE backend == config["backend"]
<1>8. OnceInv'
  <2>1. CASE phase' = "failed"
    BY <2>1 DEF OnceInv
  <2>2. CASE phase' # "failed"
    BY <1>1, <1>3 DEF Inv, OnceInv
  <2> QED
    BY <2>1, <2>2
(* What an option is left with.                                            *)
<1>9. ASSUME NEW i \in DOMAIN file
      PROVE  LET d == file[i].d
                 arg == file[i].arg
             IN /\ \A v \in options[d] :
                     /\ v = IF d = "template" /\ arg = "" THEN Unset ELSE ArgMeaning(d, arg)
                     /\ ~PhpFlawed(d, arg, backend)
                /\ options[d] = {} /\ Plain(file[i]) => PhpFlawed(d, arg, backend)
                /\ options[d] = {} \/ ArgMeaning(d, arg) # Unset
  <2> DEFINE d == file[i].d
             arg == file[i].arg
  <2>1. d \in Available /\ d \in Directives /\ arg \in Writable(d) /\ config[d] = <<arg>>
    BY <1>2, <1>5
  <2>2. options[d] = Php!Option(d, backend, arg)
    <3>1. config[d] # Unset /\ config[d][1] = arg
      BY <2>1 DEF Unset
    <3> HIDE DEF options, config, d, arg
    <3> QED
      BY <1>4, <2>1, <3>1
  <2>3. Plain(file[i]) <=> PlainArg(d, arg)
    BY DEF Plain, PlainArg
  <2> HIDE DEF options, backend, d, arg
  <2>4. /\ \A v \in Php!Option(d, backend, arg) :
              /\ v = IF d = "template" /\ arg = "" THEN Unset ELSE ArgMeaning(d, arg)
              /\ ~PhpFlawed(d, arg, backend)
        /\ Php!Option(d, backend, arg) = {} /\ PlainArg(d, arg) => PhpFlawed(d, arg, backend)
        /\ Php!Option(d, backend, arg) = {} \/ ArgMeaning(d, arg) # Unset
    BY <1>1, <1>2, <2>1, PhpOption
  <2> QED
    BY <2>2, <2>3, <2>4 DEF d, arg
<1>10. ASSUME NEW i \in DOMAIN file
       PROVE  Fault(file[i]) <=>
              \/ PhpFlawed(file[i].d, file[i].arg, backend)
              \/ /\ file[i].d = "backend" /\ file[i].arg = "redis"
                 /\ config["redisAddr"] = Unset
              \/ /\ file[i].d = "backend" /\ file[i].arg = "memcached"
                 /\ config["servers"] = Unset
  BY <1>1, PhpFaultIs
<1>11. CASE bad
  <2> HIDE DEF options
  <2>1. phase' = "failed" /\ conf' = conf
    BY <1>1, <1>11
  <2>2. ASSUME \A i \in DOMAIN file : Plain(file[i])
        PROVE  \E i \in DOMAIN file : Fault(file[i])
    <3>1. CASE \E d \in Directives : options[d] = {}
      <4>1. PICK d \in Directives : options[d] = {}
        BY <3>1
      <4>2. config[d] # Unset
        BY <1>4, <4>1
      <4>3. PICK i \in DOMAIN file : file[i].d = d
        BY <1>5, <4>2
      <4>4. PhpFlawed(file[i].d, file[i].arg, backend)
        BY <1>9, <2>2, <4>1, <4>3
      <4> QED
        BY <1>10, <4>4
    <3>2. CASE Php!BackendIncomplete(config)
      <4>1. <<"redis">> # Unset /\ <<"memcached">> # Unset
        BY DEF Unset
      <4> HIDE DEF config
      <4>2. PICK i \in DOMAIN file : file[i].d = "backend" /\ backend = <<file[i].arg>>
        BY <1>5, <1>6, <1>7, <3>2, <4>1
      <4>3. \/ file[i].arg = "redis" /\ config["redisAddr"] = Unset
            \/ file[i].arg = "memcached" /\ config["servers"] = Unset
        BY <1>6, <3>2, <4>2, OneWord
      <4> QED
        BY <1>10, <4>2, <4>3
    <3> QED
      BY <1>11, <3>1, <3>2
  <2>3. FailInv'
    BY <1>1, <1>3, <2>2 DEF FailInv
  <2>4. TypeInv'
    BY <1>1, <1>2, <1>3, <2>1 DEF TypeInv
  <2> QED
    BY <1>8, <2>1, <2>3, <2>4 DEF Inv, LoadInv, FitInv, ServeInv, ServedInv, Taken
<1>12. CASE ~bad
  <2>1. phase' = "serving" /\ conf' = [conf EXCEPT !.outer = [d \in Directives |-> Left(d)]]
    BY <1>1, <1>12
  <2>2. ~Php!BackendIncomplete(config) /\ \A d \in Directives : options[d] # {}
    BY <1>12
  <2>3. \A d \in Directives : Value(d) \in options[d]
    BY <2>2
  <2> HIDE DEF options, Value
  <2>4. FitInv'
    <3>1. ASSUME NEW i \in DOMAIN file
          PROVE  ~Fault(file[i])
      <4>1. options[file[i].d] # {}
        BY <1>2, <1>5, <2>2
      <4>2. ~PhpFlawed(file[i].d, file[i].arg, backend)
        BY <1>9, <4>1
      <4>3. file[i].d = "backend" => backend = <<file[i].arg>>
        BY <1>5
      <4> QED
        BY <1>6, <1>10, <2>2, <4>2, <4>3
    <3> QED
      BY <1>1, <1>3, <3>1 DEF FitInv
  <2> HIDE DEF Left
  <2>5. /\ \A d \in Directives : conf'["outer"][d] = Left(d)
        /\ conf' = [s \in LineScopes |-> [d \in Directives |-> conf'[s][d]]]
    <3>1. /\ "outer" \in DOMAIN conf /\ DOMAIN conf = LineScopes
          /\ \A s \in LineScopes : conf[s] = [d \in Directives |-> conf[s][d]]
      BY <1>2 DEF LineScopes
    <3>2. conf'["outer"] = [d \in Directives |-> Left(d)]
      BY <2>1, <3>1
    <3>3. \A s \in LineScopes : s # "outer" => conf'[s] = conf[s]
      BY <2>1, <3>1
    <3>4. \A s \in LineScopes : conf'[s] = [d \in Directives |-> conf'[s][d]]
      BY <3>1, <3>2, <3>3
    <3>5. conf' = [s \in LineScopes |-> conf'[s]]
      BY <2>1, <3>1
    <3> QED
      BY <3>2, <3>4, <3>5
  <2>6. TypeInv'
    BY <1>1, <1>2, <1>3, <2>1, <2>5 DEF TypeInv
  <2>7. ASSUME NEW d \in Directives
        PROVE  \/ /\ config[d] = Unset /\ Left(d) = Php!PhpDefault[d]
                  /\ Meaning("outer", d) = Unset
               \/ \E arg : /\ config[d] = <<arg>> /\ Meaning("outer", d) = ArgMeaning(d, arg)
                           /\ ArgMeaning(d, arg) # Unset
                           /\ Left(d) = IF d = "template" /\ arg = ""
                                        THEN Php!PhpDefault[d] ELSE ArgMeaning(d, arg)
    <3>1. CASE config[d] = Unset
      <4>1. options[d] = {Unset} /\ Said("outer", d) = <<>>
        BY <1>4, <1>5, <3>1
      <4>2. Value(d) = Unset
        BY <2>3, <4>1
      <4> QED
        BY <3>1, <4>1, <4>2, MeaningIs DEF Left
    <3>2. CASE config[d] # Unset
      <4>1. PICK i \in DOMAIN file : /\ file[i].d = d /\ config[d] = <<file[i].arg>>
                                     /\ Said("outer", d) # <<>>
                                     /\ Said("outer", d)[1] = file[i]
                                     /\ Len(Said("outer", d)) = 1
        BY <1>5, <3>2
      <4>2. Value(d) = (IF d = "template" /\ file[i].arg = "" THEN Unset
                        ELSE ArgMeaning(d, file[i].arg))
            /\ ArgMeaning(d, file[i].arg) # Unset
        BY <1>9, <2>2, <2>3, <4>1
      <4>3. Meaning("outer", d) = ArgMeaning(d, file[i].arg)
        BY <1>1, <4>1, MeaningIs
      <4> QED
        BY <4>1, <4>2, <4>3 DEF Left
    <3> QED
      BY <3>1, <3>2
  <2>8. ASSUME NEW d \in Available
        PROVE  Stands(d, Left(d), WantedIn("outer", d))
    <3>1. d \in Directives
      BY <1>2
    <3>2. CASE Left(d) = Php!PhpDefault[d] /\ Meaning("outer", d) = Unset
      <4>1. WantedIn("outer", d) = Documented(d)
        BY <3>2 DEF WantedIn
      <4>2. /\ Left(d) = IF d \in {"redisAddr", "redisPassword"} THEN Unset ELSE Documented(d)
            /\ d = "redisAddr" => Documented(d) = DefaultAddr
            /\ d = "redisPassword" => Documented(d) = <<"">>
        BY <1>1, <3>2, PhpDefaults
      <4>3. Documented("template") = Unset
        BY <1>1 DEF Documented, Lists
      <4>4. Unset # <<"">>
        BY DEF Unset
      <4> QED
        BY <1>1, <4>1, <4>2, <4>3, <4>4 DEF Stands
    <3>3. ASSUME NEW arg, Meaning("outer", d) = ArgMeaning(d, arg), ArgMeaning(d, arg) # Unset,
                 Left(d) = IF d = "template" /\ arg = ""
                           THEN Php!PhpDefault[d] ELSE ArgMeaning(d, arg)
          PROVE  Stands(d, Left(d), WantedIn("outer", d))
      <4>1. WantedIn("outer", d) = ArgMeaning(d, arg)
        BY <3>3 DEF WantedIn
      <4>2. CASE d = "template" /\ arg = ""
        <5>1. Php!PhpDefault["template"] = Unset
          BY <1>1, <3>1, <4>2, PhpDefaults DEF Documented, Lists
        <5>2. ArgMeaning(d, arg) = <<"">>
          BY <1>1, <4>2 DEF ArgMeaning, Numbers, Flags
        <5> QED
          BY <1>1, <3>3, <4>1, <4>2, <5>1, <5>2 DEF Stands
      <4>3. CASE ~(d = "template" /\ arg = "")
        <5>1. d = "template" => ArgMeaning(d, arg) # <<"">>
          <6>1. ArgMeaning("template", arg) = <<arg>>
            BY <1>1 DEF ArgMeaning, Numbers, Flags
          <6> QED
            BY <4>3, <6>1, OneWord
        <5> QED
          BY <1>1, <3>3, <4>1, <4>3, <5>1 DEF Stands
      <4> QED
        BY <4>2, <4>3
    <3> QED
      BY <2>7, <3>1, <3>2, <3>3
  <2>9. ServeInv'
    <3>1. ASSUME NEW s \in Scopes, NEW d \in Available
          PROVE  Stands(d, Resolved(conf[s])[d], WantedIn(s, d))'
      <4>1. s = "outer" /\ d \in Directives
        BY <1>2
      <4>2. Resolved(conf[s])' = conf'["outer"]
        BY <1>1, <4>1 DEF Resolved
      <4>3. Stands(d, conf'["outer"][d], WantedIn(s, d)')
        BY <1>3, <2>5, <2>8, <4>1
      <4> QED
        BY <1>1, <4>2, <4>3 DEF Stands
    <3>2. ASSUME conf'["outer"]["backend"] = <<"redis">>
          PROVE  conf'["outer"]["redisAddr"] # Unset
      <4>1. Left("backend") = <<"redis">> /\ conf'["outer"]["redisAddr"] = Left("redisAddr")
        BY <1>7, <2>5, <3>2
      <4>2. config["backend"] = <<"redis">>
        <5>1. "backend" \in Available
          BY <1>1, <1>7 DEF Available
        <5>2. Php!PhpDefault["backend"] = <<"">>
          BY <1>1, <5>1, PhpDefaults DEF Documented, Lists
        <5>3. <<"">> # <<"redis">>
          BY OneWord
        <5>4. PICK arg : config["backend"] = <<arg>> /\ Left("backend") = ArgMeaning("backend", arg)
          BY <1>7, <2>7, <4>1, <5>2, <5>3
        <5>5. ArgMeaning("backend", arg) = <<arg>>
          BY DEF ArgMeaning, Numbers, Flags
        <5> QED
          BY <4>1, <5>4, <5>5
      <4>3. config["redisAddr"] # Unset
        BY <1>6, <2>2, <4>2
      <4> QED
        BY <1>7, <2>7, <4>1, <4>3
    <3>3. conf'["outer"]["parseOnHeader"] = Unset
      <4>1. "parseOnHeader" \in Directives /\ "parseOnHeader" \notin Available
        BY <1>1 DEF Directives, Flags, Available
      <4>2. config["parseOnHeader"] = Unset
        BY <1>5, <4>1
      <4>4. Left("parseOnHeader") = Php!PhpDefault["parseOnHeader"]
        <5>1. \A arg : <<arg>> # Unset
          BY DEF Unset
        <5> HIDE DEF config
        <5>2. \A arg : config["parseOnHeader"] # <<arg>>
          BY <4>2, <5>1
        <5> QED
          BY <2>7, <4>1, <5>2
      <4>5. Php!PhpDefault["parseOnHeader"] = Unset
        <5>1. "parseOnHeader" \in Php!Directives
          BY <4>1, SameDirectives
        <5> QED
          BY <5>1 DEF Php!PhpDefault, Unset, Php!Unset
      <4> QED
        BY <2>5, <4>1, <4>4, <4>5
    <3> QED
      BY <1>3, <3>1, <3>2, <3>3 DEF ServeInv
  <2> QED
    BY <1>8, <2>1, <2>4, <2>6, <2>9 DEF Inv, LoadInv, FailInv, ServedInv
<1> QED
  BY <1>11, <1>12

----------------------------------------------------------------------------
(* A request is served.                                                    *)

(* The settings whose ranges libgomesi checks.                             *)
Ranged == {"maxDepth", "timeout", "maxResponseSize", "maxConcurrent", "maxWorkers"}

(* A number that has been taken is in range.                               *)
LEMMA MeaningFits ==
    ASSUME Inv, Taken, NEW s, NEW d \in Numbers, Meaning(s, d) # Unset
    PROVE  Meaning(s, d)[1] \in Bounds(d)
<1>1. file \in Seq(Lines) /\ Said(s, d) # <<>> /\ d \notin Lists /\ d # "enable"
  BY MeaningIs DEF Inv, TypeInv, Numbers, Lists
<1> DEFINE l == Said(s, d)[Len(Said(s, d))]
<1>2. l \in About(Lines, s, d) /\ \E i \in DOMAIN file : l = file[i]
  BY <1>1, SaidFromFile
<1>3. l.d = d /\ Meaning(s, d) = ArgMeaning(d, l.arg)
  BY <1>1, <1>2, MeaningIs DEF About
<1> HIDE DEF l
<1>4. ~Fault(l)
  BY <1>2 DEF Inv, FitInv
<1>5. CASE platform = "php"
  <2>1. l.arg[1] \in Bounds(d)
    BY <1>3, <1>4, <1>5 DEF Fault
  <2>2. Meaning(s, d) = l.arg
    BY <1>3, <1>5 DEF ArgMeaning
  <2> QED
    BY <2>1, <2>2
<1>6. CASE platform # "php"
  <2>1. Decimal(NumberOf(l.arg)) \in Bounds(d)
    BY <1>3, <1>4, <1>6 DEF Fault, IsNumber
  <2>2. Meaning(s, d) = <<Decimal(NumberOf(l.arg))>>
    BY <1>3, <1>6 DEF ArgMeaning
  <2> QED
    BY <2>1, <2>2
<1> QED
  BY <1>5, <1>6

(* libgomesi accepts what is in the ranges a server documents.             *)
LEMMA BoundsAccepted ==
    ASSUME NEW d \in Ranged, NEW n \in Bounds(d)
    PROVE  Accepts(d, n) /\ Nginx!Accepts(d, n)
  BY DEF Ranged, Bounds, DocumentedBounds, Accepts, Nginx!Accepts,
         SizeMax, Nginx!SizeMax

(* What a reader expects of them is accepted.                              *)
LEMMA WantedFits ==
    ASSUME Inv, Taken, NEW s, NEW d \in Ranged, WantedIn(s, d) # Unset
    PROVE  WantedIn(s, d)[1] \in Bounds(d)
<1>1. d \in Numbers
  BY DEF Ranged, Numbers
<1>2. CASE WantedIn(s, d) = Documented(d)
  <2>1. Documented(d) # Unset
    BY <1>2
  <2>2. d = "maxDepth"
    BY <2>1 DEF Ranged, Documented, Lists
  <2>3. Documented("maxDepth") = <<5>>
    BY DEF Documented, Lists
  <2>4. Bounds("maxDepth") = 0..DepthMax
    BY DEF Bounds, DocumentedBounds
  <2>5. 5 \in 0..DepthMax
    BY WidthFacts
  <2>6. Documented(d) = <<5>> /\ Bounds(d) = 0..DepthMax
    BY <2>2, <2>3, <2>4
  <2>7. WantedIn(s, d)[1] = 5
    BY <1>2, <2>6
  <2> QED
    BY <2>5, <2>6, <2>7
<1>3. CASE WantedIn(s, d) # Documented(d)
  BY <1>1, <1>3, MeaningFits DEF WantedIn
<1> QED
  BY <1>2, <1>3

(* A request finds them as they are expected.                              *)
LEMMA RangedServed ==
    ASSUME Inv, Taken, NEW s \in Scopes, NEW d \in Ranged
    PROVE  /\ Resolved(conf[s])[d] = WantedIn(s, d)
           /\ Resolved(conf[s])[d] # Unset =>
                 /\ Accepts(d, Resolved(conf[s])[d][1])
                 /\ Nginx!Accepts(d, Resolved(conf[s])[d][1])
<1>1. d \in Available
  BY DEF Inv, TypeInv, Ranged, Available, Directives, Numbers, Contexts
<1>2. Stands(d, Resolved(conf[s])[d], WantedIn(s, d))
  BY <1>1 DEF Inv, ServeInv
<1>3. d \notin {"redisAddr", "redisPassword", "template"}
  BY DEF Ranged
<1>4. Resolved(conf[s])[d] = WantedIn(s, d)
  BY <1>2, <1>3 DEF Stands
<1> QED
  BY <1>4, WantedFits, BoundsAccepted

(* A request keeps the invariant; none is refused.                         *)
LEMMA ServeStepInv ==
    ASSUME Inv, NEW s \in Scopes, Serve(s)
    PROVE  Inv'
<1>1. /\ phase = "serving" /\ scope' = s
      /\ platform' = platform /\ lib' = lib /\ topic' = topic /\ file' = file /\ conf' = conf
  BY DEF Serve
<1>2. Taken
  BY <1>1 DEF Taken
<1>3. ~(platform = "nginx" /\ Nginx!ParseRefuses(Resolved(conf[s])))
  <2> DEFINE c == Resolved(conf[s])
  <2>1. \A d \in Ranged : c[d] # Unset => Nginx!Accepts(d, c[d][1])
    BY <1>2, RangedServed
  <2> HIDE DEF c
  <2>2. ~Nginx!ParseRefuses(c)
    BY <2>1 DEF Nginx!ParseRefuses, Ranged, Unset, Nginx!Unset
  <2> QED
    BY <2>2 DEF c
<1>4. /\ phase' = "served" /\ handed' = Handed(Resolved(conf[s]))
      /\ warned' = Warnings(Resolved(conf[s]))
  BY <1>3 DEF Serve
<1>5. /\ Lines' = Lines /\ GoodLines' = GoodLines /\ Scopes' = Scopes /\ Available' = Available
      /\ \A t, d : Said(t, d)' = Said(t, d)
      /\ \A t, d : WantedIn(t, d)' = WantedIn(t, d)
      /\ \A l : Fault(l)' <=> Fault(l)
  BY <1>1, SamePlatform, SameFile
<1>6. \A c : /\ Resolved(c)' = Resolved(c) /\ Json(c)' = Json(c) /\ Cache(c)' = Cache(c)
             /\ Template(c)' = Template(c) /\ EntryOf(c)' = EntryOf(c)
             /\ Handed(c)' = Handed(c) /\ Warnings(c)' = Warnings(c)
  <2>1. \A c : /\ Resolved(c)' = Resolved(c) /\ Json(c)' = Json(c) /\ Cache(c)' = Cache(c)
               /\ Template(c)' = Template(c)
    BY <1>1 DEF Resolved, Json, Cache, Template
  <2>2. \A c : EntryOf(c)' = EntryOf(c)
    BY <1>1, <2>1 DEF EntryOf
  <2> QED
    BY <1>1, <2>1, <2>2 DEF Handed, Warnings
<1>7. ServedInv'
  BY <1>1, <1>4, <1>6 DEF ServedInv
<1>8. TypeInv'
  BY <1>1, <1>4, <1>5 DEF Inv, TypeInv
<1>9. OnceInv' /\ FitInv'
  BY <1>1, <1>2, <1>5 DEF Inv, OnceInv, FitInv, Taken
<1>10. ServeInv'
  <2>1. ASSUME NEW t \in Scopes, NEW d \in Available
        PROVE  Stands(d, Resolved(conf[t])[d], WantedIn(t, d))'
    <3>1. Stands(d, Resolved(conf[t])[d], WantedIn(t, d))
      BY <1>2 DEF Inv, ServeInv
    <3>2. Resolved(conf[t])' = Resolved(conf[t])
      BY <1>1 DEF Resolved
    <3> QED
      BY <1>1, <1>5, <3>1, <3>2 DEF Stands
  <2> QED
    BY <1>1, <1>2, <1>5, <2>1 DEF Inv, ServeInv
<1> QED
  BY <1>4, <1>7, <1>8, <1>9, <1>10 DEF Inv, LoadInv, FailInv

----------------------------------------------------------------------------
(* The invariant holds.                                                    *)

(* Every step keeps the invariant.                                         *)
LEMMA StepInv == Inv /\ [Next]_vars => Inv'
<1> SUFFICES ASSUME Inv, [Next]_vars
             PROVE  Inv'
  OBVIOUS
<1>1. ASSUME NEW s \in Scopes, NEW d \in topic.of \intersect Available,
             NEW arg \in Writable(d), Line(s, d, arg)
      PROVE  Inv'
  BY <1>1, LineInv
<1>2. CASE EndOfFile
  BY <1>2, EndInv
<1>3. CASE Call
  BY <1>3, CallInv
<1>4. ASSUME NEW s \in Scopes, Serve(s)
      PROVE  Inv'
  BY <1>4, ServeStepInv
<1>5. CASE UNCHANGED vars
  <2>1. /\ platform' = platform /\ lib' = lib /\ topic' = topic /\ file' = file /\ conf' = conf
        /\ phase' = phase /\ scope' = scope /\ handed' = handed /\ warned' = warned
    BY <1>5 DEF vars
  <2>2. /\ Lines' = Lines /\ GoodLines' = GoodLines /\ Scopes' = Scopes /\ Available' = Available
        /\ \A t, d : Said(t, d)' = Said(t, d)
        /\ \A t, d : WantedIn(t, d)' = WantedIn(t, d)
        /\ \A l : Fault(l)' <=> Fault(l)
        /\ \A said, d : StoredOf(said, d)' = StoredOf(said, d)
    BY <2>1, SamePlatform, SameFile
  <2>3. TypeInv' /\ OnceInv' /\ FailInv' /\ FitInv'
    BY <2>1, <2>2 DEF Inv, TypeInv, OnceInv, FailInv, FitInv, Taken
  <2>4. LoadInv'
    <3>1. SUFFICES ASSUME phase = "loading", NEW s \in LineScopes, NEW d \in Directives
                   PROVE  conf[s][d] = StoredOf(Said(s, d), d)'
      BY <2>1 DEF LoadInv
    <3>2. StoredOf(Said(s, d), d)' = StoredOf(Said(s, d), d)
      BY <2>1, <2>2 DEF StoredOf, ArgMeaning, NumberOf, NewConf
    <3> QED
      BY <3>1, <3>2 DEF Inv, LoadInv
  <2>5. ServeInv'
    <3>1. ASSUME Taken, NEW t \in Scopes, NEW d \in Available
          PROVE  Stands(d, Resolved(conf[t])[d], WantedIn(t, d))'
      <4>1. Stands(d, Resolved(conf[t])[d], WantedIn(t, d))
        BY <3>1 DEF Inv, ServeInv
      <4>2. Resolved(conf[t])' = Resolved(conf[t])
        BY <2>1 DEF Resolved
      <4> QED
        BY <2>1, <2>2, <4>1, <4>2 DEF Stands
    <3> QED
      BY <2>1, <2>2, <3>1 DEF Inv, ServeInv, Taken
  <2>6. ServedInv'
    <3>1. \A c : /\ Resolved(c)' = Resolved(c) /\ Json(c)' = Json(c) /\ Cache(c)' = Cache(c)
                 /\ Template(c)' = Template(c)
      BY <2>1 DEF Resolved, Json, Cache, Template
    <3>2. \A c : EntryOf(c)' = EntryOf(c)
      BY <2>1, <3>1 DEF EntryOf
    <3>3. \A c : Handed(c)' = Handed(c) /\ Warnings(c)' = Warnings(c)
      BY <2>1, <3>1, <3>2 DEF Handed, Warnings
    <3>4. Resolved(conf[scope])' = Resolved(conf[scope])
      BY <2>1 DEF Resolved
    <3>5. Handed(Resolved(conf[scope]))' = Handed(Resolved(conf[scope]))
          /\ Warnings(Resolved(conf[scope]))' = Warnings(Resolved(conf[scope]))
      BY <2>1 DEF Handed, Warnings, EntryOf, Json, Cache, Template, Resolved
    <3> QED
      BY <2>1, <3>5 DEF Inv, ServedInv
  <2> QED
    BY <2>3, <2>4, <2>5, <2>6 DEF Inv
<1> QED
  BY <1>1, <1>2, <1>3, <1>4, <1>5 DEF Next

(* Whatever is read, merged, checked and served, Inv holds.                *)
THEOREM SettingsInvariant == Spec => []Inv
<1>1. Init => Inv
  BY InitInv
<1>2. Inv /\ [Next]_vars => Inv'
  BY StepInv
<1> QED
  BY <1>1, <1>2, PTL DEF Spec

(* The invariant implies RefusedExactly.                                   *)
LEMMA RefusedExactlyHolds == Inv => RefusedExactly
<1> SUFFICES ASSUME Inv
             PROVE  RefusedExactly
  OBVIOUS
<1>1. phase \in {"serving", "served"} => \A i \in DOMAIN file : ~Fault(file[i])
  BY DEF Inv, FitInv, Taken
<1>2. phase = "failed" /\ (\A i \in DOMAIN file : Plain(file[i])) =>
         \E i \in DOMAIN file : Fault(file[i])
  BY DEF Inv, FailInv
<1>3. phase # "refused"
  BY DEF Inv, TypeInv
<1>4. ASSUME NEW d \in Ranged, handed[d] # Unset
      PROVE  Accepts(d, handed[d][1])
  <2>1. d \in Directives
    BY DEF Ranged, Directives, Numbers
  <2>2. CASE phase # "served"
    <3>1. handed[d] = Unset
      BY <2>1, <2>2 DEF Inv, TypeInv, NothingHanded
    <3> QED
      BY <1>4, <3>1
  <2>3. CASE phase = "served"
    <3> DEFINE c == Resolved(conf[scope])
    <3>1. handed = Handed(c)
      BY <2>3 DEF Inv, ServedInv
    <3> HIDE DEF c
    <3>2. Handed(c)[d] \in {c[d], Unset}
      BY <2>1 DEF Handed, Ranged, JsonOnly, Contexts, CacheOnly
    <3>3. handed[d] = c[d]
      BY <1>4, <3>1, <3>2
    <3>4. Taken /\ scope \in Scopes
      BY <2>3 DEF Taken, Inv, TypeInv
    <3>5. c[d] # Unset => Accepts(d, c[d][1])
      BY <3>4, RangedServed DEF c
    <3> QED
      BY <1>4, <3>3, <3>5
  <2> QED
    BY <2>2, <2>3
<1> QED
  BY <1>1, <1>2, <1>3, <1>4 DEF RefusedExactly, Ranged

(* A server starts with a file, and a call is made with an array, exactly  *)
(* when every number is within Bounds: the documented range, but for the   *)
(* two departures named there (and Apache's limit of digits).  No request  *)
(* is refused afterwards, and libgomesi accepts what it is handed: for all *)
(* widths, texts and files.                                                *)
THEOREM SettingsRefusedExactly == Spec => []RefusedExactly
  BY SettingsInvariant, RefusedExactlyHolds, PTL

----------------------------------------------------------------------------
(* What a request hands over.                                              *)

(* What a request that is served finds and what is wanted there.           *)
LEMMA ServedFacts ==
    ASSUME Inv, phase = "served"
    PROVE  LET c == Resolved(conf[scope])
           IN /\ handed = Handed(c) /\ warned = Warnings(c)
              /\ \A d \in Available : Stands(d, c[d], Wanted(d))
              /\ \A d \in JsonOnly \union {"bypass"} : c[d] = Wanted(d)
              /\ JsonOnly \union {"bypass", "template", "backend"} \subseteq Directives
              /\ c["backend"] = Wanted("backend")
              /\ platform \in {"nginx", "apache", "php"} /\ lib \in Libraries
              /\ Available \subseteq Directives
<1> DEFINE c == Resolved(conf[scope])
<1>1. \A d : Wanted(d) = WantedIn(scope, d)
  BY DEF Wanted, WantedIn
<1>2. /\ TypeInv /\ ServeInv /\ Taken /\ scope \in Scopes /\ topic \in Topics
      /\ handed = Handed(c) /\ warned = Warnings(c)
      /\ platform \in {"nginx", "apache", "php"} /\ lib \in Libraries
  BY DEF Inv, TypeInv, ServedInv, Taken
<1>3. Available \subseteq Directives
  BY <1>2, ScopeFacts
<1>4. \A d \in Available : Stands(d, c[d], Wanted(d))
  BY <1>1, <1>2 DEF ServeInv
<1>5. JsonOnly \union {"bypass", "template", "backend"} \subseteq Directives
  BY DEF JsonOnly, Directives, Numbers, Flags, Words
<1>6. /\ JsonOnly \ {"parseOnHeader"} \subseteq Available
      /\ "bypass" \in Available /\ "backend" \in Available
      /\ platform # "php" => "parseOnHeader" \in Available
  BY <1>2, <1>5 DEF JsonOnly, Available, Contexts
<1>7. CASE platform = "php"
  <2>1. scope = "outer" /\ c = conf["outer"]
    BY <1>2, <1>7, ScopeFacts DEF Resolved
  <2>2. c["parseOnHeader"] = Unset
    BY <1>2, <1>7, <2>1 DEF ServeInv
  <2>3. "parseOnHeader" \notin Available
    BY <1>7 DEF Available
  <2>4. file \in Seq(Lines)
    BY <1>2 DEF TypeInv
  <2>5. Said(scope, "parseOnHeader") = <<>>
    <3>1. ASSUME Said(scope, "parseOnHeader") # <<>>
          PROVE  FALSE
      <4>1. Said(scope, "parseOnHeader")[1] \in About(Lines, scope, "parseOnHeader")
        BY <2>4, <3>1, SaidFromFile
      <4> QED
        BY <2>3, <4>1, LineFacts
    <3> QED
      BY <3>1
  <2>6. Meaning(scope, "parseOnHeader") = Unset
    BY <2>5, MeaningIs
  <2>7. Documented("parseOnHeader") = Unset
    BY <1>7 DEF Documented, Lists
  <2>8. Wanted("parseOnHeader") = Unset
    BY <2>1, <2>6, <2>7 DEF Wanted
  <2>9. \A d \in JsonOnly \union {"bypass", "backend"} : d # "parseOnHeader" => c[d] = Wanted(d)
    BY <1>4, <1>6, <1>7 DEF Stands, JsonOnly
  <2> HIDE DEF c
  <2>10. \A d \in JsonOnly \union {"bypass", "backend"} : c[d] = Wanted(d)
    BY <2>2, <2>8, <2>9
  <2> QED
    BY <1>2, <1>3, <1>4, <1>5, <2>10 DEF c
<1>8. CASE platform # "php"
  <2>1. \A d \in JsonOnly \union {"bypass", "backend"} : d \in Available
    BY <1>6, <1>8
  <2>2. \A d \in JsonOnly \union {"bypass", "backend"} :
           d \notin {"redisAddr", "redisPassword", "template"}
    BY DEF JsonOnly
  <2> HIDE DEF c
  <2>3. \A d \in JsonOnly \union {"bypass", "backend"} : c[d] = Wanted(d)
    BY <1>2, <1>4, <1>8, <2>1, <2>2 DEF Stands
  <2> QED
    BY <1>2, <1>3, <1>4, <1>5, <2>3 DEF c
<1> QED
  BY <1>7, <1>8

(* The template the entry point is given: the wanted one, if there is one. *)
LEMMA TemplateIs ==
    ASSUME Inv, phase = "served"
    PROVE  Template(Resolved(conf[scope])) =
              IF \/ platform = "php" /\ Wanted("backend") = <<"">>
                 \/ Wanted("template") \in {Unset, <<"">>}
              THEN Unset ELSE Wanted("template")
<1> DEFINE c == Resolved(conf[scope])
           w == Wanted("template")
<1>1. /\ platform \in {"nginx", "apache", "php"} /\ c["backend"] = Wanted("backend")
      /\ \A d \in Available : Stands(d, c[d], Wanted(d))
      /\ "template" \in Directives
  BY ServedFacts
<1>2. "template" \in Available
  BY <1>1 DEF Available, Contexts
<1>3. Stands("template", c["template"], w)
  BY <1>1, <1>2
<1> HIDE DEF c, w
<1>4. CASE platform = "php"
  <2>1. c["template"] = IF w = <<"">> THEN Unset ELSE w
    BY <1>3, <1>4 DEF Stands
  <2>2. Template(c) = IF c["backend"] = <<"">> THEN Unset ELSE c["template"]
    BY <1>4, SameDirectives DEF Template, Php!PhpTemplate
  <2> QED
    BY <1>1, <1>4, <2>1, <2>2 DEF c, w
<1>5. CASE platform # "php"
  <2>1. c["template"] = w \/ (w = Unset /\ c["template"] = <<"">>)
    BY <1>1, <1>3, <1>5 DEF Stands
  <2>2. Template(c) = IF c["template"] = <<"">> THEN Unset ELSE c["template"]
    BY <1>5 DEF Template
  <2>3. Template(c) = IF w \in {Unset, <<"">>} THEN Unset ELSE w
    <3> HIDE DEF Unset
    <3> QED
      BY <2>1, <2>2
  <2> QED
    BY <1>5, <2>3 DEF c, w
<1> QED
  BY <1>4, <1>5

(* Which of its settings go into the JSON.                                 *)
LEMMA JsonIs ==
    ASSUME Inv, phase = "served"
    PROVE  Json(Resolved(conf[scope])) =
              {d \in JsonOnly : /\ Wanted(d) # Unset
                                /\ platform = "apache" /\ d = "marker" => Wanted(d) # <<"">>}
<1> DEFINE c == Resolved(conf[scope])
<1>1. /\ platform \in {"nginx", "apache", "php"}
      /\ \A d \in JsonOnly : c[d] = Wanted(d)
  BY ServedFacts
<1> HIDE DEF c
<1>2. Nginx!JsonOnly = JsonOnly /\ Apache!JsonOnly = JsonOnly /\ Php!JsonOnly = JsonOnly
  BY DEF JsonOnly, Nginx!JsonOnly, Apache!JsonOnly, Php!JsonOnly
<1>3. CASE platform = "nginx"
  <2>1. Json(c) = {d \in JsonOnly : c[d] # Unset}
    BY <1>2, <1>3, SameDirectives DEF Json, Nginx!NginxJson
  <2> QED
    BY <1>1, <1>3, <2>1 DEF c
<1>4. CASE platform = "apache"
  <2>1. Json(c) = {d \in JsonOnly : c[d] # Unset /\ (d = "marker" => c[d] # <<"">>)}
    BY <1>2, <1>4, SameDirectives DEF Json, Apache!ApacheJson
  <2> QED
    BY <1>1, <1>4, <2>1 DEF c
<1>5. CASE platform = "php"
  <2>1. Json(c) = {d \in JsonOnly : c[d] # Unset}
    BY <1>2, <1>5, SameDirectives DEF Json, Php!PhpJson
  <2> QED
    BY <1>1, <1>5, <2>1 DEF c
<1> QED
  BY <1>1, <1>3, <1>4, <1>5

(* The entry point, by the library and what is wanted.                     *)
LEMMA EntryIs ==
    ASSUME NEW c, lib \in Libraries
    PROVE  /\ EntryOf(c) = "json" <=> lib = "json" /\ Json(c) # {}
           /\ EntryOf(c) = "config" <=> lib = "config"
           /\ EntryOf(c) \in {"json", "ctx"} =>  lib \in {"json", "ctx"}
           /\ lib \in {"json", "ctx"} /\ (platform = "php" \/ Template(c) # Unset) =>
                 EntryOf(c) \in {"json", "ctx"}
<1> DEFINE js == Json(c) # {}
           t == platform = "php" \/ Template(c) # Unset
<1>1. EntryOf(c) = IF js /\ lib = "json" THEN "json"
                  ELSE IF t /\ lib \in {"json", "ctx"} THEN "ctx"
                  ELSE IF lib # "config" THEN "ex" ELSE "config"
  BY DEF EntryOf, Entry
<1> HIDE DEF js, t
<1>2. /\ EntryOf(c) = "json" <=> lib = "json" /\ js
      /\ EntryOf(c) = "config" <=> lib = "config"
      /\ EntryOf(c) \in {"json", "ctx"} => lib \in {"json", "ctx"}
      /\ lib \in {"json", "ctx"} /\ t => EntryOf(c) \in {"json", "ctx"}
  BY <1>1 DEF Libraries
<1> QED
  BY <1>2 DEF js, t

(* Handed, by the kind of the setting.                                     *)
LEMMA HandedIs ==
    ASSUME NEW c, NEW d \in Directives
    PROVE  LET template == IF EntryOf(c) \in {"json", "ctx"} THEN Template(c) ELSE Unset
           IN /\ d \in JsonOnly =>
                   Handed(c)[d] = IF EntryOf(c) = "json" /\ d \in Json(c) THEN c[d] ELSE Unset
              /\ d = "bypass" =>
                   Handed(c)[d] = IF EntryOf(c) = "config" THEN <<0>> ELSE c[d]
              /\ d = "template" => Handed(c)[d] = template
              /\ d \in Contexts => Handed(c)[d] = IF template = Unset THEN Unset ELSE c[d]
              /\ d \in CacheOnly =>
                   Handed(c)[d] = IF d \in CacheTakes(c["backend"]) THEN Cache(c)[d] ELSE Unset
              /\ d \notin JsonOnly \union {"bypass", "template"} \union Contexts \union CacheOnly =>
                   Handed(c)[d] = c[d]
<1> DEFINE template == IF EntryOf(c) \in {"json", "ctx"} THEN Template(c) ELSE Unset
<1>1. Handed(c)[d] =
        CASE d \in JsonOnly -> IF EntryOf(c) = "json" /\ d \in Json(c) THEN c[d] ELSE Unset
            [] d = "bypass" -> IF EntryOf(c) = "config" THEN <<0>> ELSE c[d]
            [] d = "template" -> template
            [] d \in Contexts -> IF template = Unset THEN Unset ELSE c[d]
            [] d \in CacheOnly -> IF d \in CacheTakes(c["backend"]) THEN Cache(c)[d]
                                  ELSE Unset
            [] OTHER -> c[d]
  BY DEF Handed
<1> HIDE DEF template
<1>2. CASE d \in JsonOnly
  <2>1. d \notin {"bypass", "template"} \union Contexts \union CacheOnly
    BY <1>2 DEF JsonOnly, Contexts, CacheOnly
  <2>2. Handed(c)[d] = IF EntryOf(c) = "json" /\ d \in Json(c) THEN c[d] ELSE Unset
    BY <1>1, <1>2, <2>1
  <2> QED
    BY <1>2, <2>1, <2>2
<1>3. CASE d = "bypass"
  <2>1. "bypass" \notin JsonOnly \union {"template"} \union Contexts \union CacheOnly
    BY DEF JsonOnly, Contexts, CacheOnly
  <2> QED
    BY <1>1, <1>3, <2>1
<1>4. CASE d = "template"
  <2>1. "template" \notin JsonOnly \union {"bypass"} \union Contexts \union CacheOnly
    BY DEF JsonOnly, Contexts, CacheOnly
  <2> QED
    BY <1>1, <1>4, <2>1 DEF template
<1>5. CASE d \in Contexts
  <2>1. d \notin JsonOnly \union {"bypass", "template"} \union CacheOnly
    BY <1>5 DEF JsonOnly, Contexts, CacheOnly
  <2>2. Handed(c)[d] = IF template = Unset THEN Unset ELSE c[d]
    BY <1>1, <1>5, <2>1
  <2> QED
    BY <1>5, <2>1, <2>2 DEF template
<1>6. CASE d \in CacheOnly
  <2>1. d \notin JsonOnly \union {"bypass", "template"} \union Contexts
    BY <1>6 DEF JsonOnly, Contexts, CacheOnly
  <2>2. Handed(c)[d] = IF d \in CacheTakes(c["backend"]) THEN Cache(c)[d] ELSE Unset
    BY <1>1, <1>6, <2>1
  <2> QED
    BY <1>6, <2>1, <2>2
<1>7. CASE d \notin JsonOnly \union {"bypass", "template"} \union Contexts \union CacheOnly
  <2>1. Handed(c)[d] = c[d]
    BY <1>1, <1>7
  <2> QED
    BY <1>7, <2>1
<1> QED
  BY <1>2, <1>3, <1>4, <1>5, <1>6, <1>7

(* The flag of bypass is 0 or 1.                                           *)
LEMMA BypassIs == Wanted("bypass") \in {<<0>>, <<1>>}
<1>1. \A s : Meaning(s, "bypass") \in {Unset, <<0>>, <<1>>}
  <2>1. ASSUME NEW s
        PROVE  Meaning(s, "bypass") \in {Unset, <<0>>, <<1>>}
    <3>1. "bypass" \notin Lists /\ \A arg : ArgMeaning("bypass", arg) \in {<<0>>, <<1>>}
      BY DEF Lists, ArgMeaning, Numbers, Flags
    <3> HIDE DEF Unset
    <3> QED
      BY <3>1, MeaningIs
  <2> QED
    BY <2>1
<1>2. Documented("bypass") = <<0>>
  BY DEF Documented, Lists
<1> HIDE DEF Unset
<1> QED
  BY <1>1, <1>2 DEF Wanted

(* The invariant implies LossWarned.                                       *)
LEMMA LossWarnedHolds == Inv => LossWarned
<1> SUFFICES ASSUME Inv, phase = "served",
                    NEW d \in JsonOnly \union {"bypass", "template"}
             PROVE  \/ handed[d] = Wanted(d)
                    \/ d \in warned
                    \/ Wanted(d) = <<"">>
                    \/ platform = "php" /\ d = "template" /\ Wanted("backend") = <<"">>
  BY DEF LossWarned
<1> DEFINE c == Resolved(conf[scope])
<1>1. /\ handed = Handed(c) /\ warned = Warnings(c) /\ d \in Directives /\ lib \in Libraries
      /\ d # "template" => c[d] = Wanted(d)
  BY ServedFacts
<1>2. /\ Json(c) = {x \in JsonOnly : /\ Wanted(x) # Unset
                                     /\ platform = "apache" /\ x = "marker" => Wanted(x) # <<"">>}
      /\ Template(c) = IF \/ platform = "php" /\ Wanted("backend") = <<"">>
                          \/ Wanted("template") \in {Unset, <<"">>}
                       THEN Unset ELSE Wanted("template")
  BY JsonIs, TemplateIs
<1>3. /\ lib # "json" => Json(c) \subseteq Warnings(c)
      /\ Template(c) # Unset /\ EntryOf(c) \notin {"json", "ctx"} => "template" \in Warnings(c)
      /\ c["bypass"] = <<1>> /\ EntryOf(c) = "config" => "bypass" \in Warnings(c)
  BY DEF Warnings
<1> HIDE DEF c, Unset
<1>4. CASE d \in JsonOnly
  <2>1. Handed(c)[d] = IF EntryOf(c) = "json" /\ d \in Json(c) THEN c[d] ELSE Unset
    BY <1>1, <1>4, HandedIs
  <2>2. d # "template"
    BY <1>4 DEF JsonOnly
  <2>3. EntryOf(c) = "json" <=> lib = "json" /\ Json(c) # {}
    BY <1>1, EntryIs
  <2>4. CASE d \in Json(c)
    BY <1>1, <1>3, <2>1, <2>2, <2>3, <2>4
  <2>5. CASE d \notin Json(c)
    <3>1. Wanted(d) = Unset \/ Wanted(d) = <<"">>
      BY <1>2, <1>4, <2>5
    <3>2. Handed(c)[d] = Unset
      BY <2>1, <2>5
    <3> QED
      BY <1>1, <3>1, <3>2
  <2> QED
    BY <2>4, <2>5
<1>5. CASE d = "bypass"
  <2>1. Handed(c)[d] = IF EntryOf(c) = "config" THEN <<0>> ELSE c[d]
    BY <1>1, <1>5, HandedIs
  <2>2. c["bypass"] = Wanted("bypass")
    BY <1>1, <1>5
  <2> QED
    BY <1>1, <1>3, <1>5, <2>1, <2>2, BypassIs
<1>6. CASE d = "template"
  <2>1. Handed(c)[d] = IF EntryOf(c) \in {"json", "ctx"} THEN Template(c) ELSE Unset
    BY <1>1, <1>6, HandedIs
  <2> QED
    BY <1>1, <1>2, <1>3, <1>6, <2>1
<1> QED
  BY <1>4, <1>5, <1>6

(* No setting of a parse is dropped without a warning, whatever the        *)
(* library.                                                                *)
THEOREM SettingsLossWarned == Spec => []LossWarned
  BY SettingsInvariant, LossWarnedHolds, PTL

(* A number that fits a C int is not changed on its way into one.          *)
LEMMA WrapFits ==
    ASSUME NEW n \in Nat, n <= IntMax
    PROVE  Nginx!Wrap(n, IntMax) = n
<1> DEFINE m == 2 * (IntMax + 1)
<1>1. IntMax \in Nat
  BY WidthFacts
<1>2. n + IntMax + 1 \in 0..(m - 1) /\ m \in Nat /\ m > 0
  BY <1>1
<1>3. (n + IntMax + 1) % m = n + IntMax + 1
  <2> HIDE DEF m
  <2> QED
    BY <1>1, <1>2
<1>4. ((n + IntMax + 1) % m) - (IntMax + 1) = n
  <2> HIDE DEF m
  <2> QED
    BY <1>1, <1>3
<1> QED
  BY <1>4 DEF Nginx!Wrap

(* The sizes nginx has for a cache are numbers.                            *)
LEMMA NginxSizes ==
    ASSUME Inv, Taken, platform = "nginx", NEW d \in {"cacheSize", "cacheTtl", "redisDb"}
    PROVE  Wanted(d)[1] \in Nat /\ Wanted(d) = <<Wanted(d)[1]>>
<1>1. d \in Numbers /\ d \notin Lists /\ d # "enable"
  BY DEF Numbers, Lists
<1>2. ASSUME NEW s, Meaning(s, d) # Unset
      PROVE  Meaning(s, d)[1] \in Nat /\ Meaning(s, d) = <<Meaning(s, d)[1]>>
  <2>1. Meaning(s, d)[1] \in Bounds(d)
    BY <1>1, <1>2, MeaningFits
  <2>2. Bounds(d) = 0..LongMax
    BY DEF Bounds, DocumentedBounds
  <2>3. \E arg : Meaning(s, d) = ArgMeaning(d, arg)
    BY <1>1, <1>2, MeaningIs
  <2>4. \E n : Meaning(s, d) = <<n>>
    BY <1>1, <2>3 DEF ArgMeaning
  <2>5. Meaning(s, d) = <<Meaning(s, d)[1]>>
    BY <2>4
  <2> QED
    BY <2>1, <2>2, <2>5, WidthFacts
<1>3. Documented(d) \in {<<10>>, <<3>>, <<0>>}
  BY DEF Documented, Lists
<1>4. Documented(d)[1] \in Nat /\ Documented(d) = <<Documented(d)[1]>>
  <2>1. PICK n \in {10, 3, 0} : Documented(d) = <<n>>
    BY <1>3
  <2> QED
    BY <2>1
<1> QED
  BY <1>2, <1>4 DEF Wanted

(* An address that is wanted is a text, or the default one.                *)
LEMMA AddressIs ==
    ASSUME Inv, phase # "failed"
    PROVE  /\ Wanted("redisAddr") # EmptyText("redisAddr")
           /\ Wanted("redisAddr") # Unset
<1>1. DefaultAddr # EmptyText("redisAddr") /\ DefaultAddr # Unset
      /\ Unset # EmptyText("redisAddr")
  <2>1. <<-2>> # <<-1>>
    BY OneWord
  <2> QED
    BY <2>1 DEF DefaultAddr, EmptyText, Unset
<1>2. Documented("redisAddr") = DefaultAddr
  BY DEF Documented, Lists
<1>3. ASSUME NEW s, Meaning(s, "redisAddr") # Unset
      PROVE  Meaning(s, "redisAddr") # EmptyText("redisAddr")
  <2>1. /\ file \in Seq(Lines) /\ topic \in Topics /\ Said(s, "redisAddr") # <<>>
        /\ "redisAddr" \notin Lists
    BY <1>3, MeaningIs DEF Inv, TypeInv, Lists
  <2> DEFINE l == Said(s, "redisAddr")[Len(Said(s, "redisAddr"))]
  <2>2. l \in About(Lines, s, "redisAddr")
    BY <2>1, SaidFromFile
  <2>3. l.arg \in Writable("redisAddr") /\ Meaning(s, "redisAddr") = ArgMeaning("redisAddr", l.arg)
    BY <1>3, <2>1, <2>2, MeaningIs, LineFacts
  <2> HIDE DEF l
  <2>4. l.arg \in Seq(0..Blank)
    BY <2>1, <2>3, WrittenTexts
  <2>5. Meaning(s, "redisAddr") = IF l.arg = <<>> THEN DefaultAddr ELSE l.arg
    BY <2>3 DEF ArgMeaning, Numbers
  <2> QED
    BY <1>1, <2>4, <2>5, NoTextIsDefault
<1> HIDE DEF Unset
<1> QED
  BY <1>1, <1>2, <1>3 DEF Wanted

(* What the calls that set up the cache take.                              *)
LEMMA CacheIs ==
    ASSUME Inv, phase = "served", NEW d \in CacheOnly, d \in CacheTakes(Wanted("backend"))
    PROVE  \/ Cache(Resolved(conf[scope]))[d] = Wanted(d)
           \/ /\ platform = "nginx" /\ d \in {"cacheSize", "cacheTtl", "redisDb"}
              /\ Wanted(d)[1] > IntMax
<1> DEFINE c == Resolved(conf[scope])
           w == Wanted(d)
<1>1. /\ platform \in {"nginx", "apache", "php"} /\ c["backend"] = Wanted("backend")
      /\ \A x \in Available : Stands(x, c[x], Wanted(x))
  BY ServedFacts
<1>2. d \in Available /\ Taken
  BY <1>1 DEF Available, CacheOnly, Directives, Numbers, Words, Lists, Contexts, Taken
<1>3. Stands(d, c[d], w) /\ d # "template"
  BY <1>1, <1>2 DEF CacheOnly
<1>4. /\ Wanted("redisAddr") # EmptyText("redisAddr") /\ Wanted("redisAddr") # Unset
  BY AddressIs
<1>5. Nginx!CacheOnly = CacheOnly /\ Apache!CacheOnly = CacheOnly /\ Php!CacheOnly = CacheOnly
      /\ Nginx!DefaultAddr = DefaultAddr /\ Apache!DefaultAddr = DefaultAddr
      /\ \A x : Nginx!EmptyText(x) = EmptyText(x)
  BY DEF CacheOnly, Nginx!CacheOnly, Apache!CacheOnly, Php!CacheOnly, DefaultAddr,
         Nginx!DefaultAddr, Apache!DefaultAddr, Nginx!EmptyText, EmptyText
<1>6. CASE platform = "nginx"
  <2>1. Cache(c)[d] = CASE d \in {"cacheSize", "cacheTtl", "redisDb"} ->
                             <<Nginx!Wrap(c[d][1], IntMax)>>
                        [] d = "redisAddr" /\ c[d] = EmptyText(d) -> DefaultAddr
                        [] OTHER -> c[d]
    BY <1>5, <1>6 DEF Cache, Nginx!NginxCache
  <2> HIDE DEF c, w
  <2>2. c[d] = IF d = "redisAddr" /\ w = DefaultAddr THEN EmptyText(d) ELSE w
    BY <1>3, <1>6 DEF Stands
  <2>3. CASE d \in {"cacheSize", "cacheTtl", "redisDb"}
    <3>1. Cache(c)[d] = <<Nginx!Wrap(w[1], IntMax)>>
      BY <2>1, <2>2, <2>3
    <3>2. w[1] \in Nat /\ w = <<w[1]>>
      BY <1>2, <1>6, <2>3, NginxSizes DEF w
    <3>3. CASE w[1] <= IntMax
      <4>1. Nginx!Wrap(w[1], IntMax) = w[1]
        BY <3>2, <3>3, WrapFits
      <4> QED
        BY <3>1, <3>2, <4>1 DEF c, w
    <3>4. CASE ~(w[1] <= IntMax)
      <4>1. w[1] > IntMax
        BY <3>2, <3>4, WidthFacts
      <4> QED
        BY <1>6, <2>3, <4>1 DEF w
    <3> QED
      BY <3>3, <3>4
  <2>4. CASE d = "redisAddr"
    <3>1. Cache(c)[d] = IF c[d] = EmptyText(d) THEN DefaultAddr ELSE c[d]
      BY <2>1, <2>4
    <3>2. w # EmptyText(d)
      BY <1>4, <2>4 DEF w
    <3> QED
      BY <2>2, <2>4, <3>1, <3>2 DEF c, w
  <2>5. CASE d \in {"redisPassword", "servers"}
    <3>1. Cache(c)[d] = c[d]
      BY <2>1, <2>5
    <3> QED
      BY <2>2, <2>5, <3>1 DEF c, w
  <2> QED
    BY <2>3, <2>4, <2>5 DEF CacheOnly
<1>7. ASSUME d = "redisPassword"
      PROVE  w # Unset
  <2>1. Documented("redisPassword") = <<"">> /\ <<"">> # Unset
    BY DEF Documented, Lists, Unset
  <2> HIDE DEF Unset
  <2> QED
    BY <1>7, <2>1 DEF Wanted
<1>8. CASE platform = "apache"
  <2>1. Cache(c)[d] = CASE d = "redisAddr" /\ c[d] = Unset -> DefaultAddr
                        [] d = "redisPassword" /\ c[d] = Unset -> <<"">>
                        [] OTHER -> c[d]
    BY <1>5, <1>8, SameDirectives DEF Cache, Apache!ApacheCache
  <2>2. w # Unset \/ d \notin {"redisAddr", "redisPassword"}
    BY <1>4, <1>7
  <2> HIDE DEF c, w, Unset
  <2>3. c[d] = IF \/ d = "redisAddr" /\ w = DefaultAddr
                  \/ d = "redisPassword" /\ w = <<"">>
               THEN Unset ELSE w
    BY <1>3, <1>8 DEF Stands
  <2>4. CASE d = "redisAddr"
    BY <2>1, <2>2, <2>3, <2>4 DEF c, w
  <2>5. CASE d = "redisPassword"
    BY <2>1, <2>2, <2>3, <2>5 DEF c, w
  <2>6. CASE d \notin {"redisAddr", "redisPassword"}
    BY <2>1, <2>3, <2>6 DEF c, w
  <2> QED
    BY <2>4, <2>5, <2>6
<1>9. CASE platform = "php"
  <2>1. Cache(c)[d] = IF d = "redisPassword" /\ c[d] = Unset THEN <<"">> ELSE c[d]
    BY <1>5, <1>9, SameDirectives DEF Cache, Php!PhpCache
  <2>2. c = conf["outer"]
    BY <1>9, ScopeFacts DEF Inv, TypeInv, Resolved
  <2>3. ASSUME d = "redisAddr"
        PROVE  c[d] # Unset
    <3>1. Wanted("backend") = <<"redis">>
      BY <2>3 DEF CacheTakes
    <3> QED
      BY <1>1, <1>2, <1>9, <2>2, <2>3, <3>1 DEF Inv, ServeInv
  <2>4. d = "redisPassword" => w # Unset
    BY <1>7
  <2> HIDE DEF c, w, Unset
  <2>5. \/ c[d] = w
        \/ /\ c[d] = Unset
           /\ \/ d = "redisAddr" /\ w = DefaultAddr
              \/ d = "redisPassword" /\ w = <<"">>
    BY <1>3, <1>9 DEF Stands
  <2>6. CASE d = "redisPassword"
    <3>1. Cache(c)[d] = IF c[d] = Unset THEN <<"">> ELSE c[d]
      BY <2>1, <2>6
    <3>2. w # Unset /\ (c[d] = w \/ (c[d] = Unset /\ w = <<"">>))
      BY <2>4, <2>5, <2>6
    <3>3. Cache(c)[d] = w
      <4>1. CASE c[d] = Unset
        BY <3>1, <3>2, <4>1
      <4>2. CASE c[d] # Unset
        BY <3>1, <3>2, <4>2
      <4> QED
        BY <4>1, <4>2
    <3> QED
      BY <3>3 DEF c, w
  <2>7. CASE d # "redisPassword"
    <3>1. Cache(c)[d] = c[d]
      BY <2>1, <2>7
    <3>2. c[d] = w
      BY <2>3, <2>5, <2>7
    <3> QED
      BY <3>1, <3>2 DEF c, w
  <2> QED
    BY <2>6, <2>7
<1> QED
  BY <1>1, <1>6, <1>8, <1>9

(* What can be handed over, by the kind of the setting.                    *)
LEMMA PossibleIs ==
    ASSUME NEW d \in Available
    PROVE  LET template == /\ lib \in {"json", "ctx"}
                           /\ platform = "php" => Wanted("backend") # <<"">>
                           /\ Wanted("template") \notin {Unset, <<"">>}
           IN /\ d \in JsonOnly =>
                   (Possible(d) <=> /\ lib = "json"
                                    /\ ~(platform = "apache" /\ d = "marker" /\ Wanted(d) = <<"">>))
              /\ d = "bypass" => (Possible(d) <=> lib # "config")
              /\ d = "template" \/ d \in Contexts => (Possible(d) <=> template)
              /\ d \in CacheOnly => (Possible(d) <=> d \in CacheTakes(Wanted("backend")))
              /\ d \notin JsonOnly \union {"bypass", "template"} \union Contexts \union CacheOnly =>
                   Possible(d)
<1> DEFINE template == /\ lib \in {"json", "ctx"}
                       /\ platform = "php" => Wanted("backend") # <<"">>
                       /\ Wanted("template") \notin {Unset, <<"">>}
<1>1. Possible(d) =
        CASE d \in JsonOnly -> lib = "json" /\
                ~(platform = "apache" /\ d = "marker" /\ Wanted(d) = <<"">>)
          [] d = "bypass" -> lib # "config"
          [] d = "template" \/ d \in Contexts -> template
          [] d \in CacheOnly -> d \in CacheTakes(Wanted("backend"))
          [] OTHER -> TRUE
  BY DEF Possible
<1> HIDE DEF template
<1>2. CASE d \in JsonOnly
  <2>1. d \notin {"bypass", "template"} \union Contexts \union CacheOnly
    BY <1>2 DEF JsonOnly, Contexts, CacheOnly
  <2> QED
    BY <1>1, <1>2, <2>1
<1>3. CASE d = "bypass"
  <2>1. "bypass" \notin JsonOnly \union {"template"} \union Contexts \union CacheOnly
    BY DEF JsonOnly, Contexts, CacheOnly
  <2> QED
    BY <1>1, <1>3, <2>1
<1>4. CASE d = "template" \/ d \in Contexts
  <2>1. d \notin JsonOnly \union {"bypass"} \union CacheOnly
    BY <1>4 DEF JsonOnly, Contexts, CacheOnly
  <2>2. Possible(d) <=> template
    BY <1>1, <1>4, <2>1
  <2> QED
    BY <1>4, <2>1, <2>2 DEF template
<1>5. CASE d \in CacheOnly
  <2>1. d \notin JsonOnly \union {"bypass", "template"} \union Contexts
    BY <1>5 DEF JsonOnly, Contexts, CacheOnly
  <2> QED
    BY <1>1, <1>5, <2>1
<1>6. CASE d \notin JsonOnly \union {"bypass", "template"} \union Contexts \union CacheOnly
  BY <1>1, <1>6
<1> QED
  BY <1>2, <1>3, <1>4, <1>5, <1>6

(* The invariant implies AsWritten.                                        *)
LEMMA AsWrittenHolds == Inv => AsWritten
<1> SUFFICES ASSUME Inv, phase = "served", NEW d \in Available
             PROVE  \/ handed[d] = IF Possible(d) THEN Wanted(d)
                                   ELSE IF d = "bypass" THEN <<0>> ELSE Unset
                    \/ /\ platform = "nginx" /\ d \in {"cacheSize", "cacheTtl", "redisDb"}
                       /\ Wanted(d)[1] > IntMax
  BY DEF AsWritten
<1> DEFINE c == Resolved(conf[scope])
           possible == /\ lib \in {"json", "ctx"}
                       /\ platform = "php" => Wanted("backend") # <<"">>
                       /\ Wanted("template") \notin {Unset, <<"">>}
           template == IF EntryOf(c) \in {"json", "ctx"} THEN Template(c) ELSE Unset
<1>1. /\ handed = Handed(c) /\ d \in Directives /\ lib \in Libraries
      /\ d \in JsonOnly \union {"bypass"} => c[d] = Wanted(d)
      /\ Stands(d, c[d], Wanted(d)) /\ c["backend"] = Wanted("backend")
      /\ platform \in {"nginx", "apache", "php"}
  BY ServedFacts
<1>2. /\ Json(c) = {x \in JsonOnly : /\ Wanted(x) # Unset
                                     /\ platform = "apache" /\ x = "marker" => Wanted(x) # <<"">>}
      /\ Template(c) = IF \/ platform = "php" /\ Wanted("backend") = <<"">>
                          \/ Wanted("template") \in {Unset, <<"">>}
                       THEN Unset ELSE Wanted("template")
  BY JsonIs, TemplateIs
<1>3. /\ EntryOf(c) = "json" <=> lib = "json" /\ Json(c) # {}
      /\ EntryOf(c) = "config" <=> lib = "config"
      /\ EntryOf(c) \in {"json", "ctx"} =>  lib \in {"json", "ctx"}
      /\ lib \in {"json", "ctx"} /\ (platform = "php" \/ Template(c) # Unset) =>
            EntryOf(c) \in {"json", "ctx"}
  BY <1>1, EntryIs
<1>4. d \notin JsonOnly \union CacheOnly \union {"template"} =>
         c[d] = Wanted(d)
  BY <1>1 DEF Stands, CacheOnly
(* The template is given exactly when it can be.                           *)
<1>5. template = IF possible THEN Wanted("template") ELSE Unset
  <2> HIDE DEF c, Unset
  <2>1. CASE possible
    <3>1. Template(c) = Wanted("template") /\ Template(c) # Unset
      BY <1>2, <2>1
    <3> QED
      BY <1>3, <2>1, <3>1
  <2>2. CASE ~possible
    <3>1. lib \notin {"json", "ctx"} \/ Template(c) = Unset
      BY <1>2, <2>2
    <3> QED
      BY <1>3, <2>2, <3>1
  <2> QED
    BY <2>1, <2>2
<1>6. CASE d \in JsonOnly
  <2>1. Handed(c)[d] = IF EntryOf(c) = "json" /\ d \in Json(c) THEN c[d] ELSE Unset
    BY <1>1, <1>6, HandedIs
  <2>2. Possible(d) <=> /\ lib = "json"
                        /\ ~(platform = "apache" /\ d = "marker" /\ Wanted(d) = <<"">>)
    BY <1>6, PossibleIs
  <2>3. d # "bypass" /\ c[d] = Wanted(d)
    BY <1>1, <1>6 DEF JsonOnly
  <2> HIDE DEF c, Unset
  <2>4. CASE d \in Json(c)
    <3>1. Handed(c)[d] = IF lib = "json" THEN Wanted(d) ELSE Unset
      BY <1>3, <2>1, <2>3, <2>4
    <3>2. Possible(d) <=> lib = "json"
      BY <1>2, <2>2, <2>4
    <3> QED
      BY <1>1, <2>3, <3>1, <3>2
  <2>5. CASE d \notin Json(c)
    <3>1. Handed(c)[d] = Unset
      BY <2>1, <2>5
    <3>2. Wanted(d) = Unset \/ ~Possible(d)
      BY <1>2, <1>6, <2>2, <2>5
    <3> QED
      BY <1>1, <2>3, <3>1, <3>2
  <2> QED
    BY <2>4, <2>5
<1>7. CASE d = "bypass"
  <2>1. Handed(c)[d] = IF EntryOf(c) = "config" THEN <<0>> ELSE c[d]
    BY <1>1, <1>7, HandedIs
  <2>2. Possible(d) <=> lib # "config"
    BY <1>7, PossibleIs
  <2> HIDE DEF c
  <2> QED
    BY <1>1, <1>3, <1>7, <2>1, <2>2
<1>8. CASE d = "template"
  <2>1. Handed(c)[d] = template
    BY <1>1, <1>8, HandedIs
  <2>2. Possible(d) <=> possible
    BY <1>8, PossibleIs
  <2> HIDE DEF c, template, possible, Unset
  <2> QED
    BY <1>1, <1>5, <1>8, <2>1, <2>2
<1>9. CASE d \in Contexts
  <2>1. Handed(c)[d] = IF template = Unset THEN Unset ELSE c[d]
    BY <1>1, <1>9, HandedIs
  <2>2. Possible(d) <=> possible
    BY <1>9, PossibleIs
  <2>3. template = Unset <=> ~possible
    <3> HIDE DEF template, Unset
    <3> QED
      BY <1>5
  <2>4. c[d] = Wanted(d) /\ d # "bypass"
    BY <1>4, <1>9 DEF Contexts, JsonOnly, CacheOnly
  <2> HIDE DEF c, template, possible, Unset
  <2> QED
    BY <1>1, <2>1, <2>2, <2>3, <2>4
<1>10. CASE d \in CacheOnly
  <2>1. Handed(c)[d] = IF d \in CacheTakes(c["backend"]) THEN Cache(c)[d] ELSE Unset
    BY <1>1, <1>10, HandedIs
  <2>2. Possible(d) <=> d \in CacheTakes(Wanted("backend"))
    BY <1>10, PossibleIs
  <2>3. d # "bypass"
    BY <1>10 DEF CacheOnly
  <2>4. d \in CacheTakes(Wanted("backend")) =>
           \/ Cache(c)[d] = Wanted(d)
           \/ /\ platform = "nginx" /\ d \in {"cacheSize", "cacheTtl", "redisDb"}
              /\ Wanted(d)[1] > IntMax
    BY <1>10, CacheIs
  <2> HIDE DEF c, Unset
  <2> QED
    BY <1>1, <2>1, <2>2, <2>3, <2>4
<1>11. CASE d \notin JsonOnly \union {"bypass", "template"} \union Contexts \union CacheOnly
  <2>1. Handed(c)[d] = c[d]
    BY <1>1, <1>11, HandedIs
  <2>2. Possible(d)
    BY <1>11, PossibleIs
  <2> HIDE DEF c
  <2> QED
    BY <1>1, <1>4, <1>11, <2>1, <2>2
<1> QED
  BY <1>6, <1>7, <1>8, <1>9, <1>10, <1>11

(* A request hands over what the innermost line says, or else the          *)
(* documented default, through whichever entry point and backend the other *)
(* settings lead to.                                                       *)
THEOREM SettingsAsWritten == Spec => []AsWritten
  BY SettingsInvariant, AsWrittenHolds, PTL
============================================================================
