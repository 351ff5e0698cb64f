-------------------------- MODULE ConversationProofs --------------------------
(***************************************************************************)
(* Theorems about the conversation and its recovery, for any calls, sizes  *)
(* of the protected tail, and numbers of messages, compactions and crashes. *)
(***************************************************************************)
EXTENDS Conversation, Integers, TLAPS, WellFoundedInduction, FiniteSetTheorems

State == [messages : Seq(Message), pending : SUBSET Calls, results : SUBSET Calls]
Fact ==
    [type : {"message"}, message : Message]
        \cup [type : {"accepted", "completed"}, call : Calls]
        \cup [type : {"compacted"}, cleared : SUBSET Nat, replacements : Seq(Message)]
        \cup [type : {"snapshot"}, state : State, lastSeq : Nat]

-----------------------------------------------------------------------------
(* Induction over the positions of a sequence *)

(* A set of numbers that has 0 and, below n, the successor of each of its   *)
(* members has all numbers up to n.                                         *)
LEMMA Climbs ==
    ASSUME NEW n \in Nat, NEW S, 0 \in S, \A i \in Nat : i < n /\ i \in S => i + 1 \in S
    PROVE  \A i \in 0..n : i \in S
<1> DEFINE T == {i \in Nat : i <= n /\ i \notin S}
<1> SUFFICES ASSUME T # {}
             PROVE  FALSE
    OBVIOUS
<1>1. PICK x \in T : \A y \in T : <<y, x>> \notin OpToRel(<, Nat)
    <2>1. T \subseteq Nat
        OBVIOUS
    <2> HIDE DEF T
    <2> QED BY <2>1, NatLessThanWellFounded, WFMin
<1>2. x \in Nat /\ x <= n /\ x \notin S /\ x # 0
    OBVIOUS
<1>3. x - 1 \in Nat /\ x - 1 < x /\ x - 1 < n /\ (x - 1) + 1 = x
    BY <1>2
<1>4. x - 1 \notin T
    <2>1. <<x - 1, x>> \in OpToRel(<, Nat)
        BY <1>2, <1>3 DEF OpToRel
    <2> QED BY <1>1, <2>1
<1>5. x - 1 \in S
    BY <1>2, <1>3, <1>4
<1> QED BY <1>2, <1>3, <1>5

-----------------------------------------------------------------------------
(* Recursive functions over the positions of a sequence *)

(* f takes n steps from s. *)
Unfolded(n, D, s, step, f) ==
    f \in [0..n -> D] /\ f[0] = s /\ \A i \in 1..n : f[i] = step[i][f[i - 1]]

(* Steps that stay in a set can be taken one after another. *)
LEMMA Unfolds ==
    ASSUME NEW n \in Nat, NEW D, NEW s \in D, NEW step \in [1..n -> [D -> D]]
    PROVE  \E f : Unfolded(n, D, s, step, f)
<1> DEFINE Part(m, f) == f[0] = s /\ \A i \in 1..m : f[i] = step[i][f[i - 1]]
           S == {m \in Nat : \E f \in [0..m -> D] : Part(m, f)}
<1>1. 0 \in S
    <2>1. [i \in 0..0 |-> s] \in [0..0 -> D] /\ Part(0, [i \in 0..0 |-> s])
        OBVIOUS
    <2> QED BY <2>1
<1>2. ASSUME NEW m \in Nat, m < n, m \in S
      PROVE  m + 1 \in S
    <2>1. PICK f \in [0..m -> D] : Part(m, f)
        BY <1>2
    <2> DEFINE g == [i \in 0..(m + 1) |-> IF i = m + 1 THEN step[m + 1][f[m]] ELSE f[i]]
    <2>2. m \in 0..m /\ m + 1 \in 1..n /\ m + 1 \in 0..(m + 1) /\ 0 \in 0..(m + 1) /\ 0 # m + 1
        BY <1>2
    <2>3. f[m] \in D
        BY <2>2
    <2>4. step[m + 1] \in [D -> D]
        BY <2>2
    <2>5. step[m + 1][f[m]] \in D
        BY <2>3, <2>4
    <2>6. \A i \in 0..(m + 1) : i # m + 1 => i \in 0..m
        OBVIOUS
    <2>7. g \in [0..(m + 1) -> D]
        BY <2>5, <2>6
    <2>8. g[0] = s
        BY <2>1, <2>2
    <2>9. ASSUME NEW i \in 1..(m + 1)
          PROVE  g[i] = step[i][g[i - 1]]
        <3>1. i \in 0..(m + 1) /\ i - 1 \in 0..(m + 1) /\ i - 1 # m + 1
            OBVIOUS
        <3>2. g[i - 1] = f[i - 1]
            BY <3>1
        <3>3. CASE i = m + 1
            <4>1. g[i] = step[m + 1][f[m]] /\ i - 1 = m
                BY <3>1, <3>3
            <4> QED BY <3>2, <3>3, <4>1
        <3>4. CASE i # m + 1
            <4>1. i \in 1..m /\ g[i] = f[i]
                BY <3>1, <3>4
            <4> QED BY <2>1, <3>2, <4>1
        <3> QED BY <3>3, <3>4
    <2>10. Part(m + 1, g)
        BY <2>8, <2>9
    <2> HIDE DEF g, Part
    <2>11. \E h \in [0..(m + 1) -> D] : Part(m + 1, h)
        BY <2>7, <2>10
    <2> QED BY <2>11
<1> HIDE DEF S
<1>3. \A i \in Nat : i < n /\ i \in S => i + 1 \in S
    BY <1>2
<1>4. \A i \in 0..n : i \in S
    BY <1>1, <1>3, Climbs
<1>5. n \in S
    BY <1>4
<1> QED BY <1>5 DEF S, Unfolded

-----------------------------------------------------------------------------
(* The messages at some positions *)

PickRun(ms, at, f) ==
    f = [i \in 0..Len(ms) |-> IF i = 0 THEN <<>>
                              ELSE IF i \in at THEN Append(f[i - 1], ms[i]) ELSE f[i - 1]]

(* The recursive function of Picked exists, and gives what it picks. *)
LEMMA PickRuns ==
    ASSUME NEW T, NEW ms \in Seq(T), NEW at
    PROVE  \E f \in [0..Len(ms) -> Seq(T)] :
                /\ f[0] = <<>>
                /\ \A i \in 1..Len(ms) :
                    f[i] = IF i \in at THEN Append(f[i - 1], ms[i]) ELSE f[i - 1]
                /\ Picked(ms, at) = f[Len(ms)]
<1> DEFINE n == Len(ms)
           step == [i \in 1..n |-> [x \in Seq(T) |-> IF i \in at THEN Append(x, ms[i]) ELSE x]]
           Steps(f) == /\ f[0] = <<>>
                       /\ \A i \in 1..n : f[i] = IF i \in at THEN Append(f[i - 1], ms[i])
                                                 ELSE f[i - 1]
           g == CHOOSE f : PickRun(ms, at, f)
<1>1. n \in Nat /\ <<>> \in Seq(T) /\ \A i \in 1..n : ms[i] \in T
    OBVIOUS
<1>2. step \in [1..n -> [Seq(T) -> Seq(T)]]
    BY <1>1
<1>3. PICK f \in [0..n -> Seq(T)] : f[0] = <<>> /\ \A i \in 1..n : f[i] = step[i][f[i - 1]]
    <2> DEFINE D == Seq(T)
               e == <<>>
    <2>1. e \in D /\ n \in Nat /\ step \in [1..n -> [D -> D]]
        BY <1>1, <1>2
    <2> HIDE DEF step, n, D, e
    <2>2. \E f : Unfolded(n, D, e, step, f)
        BY <2>1, Unfolds
    <2> QED BY <2>2 DEF D, e, Unfolded
<1>4. \A i \in 1..n : i - 1 \in 0..n /\ i \in 0..n /\ i # 0
    BY <1>1
<1>5. Steps(f)
    BY <1>3, <1>4
<1>6. PickRun(ms, at, f)
    <2> DEFINE h == [i \in 0..n |-> IF i = 0 THEN <<>>
                              ELSE IF i \in at THEN Append(f[i - 1], ms[i]) ELSE f[i - 1]]
    <2>1. \A i \in 0..n : i # 0 => i \in 1..n
        BY <1>1
    <2>2. \A i \in 0..n : f[i] = h[i]
        BY <1>5, <2>1
    <2>3. f = [i \in 0..n |-> f[i]] /\ h = [i \in 0..n |-> h[i]]
        OBVIOUS
    <2> HIDE DEF h
    <2>4. f = h
        BY <2>2, <2>3
    <2> QED BY <2>4 DEF h, PickRun
<1>7. PickRun(ms, at, g)
    BY <1>6
<1>8. Picked(ms, at) = g[n]
    BY DEF Picked, PickRun
<1> HIDE DEF g, step
<1>9. Steps(g) /\ DOMAIN g = 0..n
    <2>0. 0 \in 0..n
        BY <1>1
    <2>1. \A i \in 0..n : g[i] = IF i = 0 THEN <<>>
                              ELSE IF i \in at THEN Append(g[i - 1], ms[i]) ELSE g[i - 1]
        <3> DEFINE h == [i \in 0..n |-> IF i = 0 THEN <<>>
                              ELSE IF i \in at THEN Append(g[i - 1], ms[i]) ELSE g[i - 1]]
        <3>1. g = h
            BY <1>7 DEF PickRun
        <3>2. \A i \in 0..n : h[i] = IF i = 0 THEN <<>>
                              ELSE IF i \in at THEN Append(g[i - 1], ms[i]) ELSE g[i - 1]
            OBVIOUS
        <3> HIDE DEF h, n
        <3> QED BY <3>1, <3>2
    <2>2. DOMAIN g = 0..n
        BY <1>7 DEF PickRun
    <2>3. g[0] = <<>>
        BY <2>0, <2>1
    <2>4. ASSUME NEW i \in 1..n
          PROVE  g[i] = IF i \in at THEN Append(g[i - 1], ms[i]) ELSE g[i - 1]
        BY <2>1, <1>4
    <2> QED BY <2>2, <2>3, <2>4
<1>10. \A i \in 0..n : i \in {j \in Nat : g[j] \in Seq(T)}
    <2> DEFINE S == {j \in Nat : g[j] \in Seq(T)}
    <2>1. 0 \in S
        BY <1>1, <1>9
    <2>2. ASSUME NEW i \in Nat, i < n, i \in S
          PROVE  i + 1 \in S
        <3>1. i + 1 \in 1..n /\ (i + 1) - 1 = i
            BY <1>1, <2>2
        <3>2. g[i + 1] = IF i + 1 \in at THEN Append(g[i], ms[i + 1]) ELSE g[i]
            BY <1>9, <3>1
        <3>3. ms[i + 1] \in T
            BY <1>1, <3>1
        <3> QED BY <2>2, <3>2, <3>3
    <2> HIDE DEF S
    <2>3. \A i \in Nat : i < n /\ i \in S => i + 1 \in S
        BY <2>2
    <2>4. \A i \in 0..n : i \in S
        BY <1>1, <2>1, <2>3, Climbs
    <2> QED BY <2>4 DEF S
<1>11. \A i \in 0..n : g[i] \in Seq(T)
    BY <1>10
<1>12. g \in [0..n -> Seq(T)]
    <2>1. g = [i \in 0..n |-> g[i]]
        BY <1>7 DEF PickRun
    <2> QED BY <1>11, <2>1
<1> QED BY <1>8, <1>9, <1>12

(* e tells where each message of t stood: in order, and none left out. *)
Places(t, ms, at, e) ==
    /\ e \in [1..Len(t) -> at]
    /\ \A j, k \in 1..Len(t) : j < k => e[j] < e[k]
    /\ \A i \in at : \E k \in 1..Len(t) : e[k] = i
    /\ \A k \in 1..Len(t) : t[k] = ms[e[k]]

(* One more position *)
LEMMA PlacesGrow ==
    ASSUME NEW T, NEW ms \in Seq(T), NEW t \in Seq(T), NEW at, NEW e, Places(t, ms, at, e),
           NEW m \in 1..Len(ms), at \subseteq 1..(m - 1)
    PROVE  \E h : Places(Append(t, ms[m]), ms, at \cup {m}, h)
<1> DEFINE n == Len(t)
           u == Append(t, ms[m])
           h == [k \in 1..(n + 1) |-> IF k = n + 1 THEN m ELSE e[k]]
<1>1. /\ n \in Nat /\ ms[m] \in T /\ Len(u) = n + 1 /\ u[n + 1] = ms[m]
      /\ \A k \in 1..n : u[k] = t[k]
    OBVIOUS
<1>2. \A k \in 1..(n + 1) : k # n + 1 => k \in 1..n
    BY <1>1
<1>3. \A k \in 1..n : k \in 1..(n + 1) /\ k # n + 1
    BY <1>1
<1>4. n + 1 \in 1..(n + 1)
    BY <1>1
<1>5. \A k \in 1..n : e[k] \in at
    BY DEF Places
<1>6. h[n + 1] = m /\ \A k \in 1..n : h[k] = e[k]
    BY <1>3, <1>4
<1>7. h \in [1..(n + 1) -> at \cup {m}]
    BY <1>2, <1>5
<1> HIDE DEF h, u, n
<1>8. ASSUME NEW j \in 1..(n + 1), NEW k \in 1..(n + 1), j < k
      PROVE  h[j] < h[k]
    <2>1. j \in 1..n
        BY <1>1, <1>8
    <2>2. e[j] \in 1..(m - 1)
        BY <1>5, <2>1
    <2>3. CASE k = n + 1
        BY <1>6, <2>1, <2>2, <2>3
    <2>4. CASE k \in 1..n
        <3>1. e[j] < e[k]
            BY <1>8, <2>1, <2>4 DEF Places, n
        <3> QED BY <1>6, <2>1, <2>4, <3>1
    <2> QED BY <1>2, <2>3, <2>4
<1>9. ASSUME NEW i \in at \cup {m}
      PROVE  \E k \in 1..(n + 1) : h[k] = i
    <2>1. CASE i = m
        BY <1>4, <1>6, <2>1
    <2>2. CASE i \in at
        <3>1. PICK k \in 1..n : e[k] = i
            BY <2>2 DEF Places, n
        <3> QED BY <1>3, <1>6, <3>1
    <2> QED BY <2>1, <2>2
<1>10. ASSUME NEW k \in 1..(n + 1)
       PROVE  u[k] = ms[h[k]]
    <2>1. CASE k = n + 1
        BY <1>1, <1>6, <2>1
    <2>2. CASE k \in 1..n
        <3>1. t[k] = ms[e[k]]
            BY <2>2 DEF Places, n
        <3> QED BY <1>1, <1>6, <2>2, <3>1
    <2> QED BY <1>2, <2>1, <2>2
<1>11. Places(u, ms, at \cup {m}, h)
    BY <1>1, <1>7, <1>8, <1>9, <1>10 DEF Places
<1> QED BY <1>11 DEF u

(* Picked keeps the messages at the positions, in their order. *)
LEMMA PickedPlaces ==
    ASSUME NEW T, NEW ms \in Seq(T), NEW at, at \subseteq 1..Len(ms)
    PROVE  Picked(ms, at) \in Seq(T) /\ \E e : Places(Picked(ms, at), ms, at, e)
<1> DEFINE n == Len(ms)
<1>0. n \in Nat
    OBVIOUS
<1>1. PICK f \in [0..n -> Seq(T)] :
                /\ f[0] = <<>>
                /\ \A i \in 1..n : f[i] = IF i \in at THEN Append(f[i - 1], ms[i]) ELSE f[i - 1]
                /\ Picked(ms, at) = f[n]
    BY PickRuns
<1> DEFINE Upto(i) == at \cap 1..i
           S == {i \in Nat : \E e : Places(f[i], ms, Upto(i), e)}
<1>2. 0 \in S
    <2>1. Upto(0) = {} /\ Len(<<>>) = 0 /\ 1..0 = {}
        OBVIOUS
    <2>2. <<>> \in [1..0 -> {}]
        OBVIOUS
    <2> HIDE DEF Upto
    <2>3. Places(<<>>, ms, {}, <<>>)
        BY <2>1, <2>2 DEF Places
    <2> QED BY <1>1, <2>1, <2>3
<1>3. ASSUME NEW i \in Nat, i < n, i \in S
      PROVE  i + 1 \in S
    <2>1. i + 1 \in 1..n /\ (i + 1) - 1 = i /\ i \in 0..n
        BY <1>0, <1>3
    <2>2. f[i] \in Seq(T)
        BY <1>1, <2>1
    <2>3. f[i + 1] = IF i + 1 \in at THEN Append(f[i], ms[i + 1]) ELSE f[i]
        BY <1>1, <2>1
    <2>4. PICK e : Places(f[i], ms, Upto(i), e)
        BY <1>3
    <2>5. CASE i + 1 \in at
        <3>1. Upto(i + 1) = Upto(i) \cup {i + 1} /\ Upto(i) \subseteq 1..((i + 1) - 1)
            BY <2>5
        <3> HIDE DEF Upto, n
        <3>2. \E h : Places(Append(f[i], ms[i + 1]), ms, Upto(i) \cup {i + 1}, h)
            BY <2>1, <2>2, <2>4, <3>1, PlacesGrow DEF n
        <3>3. f[i + 1] = Append(f[i], ms[i + 1])
            BY <2>3, <2>5
        <3>4. \E h : Places(f[i + 1], ms, Upto(i + 1), h)
            BY <3>1, <3>2, <3>3
        <3> QED BY <3>4
    <2>6. CASE i + 1 \notin at
        <3>1. Upto(i + 1) = Upto(i)
            BY <2>6
        <3> QED BY <2>3, <2>4, <2>6, <3>1
    <2> QED BY <2>5, <2>6
<1> HIDE DEF S
<1>4. \A i \in Nat : i < n /\ i \in S => i + 1 \in S
    BY <1>3
<1>5. \A i \in 0..n : i \in S
    BY <1>0, <1>2, <1>4, Climbs
<1>6. n \in S /\ n \in 0..n
    BY <1>0, <1>5
<1>7. \E e : Places(f[n], ms, Upto(n), e)
    BY <1>6 DEF S
<1>8. Upto(n) = at
    OBVIOUS
<1>9. f[n] \in Seq(T)
    BY <1>1, <1>6
<1> QED BY <1>1, <1>7, <1>8, <1>9

-----------------------------------------------------------------------------
(* A compaction *)

(* o tells where each message of r comes from: a position of ms in at, or   *)
(* of c when it is negative; those from ms keep their order.                *)
Origins(r, ms, at, c, o) ==
    /\ o \in [1..Len(r) -> Int]
    /\ \A k \in 1..Len(r) : \/ o[k] \in at /\ o[k] > 0 /\ r[k] = ms[o[k]]
                            \/ -o[k] \in 1..Len(c) /\ r[k] = c[-o[k]]
    /\ \A j, k \in 1..Len(r) : o[j] = o[k] => j = k
    /\ \A j, k \in 1..Len(r) : j < k /\ o[j] > 0 /\ o[k] > 0 => o[j] < o[k]
    /\ \A i \in at : \E k \in 1..Len(r) : o[k] = i
    /\ \A i \in 1..Len(c) : \E k \in 1..Len(r) : o[k] = -i

(* Members of three sequences put together *)
LEMMA ThreeParts ==
    ASSUME NEW T, NEW a \in Seq(T), NEW b \in Seq(T), NEW c \in Seq(T)
    PROVE  /\ a \o c \o b \in Seq(T)
           /\ Len(a \o c \o b) = Len(a) + Len(c) + Len(b)
           /\ \A k \in 1..Len(a) : (a \o c \o b)[k] = a[k]
           /\ \A k \in 1..Len(c) : (a \o c \o b)[Len(a) + k] = c[k]
           /\ \A k \in 1..Len(b) : (a \o c \o b)[Len(a) + Len(c) + k] = b[k]
<1>1. a \o c \in Seq(T) /\ Len(a \o c) = Len(a) + Len(c) /\ Len(a) \in Nat /\ Len(c) \in Nat
    OBVIOUS
<1>2. \A k \in 1..Len(a) : (a \o c)[k] = a[k] /\ k \in 1..Len(a \o c)
    OBVIOUS
<1>3. \A k \in 1..Len(c) : (a \o c)[Len(a) + k] = c[k] /\ Len(a) + k \in 1..Len(a \o c)
    OBVIOUS
<1> DEFINE d == a \o c
<1>4. \A k \in 1..Len(d) : (d \o b)[k] = d[k]
    OBVIOUS
<1>5. \A k \in 1..Len(b) : (d \o b)[Len(d) + k] = b[k]
    OBVIOUS
<1>6. d \o b \in Seq(T) /\ Len(d \o b) = Len(d) + Len(b)
    OBVIOUS
<1> QED BY <1>1, <1>2, <1>3, <1>4, <1>5, <1>6

(* Where the messages come from when replacements stand between two parts *)
LEMMA JoinedOrigins ==
    ASSUME NEW T, NEW ms \in Seq(T), NEW a \in Seq(T), NEW b \in Seq(T), NEW c \in Seq(T),
           NEW A, NEW B, NEW ea, NEW eb, Places(a, ms, A, ea), Places(b, ms, B, eb),
           A \subseteq Nat \ {0}, B \subseteq Nat \ {0}, \A i \in A, j \in B : i < j
    PROVE  \E o : Origins(a \o c \o b, ms, A \cup B, c, o)
<1> DEFINE r == a \o c \o b
           p == Len(a)
           q == p + Len(c)
           n == q + Len(b)
           o == [k \in 1..n |-> IF k <= p THEN ea[k] ELSE IF k <= q THEN p - k ELSE eb[k - q]]
<1>1. Len(a) \in Nat /\ Len(b) \in Nat /\ Len(c) \in Nat
    OBVIOUS
<1>2. Len(r) = n
    BY ThreeParts
<1>3. \A k \in 1..p : r[k] = a[k] /\ ea[k] \in A /\ a[k] = ms[ea[k]]
    <2>1. \A k \in 1..p : r[k] = a[k]
        BY ThreeParts
    <2>2. \A k \in 1..p : ea[k] \in A /\ a[k] = ms[ea[k]]
        BY DEF Places
    <2> HIDE DEF r, p
    <2> QED BY <2>1, <2>2
<1>4. \A k \in 1..Len(c) : r[p + k] = c[k]
    BY ThreeParts
<1>5. \A k \in 1..Len(b) : r[q + k] = b[k] /\ eb[k] \in B /\ b[k] = ms[eb[k]]
    <2>1. \A k \in 1..Len(b) : r[q + k] = b[k]
        <3> TAKE k \in 1..Len(b)
        <3>1. (a \o c \o b)[Len(a) + Len(c) + k] = b[k]
            BY ThreeParts
        <3> QED BY <3>1
    <2>2. \A k \in 1..Len(b) : eb[k] \in B /\ b[k] = ms[eb[k]]
        BY DEF Places
    <2> HIDE DEF r, q
    <2> QED BY <2>1, <2>2
<1>6. \A k \in 1..n : k > p /\ k <= q => k - p \in 1..Len(c) /\ k = p + (k - p)
    BY <1>1
<1>7. \A k \in 1..n : k > q => k - q \in 1..Len(b) /\ k = q + (k - q) /\ ~ k <= p
    BY <1>1
<1>8. \A k \in 1..n : k <= p => k \in 1..p
    BY <1>1
<1>9. \A k \in 1..n :
        /\ k <= p => o[k] = ea[k]
        /\ k > p /\ k <= q => o[k] = p - k
        /\ k > q => o[k] = eb[k - q]
    BY <1>1
<1> DEFINE First(k) == k \in 1..p /\ o[k] = ea[k] /\ o[k] \in A /\ r[k] = ms[o[k]]
           Middle(k) == /\ k > p /\ k <= q /\ -o[k] \in 1..Len(c) /\ o[k] = p - k
                        /\ r[k] = c[-o[k]]
           Third(k) == /\ k > q /\ k - q \in 1..Len(b) /\ o[k] = eb[k - q] /\ o[k] \in B
                       /\ r[k] = ms[o[k]]
<1>10. ASSUME NEW k \in 1..n
       PROVE  First(k) \/ Middle(k) \/ Third(k)
    <2>1. CASE k <= p
        BY <1>3, <1>8, <1>9, <2>1
    <2>2. CASE k > p /\ k <= q
        <3>1. o[k] = p - k /\ -(p - k) = k - p /\ k - p \in 1..Len(c) /\ k = p + (k - p)
            BY <1>1, <1>6, <1>9, <2>2
        <3>2. r[k] = c[k - p]
            BY <1>4, <3>1
        <3> HIDE DEF o, r
        <3> QED BY <2>2, <3>1, <3>2
    <2>3. CASE k > q
        <3>1. k - q \in 1..Len(b) /\ k = q + (k - q) /\ o[k] = eb[k - q]
            BY <1>7, <1>9, <2>3
        <3>2. r[k] = b[k - q] /\ eb[k - q] \in B /\ b[k - q] = ms[eb[k - q]]
            BY <1>5, <3>1
        <3> HIDE DEF o, r
        <3> QED BY <2>3, <3>1, <3>2
    <2>4. k <= p \/ (k > p /\ k <= q) \/ k > q
        BY <1>1
    <2> HIDE DEF First, Middle, Third
    <2> QED BY <2>1, <2>2, <2>3, <2>4
<1>11. \A k \in 1..p : k \in 1..n
    BY <1>1
<1>12. \A k \in 1..Len(c) : p + k \in 1..n /\ p - (p + k) = -k /\ p + k > p /\ p + k <= q
    BY <1>1
<1>13. \A k \in 1..Len(b) : q + k \in 1..n /\ (q + k) - q = k /\ q + k > q
    BY <1>1
<1>14. \A i \in A : \E k \in 1..n : o[k] = i
    <2> TAKE i \in A
    <2>1. PICK k \in 1..p : ea[k] = i
        BY DEF Places
    <2>2. k \in 1..n /\ o[k] = ea[k]
        BY <1>1, <1>9, <1>11
    <2> HIDE DEF o
    <2> QED BY <2>1, <2>2
<1>15. \A i \in B : \E k \in 1..n : o[k] = i
    <2> TAKE i \in B
    <2>1. PICK k \in 1..Len(b) : eb[k] = i
        BY DEF Places
    <2>2. q + k \in 1..n /\ o[q + k] = eb[k]
        BY <1>9, <1>13
    <2> HIDE DEF o
    <2> QED BY <2>1, <2>2
<1>16. \A i \in 1..Len(c) : \E k \in 1..n : o[k] = -i
    <2> TAKE i \in 1..Len(c)
    <2>1. p + i \in 1..n /\ o[p + i] = -i
        BY <1>9, <1>12
    <2> HIDE DEF o
    <2> QED BY <2>1
<1>17. o = [k \in 1..n |-> o[k]]
    OBVIOUS
<1>18. \A j, k \in 1..p : j < k => ea[j] < ea[k]
    BY DEF Places
<1>19. \A j, k \in 1..Len(b) : j < k => eb[j] < eb[k]
    BY DEF Places
<1> HIDE DEF o, r
<1>20. p \in Nat /\ q \in Nat /\ n \in Nat /\ p <= q
    BY <1>1
<1> HIDE DEF p, q, n
<1>21. \A i \in A \cup B : i \in Int /\ i > 0
    OBVIOUS
<1>22. ASSUME NEW k \in 1..n
       PROVE  o[k] \in Int
    <2>1. CASE Middle(k)
        <3>1. p - k \in Int
            BY <1>20
        <3> QED BY <2>1, <3>1
    <2>2. CASE First(k) \/ Third(k)
        BY <1>21, <2>2
    <2> QED BY <1>10, <2>1, <2>2
<1>23. o \in [1..n -> Int]
    BY <1>17, <1>22
<1>24. \A k \in 1..n : \/ o[k] \in A \cup B /\ o[k] > 0 /\ r[k] = ms[o[k]]
                       \/ -o[k] \in 1..Len(c) /\ r[k] = c[-o[k]]
    BY <1>10, <1>21
<1>25. ASSUME NEW j \in 1..n, NEW k \in 1..n, j < k
       PROVE  o[j] # o[k] /\ (o[j] > 0 /\ o[k] > 0 => o[j] < o[k])
    <2>1. CASE Middle(j)
        <3>1. o[j] \in Int /\ o[j] < 0 /\ o[j] = p - j
            BY <1>20, <1>22, <2>1
        <3>2. CASE Middle(k)
            BY <1>20, <1>25, <3>1, <3>2
        <3>3. CASE First(k) \/ Third(k)
            <4>1. o[k] > 0
                BY <1>21, <3>3
            <4> QED BY <1>22, <3>1, <4>1
        <3> QED BY <1>10, <3>2, <3>3
    <2>2. CASE Middle(k)
        <3>1. o[k] \in Int /\ o[k] < 0
            BY <1>20, <1>22, <2>2
        <3>2. CASE First(j) \/ Third(j)
            <4>1. o[j] > 0
                BY <1>21, <3>2
            <4> QED BY <1>22, <3>1, <4>1
        <3> QED BY <1>10, <2>1, <3>2
    <2>3. CASE First(j) /\ First(k)
        <3>1. o[j] < o[k]
            BY <1>18, <1>25, <2>3
        <3> QED BY <1>22, <3>1
    <2>4. CASE First(j) /\ Third(k)
        <3>1. o[j] < o[k]
            BY <2>4
        <3> QED BY <1>22, <3>1
    <2>5. CASE Third(j) /\ First(k)
        BY <1>20, <1>25, <2>5
    <2>6. CASE Third(j) /\ Third(k)
        <3>1. j - q < k - q
            BY <1>20, <1>25
        <3>2. o[j] < o[k]
            BY <1>19, <2>6, <3>1
        <3> QED BY <1>22, <3>2
    <2> QED BY <1>10, <2>1, <2>2, <2>3, <2>4, <2>5, <2>6
<1>26. \A j, k \in 1..n : o[j] = o[k] => j = k
    <2> TAKE j, k \in 1..n
    <2>1. j < k \/ k < j \/ j = k
        BY <1>20
    <2> QED BY <1>25, <2>1
<1>27. \A j, k \in 1..n : j < k /\ o[j] > 0 /\ o[k] > 0 => o[j] < o[k]
    BY <1>25
<1>28. \A i \in A \cup B : \E k \in 1..n : o[k] = i
    BY <1>14, <1>15
<1>29. Origins(r, ms, A \cup B, c, o)
    BY <1>2, <1>16, <1>23, <1>24, <1>26, <1>27, <1>28 DEF Origins
<1> QED BY <1>29 DEF r

(* The least number of a set *)
LEMMA LeastOf ==
    ASSUME NEW S, S \subseteq Nat, S # {}
    PROVE  Min(S) \in S /\ \A y \in S : Min(S) <= y
<1>1. PICK x \in S : \A y \in S : <<y, x>> \notin OpToRel(<, Nat)
    BY NatLessThanWellFounded, WFMin
<1>2. \A y \in S : x <= y
    <2> TAKE y \in S
    <2>1. ~ y < x
        <3>1. y < x => <<y, x>> \in OpToRel(<, Nat)
            BY DEF OpToRel
        <3> QED BY <1>1, <3>1
    <2> QED BY <2>1
<1> QED BY <1>1, <1>2 DEF Min

(* A compaction keeps what it does not clear, in its order, and puts all    *)
(* replacements in.                                                         *)
LEMMA ReplaceOrigins ==
    ASSUME NEW ms \in Seq(Message), NEW cleared, NEW c \in Seq(Message)
    PROVE  /\ Replace(ms, cleared, c) \in Seq(Message)
           /\ \E o : Origins(Replace(ms, cleared, c), ms,
                             1..Len(ms) \ ClearedAt(ms, cleared), c, o)
<1> DEFINE at == ClearedAt(ms, cleared)
           n == Len(ms)
           first == Min(at)
<1>1. n \in Nat /\ DOMAIN ms = 1..n
    OBVIOUS
<1>2. at \subseteq 1..n
    BY <1>1 DEF ClearedAt
<1>3. CASE at = {}
    <2> DEFINE e == [k \in 1..n |-> k]
               none == <<>>
    <2>1. Places(ms, ms, 1..n, e)
        BY <1>1 DEF Places
    <2>2. none \in Seq(Message) /\ Places(none, ms, {}, none)
        <3>1. Len(<<>>) = 0 /\ 1..0 = {}
            OBVIOUS
        <3>2. <<>> \in [1..0 -> {}]
            OBVIOUS
        <3> QED BY <3>1, <3>2 DEF Places
    <2>3. Replace(ms, cleared, c) = ms \o c \o none
        <3>1. Replace(ms, cleared, c) = ms \o c
            BY <1>3 DEF Replace
        <3>2. ms \o c \in Seq(Message) /\ (ms \o c) \o <<>> = ms \o c
            OBVIOUS
        <3> QED BY <3>1, <3>2
    <2>4. 1..n \subseteq Nat \ {0} /\ {} \subseteq Nat \ {0} /\ \A i \in 1..n, j \in {} : i < j
        BY <1>1
    <2> HIDE DEF n, e, none
    <2>5. \E o : Origins(ms \o c \o none, ms, 1..n \cup {}, c, o)
        BY <2>1, <2>2, <2>4, JoinedOrigins
    <2>6. 1..n \cup {} = 1..n \ at
        BY <1>3
    <2>7. ms \o c \o none \in Seq(Message)
        BY <2>2, ThreeParts
    <2> QED BY <2>3, <2>5, <2>6, <2>7 DEF n
<1>4. CASE at # {}
    <2>1. first \in at /\ \A y \in at : first <= y
        BY <1>1, <1>2, <1>4, LeastOf
    <2>2. first \in 1..n
        BY <1>2, <2>1
    <2> DEFINE A == 1..(first - 1)
               B == {i \in DOMAIN ms : i > first} \ at
               a == SubSeq(ms, 1, first - 1)
               b == Picked(ms, B)
               e == [k \in A |-> k]
    <2>3. Replace(ms, cleared, c) = a \o c \o b
        BY <1>4 DEF Replace
    <2> HIDE DEF at, first
    <2>4. a \in Seq(Message) /\ Len(a) = first - 1 /\ \A k \in A : a[k] = ms[k]
        BY <1>1, <2>2
    <2>5. Places(a, ms, A, e)
        BY <2>4 DEF Places
    <2>6. B \subseteq 1..n
        BY <1>1
    <2>7. b \in Seq(Message) /\ \E eb : Places(b, ms, B, eb)
        <3> HIDE DEF B
        <3> QED BY <2>6, PickedPlaces
    <2>8. PICK eb : Places(b, ms, B, eb)
        BY <2>7
    <2>9. A \subseteq Nat \ {0} /\ B \subseteq Nat \ {0} /\ \A i \in A, j \in B : i < j
        BY <1>1, <2>2
    <2>10. A \cup B = 1..n \ at
        <3>1. ASSUME NEW i \in 1..n
              PROVE  i \in A \cup B <=> i \notin at
            <4>1. i < first \/ i = first \/ i > first
                BY <2>2
            <4>2. i < first => i \in A /\ i \notin at
                BY <2>1, <2>2
            <4>3. i > first => i \notin A
                BY <2>2
            <4>4. i = first => i \notin A /\ i \notin B /\ i \in at
                BY <2>1, <2>2
            <4>5. i > first => (i \in B <=> i \notin at)
                BY <1>1
            <4> HIDE DEF A, B
            <4> QED BY <4>1, <4>2, <4>3, <4>4, <4>5
        <3>2. A \subseteq 1..n
            BY <1>1, <2>2
        <3> HIDE DEF A, B
        <3> QED BY <2>6, <3>1, <3>2
    <2> HIDE DEF A, B, a, b, e
    <2>11. \E o : Origins(a \o c \o b, ms, A \cup B, c, o)
        BY <2>4, <2>5, <2>7, <2>8, <2>9, JoinedOrigins
    <2>12. a \o c \o b \in Seq(Message)
        BY <2>4, <2>7, ThreeParts
    <2> QED BY <2>3, <2>10, <2>11, <2>12 DEF at
<1> QED BY <1>3, <1>4

-----------------------------------------------------------------------------
(* A replay of facts, one after another *)

(* The reducer stays in its type. *)
LEMMA ReduceType ==
    ASSUME NEW s \in State, NEW x \in Fact
    PROVE  Reduce(s, x) \in State
<1>1. CASE x.type = "message"
    <2>1. x.message \in Message /\ Reduce(s, x) = [s EXCEPT !.messages = Append(@, x.message)]
        BY <1>1 DEF Fact, Reduce
    <2>2. s.messages \in Seq(Message)
        BY DEF State
    <2>3. Append(s.messages, x.message) \in Seq(Message)
        BY <2>1, <2>2
    <2> QED BY <2>1, <2>3 DEF State
<1>2. CASE x.type = "accepted"
    <2>1. /\ x.call \in Calls
          /\ Reduce(s, x) = [s EXCEPT !.pending = @ \cup {x.call}, !.results = @ \ {x.call}]
        BY <1>2 DEF Fact, Reduce
    <2> QED BY <2>1 DEF State
<1>3. CASE x.type = "completed"
    <2>1. /\ x.call \in Calls
          /\ Reduce(s, x) = [s EXCEPT !.pending = @ \ {x.call}, !.results = @ \cup {x.call}]
        BY <1>3 DEF Fact, Reduce
    <2> QED BY <2>1 DEF State
<1>4. CASE x.type = "compacted"
    <2>1. /\ x.replacements \in Seq(Message)
          /\ Reduce(s, x) = [s EXCEPT !.messages = Replace(@, x.cleared, x.replacements)]
        BY <1>4 DEF Fact, Reduce
    <2>2. s.messages \in Seq(Message)
        BY DEF State
    <2>3. Replace(s.messages, x.cleared, x.replacements) \in Seq(Message)
        BY <2>1, <2>2, ReplaceOrigins
    <2> QED BY <2>1, <2>3 DEF State
<1>5. CASE x.type = "snapshot"
    BY <1>5 DEF Reduce
<1>6. x.type \in {"message", "accepted", "completed", "compacted", "snapshot"}
    BY DEF Fact
<1> QED BY <1>1, <1>2, <1>3, <1>4, <1>5, <1>6

ReduceRun(s, facts, f) ==
    f = [i \in 0..Len(facts) |-> IF i = 0 THEN s ELSE Reduce(f[i - 1], facts[i])]

(* The recursive function of ReduceAll exists, and gives the last state. *)
LEMMA ReduceRuns ==
    ASSUME NEW s \in State, NEW facts \in Seq(Fact)
    PROVE  \E f \in [0..Len(facts) -> State] :
                /\ f[0] = s
                /\ \A i \in 1..Len(facts) : f[i] = Reduce(f[i - 1], facts[i])
                /\ ReduceAll(s, facts) = f[Len(facts)]
<1> DEFINE n == Len(facts)
           step == [i \in 1..n |-> [x \in State |-> Reduce(x, facts[i])]]
           g == CHOOSE f : ReduceRun(s, facts, f)
           start == s
<1>1. n \in Nat /\ start \in State /\ \A i \in 1..n : facts[i] \in Fact
    BY DEF State
<1>2. step \in [1..n -> [State -> State]]
    BY <1>1, ReduceType
<1>3. PICK f \in [0..n -> State] : f[0] = start /\ \A i \in 1..n : f[i] = step[i][f[i - 1]]
    <2> DEFINE D == State
               e == start
    <2>1. e \in D /\ n \in Nat /\ step \in [1..n -> [D -> D]]
        BY <1>1, <1>2
    <2> HIDE DEF step, n, D, e
    <2>2. \E f : Unfolded(n, D, e, step, f)
        BY <2>1, Unfolds
    <2> QED BY <2>2 DEF D, e, Unfolded
<1>4. \A i \in 1..n : i - 1 \in 0..n /\ i \in 0..n /\ i # 0
    BY <1>1
<1>5. f[0] = start /\ \A i \in 1..n : f[i] = Reduce(f[i - 1], facts[i])
    BY <1>3, <1>4
<1>6. ReduceRun(s, facts, f)
    <2> DEFINE h == [i \in 0..n |-> IF i = 0 THEN start ELSE Reduce(f[i - 1], facts[i])]
    <2>1. \A i \in 0..n : i # 0 => i \in 1..n
        BY <1>1
    <2>2. \A i \in 0..n : f[i] = h[i]
        BY <1>5, <2>1
    <2>3. f = [i \in 0..n |-> f[i]] /\ h = [i \in 0..n |-> h[i]]
        OBVIOUS
    <2> HIDE DEF h
    <2>4. f = h
        BY <2>2, <2>3
    <2> QED BY <2>4 DEF h, ReduceRun
<1>7. ReduceRun(s, facts, g)
    BY <1>6
<1>8. ReduceAll(s, facts) = g[n]
    BY DEF ReduceAll, ReduceRun
<1> HIDE DEF g, step
<1>9. \A i \in 0..n : g[i] = IF i = 0 THEN start ELSE Reduce(g[i - 1], facts[i])
    <2> DEFINE h == [i \in 0..n |-> IF i = 0 THEN start ELSE Reduce(g[i - 1], facts[i])]
    <2>1. g = h
        BY <1>7 DEF ReduceRun
    <2>2. \A i \in 0..n : h[i] = IF i = 0 THEN start ELSE Reduce(g[i - 1], facts[i])
        OBVIOUS
    <2> HIDE DEF h, n, start
    <2> QED BY <2>1, <2>2
<1>10. g[0] = start
    <2>1. 0 \in 0..n
        BY <1>1
    <2> QED BY <1>9, <2>1
<1>11. \A i \in 1..n : g[i] = Reduce(g[i - 1], facts[i])
    BY <1>4, <1>9
<1>12. \A i \in 0..n : g[i] \in State
    <2> DEFINE S == {j \in Nat : g[j] \in State}
    <2>1. 0 \in S
        BY <1>1, <1>10
    <2>2. ASSUME NEW i \in Nat, i < n, i \in S
          PROVE  i + 1 \in S
        <3>1. i + 1 \in 1..n /\ (i + 1) - 1 = i
            BY <1>1, <2>2
        <3>2. g[i + 1] = Reduce(g[i], facts[i + 1])
            BY <1>11, <3>1
        <3>3. facts[i + 1] \in Fact
            BY <1>1, <3>1
        <3>4. g[i + 1] \in State
            BY <2>2, <3>2, <3>3, ReduceType
        <3> QED BY <3>4
    <2> HIDE DEF S
    <2>3. \A i \in Nat : i < n /\ i \in S => i + 1 \in S
        BY <2>2
    <2>4. \A i \in 0..n : i \in S
        BY <1>1, <2>1, <2>3, Climbs
    <2> QED BY <2>4 DEF S
<1>13. g \in [0..n -> State]
    <2>1. g = [i \in 0..n |-> g[i]]
        BY <1>7 DEF ReduceRun
    <2> QED BY <1>12, <2>1
<1> QED BY <1>8, <1>10, <1>11, <1>13

(* The replay stays in its type, no facts change nothing, and a last fact   *)
(* is applied to what the others give.                                      *)
LEMMA ReduceSteps ==
    ASSUME NEW s \in State, NEW facts \in Seq(Fact)
    PROVE  /\ ReduceAll(s, facts) \in State
           /\ ReduceAll(s, <<>>) = s
           /\ \A x \in Fact : ReduceAll(s, Append(facts, x)) = Reduce(ReduceAll(s, facts), x)
<1> DEFINE n == Len(facts)
<1>0. n \in Nat /\ n \in 0..n /\ n <= n
    OBVIOUS
<1>1. PICK f \in [0..n -> State] :
                /\ f[0] = s
                /\ \A i \in 1..n : f[i] = Reduce(f[i - 1], facts[i])
                /\ ReduceAll(s, facts) = f[n]
    BY ReduceRuns
<1>2. ReduceAll(s, facts) \in State
    BY <1>0, <1>1
<1>3. ReduceAll(s, <<>>) = s
    <2>1. <<>> \in Seq(Fact) /\ Len(<<>>) = 0
        OBVIOUS
    <2>2. \E h \in [0..Len(<<>>) -> State] : h[0] = s /\ ReduceAll(s, <<>>) = h[Len(<<>>)]
        BY <2>1, ReduceRuns
    <2> QED BY <2>1, <2>2
<1>4. ASSUME NEW x \in Fact
      PROVE  ReduceAll(s, Append(facts, x)) = Reduce(ReduceAll(s, facts), x)
    <2> DEFINE more == Append(facts, x)
    <2>1. /\ more \in Seq(Fact) /\ Len(more) = n + 1 /\ more[n + 1] = x
          /\ \A i \in 1..n : more[i] = facts[i]
        OBVIOUS
    <2> HIDE DEF more
    <2>2. PICK h \in [0..Len(more) -> State] :
                /\ h[0] = s
                /\ \A i \in 1..Len(more) : h[i] = Reduce(h[i - 1], more[i])
                /\ ReduceAll(s, more) = h[Len(more)]
        BY <2>1, ReduceRuns
    <2> HIDE DEF n
    <2>3. \A i \in 1..(n + 1) : h[i] = Reduce(h[i - 1], more[i])
        BY <2>1, <2>2
    <2> DEFINE S == {i \in Nat : f[i] = h[i]}
    <2>4. 0 \in S
        BY <1>1, <2>2
    <2>5. ASSUME NEW i \in Nat, i < n, i \in S
          PROVE  i + 1 \in S
        <3>1. i + 1 \in 1..n /\ i + 1 \in 1..(n + 1) /\ (i + 1) - 1 = i
            BY <1>0, <2>5
        <3>2. f[i + 1] = Reduce(f[i], facts[i + 1])
            BY <1>1, <3>1
        <3>3. h[i + 1] = Reduce(h[i], more[i + 1])
            BY <2>3, <3>1
        <3>4. facts[i + 1] = more[i + 1] /\ f[i] = h[i]
            BY <2>1, <2>5, <3>1
        <3> QED BY <3>2, <3>3, <3>4
    <2> HIDE DEF S
    <2>6. \A i \in Nat : i < n /\ i \in S => i + 1 \in S
        BY <2>5
    <2>7. \A i \in 0..n : i \in S
        BY <1>0, <2>4, <2>6, Climbs
    <2>8. f[n] = h[n]
        BY <1>0, <2>7 DEF S
    <2>9. n + 1 \in 1..(n + 1) /\ (n + 1) - 1 = n
        BY <1>0
    <2>10. h[n + 1] = Reduce(h[n], more[n + 1])
        BY <2>3, <2>9
    <2>11. ReduceAll(s, more) = h[n + 1]
        BY <2>1, <2>2
    <2> QED BY <1>1, <2>1, <2>8, <2>10, <2>11 DEF more
<1> QED BY <1>2, <1>3, <1>4

(* What the loader does with one fact *)
LoadStep(ms, f) ==
    CASE f.type = "message" -> Append(ms, f.message)
      [] f.type = "compacted" /\ \E m \in Range(ms) : m.id \in f.cleared ->
            Replace(ms, f.cleared, f.replacements)
      [] OTHER -> ms

(* The loader stays in its type. *)
LEMMA LoadType ==
    ASSUME NEW ms \in Seq(Message), NEW x \in Fact
    PROVE  LoadStep(ms, x) \in Seq(Message)
<1>1. CASE x.type = "message"
    <2>1. x.message \in Message /\ LoadStep(ms, x) = Append(ms, x.message)
        BY <1>1 DEF Fact, LoadStep
    <2> QED BY <2>1
<1>2. CASE x.type = "compacted" /\ \E m \in Range(ms) : m.id \in x.cleared
    <2>1. /\ x.replacements \in Seq(Message)
          /\ LoadStep(ms, x) = Replace(ms, x.cleared, x.replacements)
        BY <1>2 DEF Fact, LoadStep
    <2> QED BY <2>1, ReplaceOrigins
<1>3. CASE x.type # "message" /\ ~ (x.type = "compacted" /\ \E m \in Range(ms) : m.id \in x.cleared)
    BY <1>3 DEF LoadStep
<1> QED BY <1>1, <1>2, <1>3

LoadRun(facts, f) ==
    f = [i \in 0..Len(facts) |-> IF i = 0 THEN <<>> ELSE LoadStep(f[i - 1], facts[i])]

(* The recursive function of LoadMessages exists, and gives the messages. *)
LEMMA LoadRuns ==
    ASSUME NEW facts \in Seq(Fact)
    PROVE  \E f \in [0..Len(facts) -> Seq(Message)] :
                /\ f[0] = <<>>
                /\ \A i \in 1..Len(facts) : f[i] = LoadStep(f[i - 1], facts[i])
                /\ LoadMessages(facts) = f[Len(facts)]
<1> DEFINE n == Len(facts)
           step == [i \in 1..n |-> [x \in Seq(Message) |-> LoadStep(x, facts[i])]]
           g == CHOOSE f : LoadRun(facts, f)
           start == <<>>
<1>1. n \in Nat /\ start \in Seq(Message) /\ \A i \in 1..n : facts[i] \in Fact
    BY DEF State
<1>2. step \in [1..n -> [Seq(Message) -> Seq(Message)]]
    BY <1>1, LoadType
<1>3. PICK f \in [0..n -> Seq(Message)] : f[0] = start /\ \A i \in 1..n : f[i] = step[i][f[i - 1]]
    <2> DEFINE D == Seq(Message)
               e == start
    <2>1. e \in D /\ n \in Nat /\ step \in [1..n -> [D -> D]]
        BY <1>1, <1>2
    <2> HIDE DEF step, n, D, e
    <2>2. \E f : Unfolded(n, D, e, step, f)
        BY <2>1, Unfolds
    <2> QED BY <2>2 DEF D, e, Unfolded
<1>4. \A i \in 1..n : i - 1 \in 0..n /\ i \in 0..n /\ i # 0
    BY <1>1
<1>5. f[0] = start /\ \A i \in 1..n : f[i] = LoadStep(f[i - 1], facts[i])
    BY <1>3, <1>4
<1>6. LoadRun(facts, f)
    <2> DEFINE h == [i \in 0..n |-> IF i = 0 THEN start ELSE LoadStep(f[i - 1], facts[i])]
    <2>1. \A i \in 0..n : i # 0 => i \in 1..n
        BY <1>1
    <2>2. \A i \in 0..n : f[i] = h[i]
        BY <1>5, <2>1
    <2>3. f = [i \in 0..n |-> f[i]] /\ h = [i \in 0..n |-> h[i]]
        OBVIOUS
    <2> HIDE DEF h
    <2>4. f = h
        BY <2>2, <2>3
    <2> QED BY <2>4 DEF h, LoadRun
<1>7. LoadRun(facts, g)
    BY <1>6
<1>8. LoadMessages(facts) = g[n]
    BY DEF LoadMessages, LoadRun, LoadStep
<1> HIDE DEF g, step
<1>9. \A i \in 0..n : g[i] = IF i = 0 THEN start ELSE LoadStep(g[i - 1], facts[i])
    <2> DEFINE h == [i \in 0..n |-> IF i = 0 THEN start ELSE LoadStep(g[i - 1], facts[i])]
    <2>1. g = h
        BY <1>7 DEF LoadRun
    <2>2. \A i \in 0..n : h[i] = IF i = 0 THEN start ELSE LoadStep(g[i - 1], facts[i])
        OBVIOUS
    <2> HIDE DEF h, n, start
    <2> QED BY <2>1, <2>2
<1>10. g[0] = start
    <2>1. 0 \in 0..n
        BY <1>1
    <2> QED BY <1>9, <2>1
<1>11. \A i \in 1..n : g[i] = LoadStep(g[i - 1], facts[i])
    BY <1>4, <1>9
<1>12. \A i \in 0..n : g[i] \in Seq(Message)
    <2> DEFINE S == {j \in Nat : g[j] \in Seq(Message)}
    <2>1. 0 \in S
        BY <1>1, <1>10
    <2>2. ASSUME NEW i \in Nat, i < n, i \in S
          PROVE  i + 1 \in S
        <3>1. i + 1 \in 1..n /\ (i + 1) - 1 = i
            BY <1>1, <2>2
        <3>2. g[i + 1] = LoadStep(g[i], facts[i + 1])
            BY <1>11, <3>1
        <3>3. facts[i + 1] \in Fact
            BY <1>1, <3>1
        <3>4. g[i + 1] \in Seq(Message)
            BY <2>2, <3>2, <3>3, LoadType
        <3> QED BY <3>4
    <2> HIDE DEF S
    <2>3. \A i \in Nat : i < n /\ i \in S => i + 1 \in S
        BY <2>2
    <2>4. \A i \in 0..n : i \in S
        BY <1>1, <2>1, <2>3, Climbs
    <2> QED BY <2>4 DEF S
<1>13. g \in [0..n -> Seq(Message)]
    <2>1. g = [i \in 0..n |-> g[i]]
        BY <1>7 DEF LoadRun
    <2> QED BY <1>12, <2>1
<1> QED BY <1>8, <1>10, <1>11, <1>13

(* The replay stays in its type, no facts change nothing, and a last fact   *)
(* is applied to what the others give.                                      *)
LEMMA LoadSteps ==
    ASSUME NEW facts \in Seq(Fact)
    PROVE  /\ LoadMessages(facts) \in Seq(Message)
           /\ LoadMessages(<<>>) = <<>>
           /\ \A x \in Fact : LoadMessages(Append(facts, x)) = LoadStep(LoadMessages(facts), x)
<1> DEFINE n == Len(facts)
<1>0. n \in Nat /\ n \in 0..n /\ n <= n
    OBVIOUS
<1>1. PICK f \in [0..n -> Seq(Message)] :
                /\ f[0] = <<>>
                /\ \A i \in 1..n : f[i] = LoadStep(f[i - 1], facts[i])
                /\ LoadMessages(facts) = f[n]
    BY LoadRuns
<1>2. LoadMessages(facts) \in Seq(Message)
    BY <1>0, <1>1
<1>3. LoadMessages(<<>>) = <<>>
    <2>1. <<>> \in Seq(Fact) /\ Len(<<>>) = 0
        OBVIOUS
    <2>2. \E h \in [0..Len(<<>>) -> Seq(Message)] : h[0] = <<>> /\ LoadMessages(<<>>) = h[Len(<<>>)]
        BY <2>1, LoadRuns
    <2> QED BY <2>1, <2>2
<1>4. ASSUME NEW x \in Fact
      PROVE  LoadMessages(Append(facts, x)) = LoadStep(LoadMessages(facts), x)
    <2> DEFINE more == Append(facts, x)
    <2>1. /\ more \in Seq(Fact) /\ Len(more) = n + 1 /\ more[n + 1] = x
          /\ \A i \in 1..n : more[i] = facts[i]
        OBVIOUS
    <2> HIDE DEF more
    <2>2. PICK h \in [0..Len(more) -> Seq(Message)] :
                /\ h[0] = <<>>
                /\ \A i \in 1..Len(more) : h[i] = LoadStep(h[i - 1], more[i])
                /\ LoadMessages(more) = h[Len(more)]
        BY <2>1, LoadRuns
    <2> HIDE DEF n
    <2>3. \A i \in 1..(n + 1) : h[i] = LoadStep(h[i - 1], more[i])
        BY <2>1, <2>2
    <2> DEFINE S == {i \in Nat : f[i] = h[i]}
    <2>4. 0 \in S
        BY <1>1, <2>2
    <2>5. ASSUME NEW i \in Nat, i < n, i \in S
          PROVE  i + 1 \in S
        <3>1. i + 1 \in 1..n /\ i + 1 \in 1..(n + 1) /\ (i + 1) - 1 = i
            BY <1>0, <2>5
        <3>2. f[i + 1] = LoadStep(f[i], facts[i + 1])
            BY <1>1, <3>1
        <3>3. h[i + 1] = LoadStep(h[i], more[i + 1])
            BY <2>3, <3>1
        <3>4. facts[i + 1] = more[i + 1] /\ f[i] = h[i]
            BY <2>1, <2>5, <3>1
        <3> QED BY <3>2, <3>3, <3>4
    <2> HIDE DEF S
    <2>6. \A i \in Nat : i < n /\ i \in S => i + 1 \in S
        BY <2>5
    <2>7. \A i \in 0..n : i \in S
        BY <1>0, <2>4, <2>6, Climbs
    <2>8. f[n] = h[n]
        BY <1>0, <2>7 DEF S
    <2>9. n + 1 \in 1..(n + 1) /\ (n + 1) - 1 = n
        BY <1>0
    <2>10. h[n + 1] = LoadStep(h[n], more[n + 1])
        BY <2>3, <2>9
    <2>11. LoadMessages(more) = h[n + 1]
        BY <2>1, <2>2
    <2> QED BY <1>1, <2>1, <2>8, <2>10, <2>11 DEF more
<1> QED BY <1>2, <1>3, <1>4

-----------------------------------------------------------------------------
(* The state after some of the facts *)

(* A sequence grows fact by fact. *)
LEMMA GrowByOne ==
    ASSUME NEW T, NEW b \in Seq(T), NEW i \in Nat, i < Len(b)
    PROVE  /\ SubSeq(b, 1, i) \in Seq(T) /\ b[i + 1] \in T
           /\ SubSeq(b, 1, i + 1) = Append(SubSeq(b, 1, i), b[i + 1])
<1>1. Len(b) \in Nat /\ i + 1 \in 1..Len(b) /\ i \in 0..Len(b)
    OBVIOUS
<1>2. SubSeq(b, 1, i) \in Seq(T) /\ Len(SubSeq(b, 1, i)) = i /\ b[i + 1] \in T
    BY <1>1
<1>3. SubSeq(b, 1, i + 1) \in Seq(T) /\ Len(SubSeq(b, 1, i + 1)) = i + 1
    BY <1>1
<1> DEFINE u == SubSeq(b, 1, i + 1)
           v == Append(SubSeq(b, 1, i), b[i + 1])
<1>4. v \in Seq(T) /\ Len(v) = i + 1
    BY <1>2
<1>5. \A k \in 1..(i + 1) : u[k] = b[k]
    BY <1>1
<1>6. \A k \in 1..(i + 1) : v[k] = b[k]
    <2> TAKE k \in 1..(i + 1)
    <2>1. CASE k = i + 1
        BY <1>2, <2>1
    <2>2. CASE k # i + 1
        <3>1. k \in 1..i /\ SubSeq(b, 1, i)[k] = b[k]
            BY <1>1, <2>2
        <3> QED BY <1>2, <3>1
    <2> QED BY <2>1, <2>2
<1> HIDE DEF u, v
<1>7. u = v
    BY <1>3, <1>4, <1>5, <1>6 DEF u
<1> QED BY <1>2, <1>7 DEF u, v

(* Replaying two sequences of facts is replaying the one, then the other. *)
LEMMA ReduceJoin ==
    ASSUME NEW s \in State, NEW a \in Seq(Fact), NEW b \in Seq(Fact)
    PROVE  ReduceAll(s, a \o b) = ReduceAll(ReduceAll(s, a), b)
<1> DEFINE n == Len(b)
           t == ReduceAll(s, a)
           P(i) == SubSeq(b, 1, i)
           S == {i \in Nat : ReduceAll(s, a \o P(i)) = ReduceAll(t, P(i))}
<1>0. n \in Nat /\ t \in State
    BY ReduceSteps
<1> HIDE DEF t
<1>1. 0 \in S
    <2>1. P(0) = <<>> /\ a \o <<>> = a
        OBVIOUS
    <2>2. ReduceAll(t, <<>>) = t
        BY <1>0, ReduceSteps
    <2> QED BY <2>1, <2>2 DEF t
<1>2. ASSUME NEW i \in Nat, i < n, i \in S
      PROVE  i + 1 \in S
    <2>1. P(i) \in Seq(Fact) /\ b[i + 1] \in Fact /\ P(i + 1) = Append(P(i), b[i + 1])
        BY <1>2, GrowByOne
    <2> HIDE DEF P
    <2>2. a \o P(i) \in Seq(Fact) /\ a \o Append(P(i), b[i + 1]) = Append(a \o P(i), b[i + 1])
        BY <2>1
    <2>3. ReduceAll(s, Append(a \o P(i), b[i + 1])) = Reduce(ReduceAll(s, a \o P(i)), b[i + 1])
        BY <2>1, <2>2, ReduceSteps
    <2>4. ReduceAll(t, Append(P(i), b[i + 1])) = Reduce(ReduceAll(t, P(i)), b[i + 1])
        BY <1>0, <2>1, ReduceSteps
    <2>5. ReduceAll(s, a \o P(i)) = ReduceAll(t, P(i))
        BY <1>2
    <2>6. ReduceAll(s, a \o P(i + 1)) = ReduceAll(t, P(i + 1))
        BY <2>1, <2>2, <2>3, <2>4, <2>5
    <2> QED BY <2>6
<1> HIDE DEF S
<1>3. \A i \in Nat : i < n /\ i \in S => i + 1 \in S
    BY <1>2
<1>4. \A i \in 0..n : i \in S
    BY <1>0, <1>1, <1>3, Climbs
<1>5. ReduceAll(s, a \o P(n)) = ReduceAll(t, P(n))
    BY <1>0, <1>4 DEF S
<1>6. P(n) = b
    OBVIOUS
<1> QED BY <1>5, <1>6 DEF t

(* The state after the first i facts *)
At(log, i) == ReduceAll(Empty, SubSeq(log, 1, i))

(* The empty state has its type. *)
LEMMA EmptyType == Empty \in State
<1>1. <<>> \in Seq(Message)
    OBVIOUS
<1> QED BY <1>1 DEF Empty, State

(* The states of a log follow each other. *)
LEMMA AtSteps ==
    ASSUME NEW log \in Seq(Fact)
    PROVE  /\ At(log, 0) = Empty
           /\ At(log, Len(log)) = ReduceAll(Empty, log)
           /\ \A i \in 0..Len(log) : At(log, i) \in State
           /\ \A i \in 1..Len(log) : log[i] \in Fact /\ At(log, i) = Reduce(At(log, i - 1), log[i])
<1>0. Len(log) \in Nat
    OBVIOUS
<1>1. At(log, 0) = Empty
    <2>1. SubSeq(log, 1, 0) = <<>>
        OBVIOUS
    <2> QED BY <2>1, EmptyType, ReduceSteps DEF At
<1>2. At(log, Len(log)) = ReduceAll(Empty, log)
    <2>1. SubSeq(log, 1, Len(log)) = log
        OBVIOUS
    <2> QED BY <2>1 DEF At
<1>3. ASSUME NEW i \in 0..Len(log)
      PROVE  At(log, i) \in State
    <2>1. SubSeq(log, 1, i) \in Seq(Fact)
        OBVIOUS
    <2> QED BY <2>1, EmptyType, ReduceSteps DEF At
<1>4. ASSUME NEW i \in 1..Len(log)
      PROVE  log[i] \in Fact /\ At(log, i) = Reduce(At(log, i - 1), log[i])
    <2>1. i - 1 \in Nat /\ i - 1 < Len(log) /\ (i - 1) + 1 = i
        BY <1>0
    <2>2. /\ SubSeq(log, 1, i - 1) \in Seq(Fact) /\ log[i] \in Fact
          /\ SubSeq(log, 1, i) = Append(SubSeq(log, 1, i - 1), log[i])
        BY <2>1, GrowByOne
    <2>3. ReduceAll(Empty, Append(SubSeq(log, 1, i - 1), log[i]))
              = Reduce(ReduceAll(Empty, SubSeq(log, 1, i - 1)), log[i])
        BY <2>2, EmptyType, ReduceSteps
    <2> QED BY <2>2, <2>3 DEF At
<1> QED BY <1>1, <1>2, <1>3, <1>4

(* A longer log has the same earlier states. *)
LEMMA AtGrows ==
    ASSUME NEW log \in Seq(Fact), NEW x \in Fact
    PROVE  /\ Append(log, x) \in Seq(Fact) /\ Len(Append(log, x)) = Len(log) + 1
           /\ Append(log, x)[Len(log) + 1] = x
           /\ \A i \in 1..Len(log) : Append(log, x)[i] = log[i]
           /\ \A i \in 0..Len(log) : At(Append(log, x), i) = At(log, i)
           /\ At(Append(log, x), Len(log) + 1) = Reduce(ReduceAll(Empty, log), x)
<1> DEFINE more == Append(log, x)
<1>1. /\ more \in Seq(Fact) /\ Len(more) = Len(log) + 1 /\ more[Len(log) + 1] = x
      /\ \A i \in 1..Len(log) : more[i] = log[i]
    OBVIOUS
<1>2. ASSUME NEW i \in 0..Len(log)
      PROVE  At(more, i) = At(log, i)
    <2>1. SubSeq(more, 1, i) = SubSeq(log, 1, i)
        OBVIOUS
    <2> QED BY <2>1 DEF At
<1>3. At(more, Len(log) + 1) = Reduce(ReduceAll(Empty, log), x)
    <2>1. ReduceAll(Empty, more) = Reduce(ReduceAll(Empty, log), x)
        BY EmptyType, ReduceSteps
    <2>2. At(more, Len(more)) = ReduceAll(Empty, more)
        BY <1>1, AtSteps
    <2> QED BY <1>1, <2>1, <2>2
<1> QED BY <1>1, <1>2, <1>3

(* So has a shorter one. *)
LEMMA AtPrefix ==
    ASSUME NEW log \in Seq(Fact), NEW n \in 0..Len(log)
    PROVE  /\ SubSeq(log, 1, n) \in Seq(Fact) /\ Len(SubSeq(log, 1, n)) = n
           /\ \A i \in 1..n : SubSeq(log, 1, n)[i] = log[i]
           /\ \A i \in 0..n : At(SubSeq(log, 1, n), i) = At(log, i)
<1>1. /\ SubSeq(log, 1, n) \in Seq(Fact) /\ Len(SubSeq(log, 1, n)) = n
      /\ \A i \in 1..n : SubSeq(log, 1, n)[i] = log[i]
    OBVIOUS
<1>2. ASSUME NEW i \in 0..n
      PROVE  At(SubSeq(log, 1, n), i) = At(log, i)
    <2>1. SubSeq(SubSeq(log, 1, n), 1, i) = SubSeq(log, 1, i)
        OBVIOUS
    <2> QED BY <2>1 DEF At
<1> QED BY <1>1, <1>2

-----------------------------------------------------------------------------
(* Logs whose snapshots and compactions are about the state they follow *)

Fits(s, x, i) ==
    /\ x.type = "snapshot" => x.lastSeq = i /\ x.state = s
    /\ x.type = "compacted" => ClearedAt(s.messages, x.cleared) # {}

(* No two messages have one identifier, and none has a future one. *)
Numbered(ms, n) ==
    /\ \A i \in 1..Len(ms) : ms[i].id < n
    /\ \A i, j \in 1..Len(ms) : ms[i].id = ms[j].id => i = j

Sound(log, n) ==
    /\ log \in Seq(Fact)
    /\ \A i \in 1..Len(log) : Fits(At(log, i - 1), log[i], i - 1)
    /\ \A i \in 0..Len(log) : Numbered(At(log, i).messages, n)

(* The greatest number of a bounded set *)
LEMMA GreatestOf ==
    ASSUME NEW n \in Nat, NEW S, S \subseteq 0..n, S # {}
    PROVE  Max(S) \in S /\ \A y \in S : Max(S) >= y
<1> DEFINE D == {k \in 0..n : n - k \in S}
<1>1. D \subseteq Nat
    OBVIOUS
<1>2. D # {}
    <2>1. PICK y \in S : TRUE
        OBVIOUS
    <2>2. n - y \in 0..n /\ n - (n - y) = y
        OBVIOUS
    <2> QED BY <2>1, <2>2
<1> HIDE DEF D
<1>3. Min(D) \in D /\ \A k \in D : Min(D) <= k
    BY <1>1, <1>2, LeastOf
<1> DEFINE x == n - Min(D)
<1>4. x \in S
    BY <1>3 DEF D
<1>5. \A y \in S : x >= y
    <2> TAKE y \in S
    <2>1. n - y \in 0..n /\ n - (n - y) = y
        OBVIOUS
    <2>2. n - y \in D
        BY <2>1 DEF D
    <2>3. Min(D) <= n - y /\ Min(D) \in 0..n
        BY <1>3, <2>2 DEF D
    <2> QED BY <2>1, <2>3
<1> HIDE DEF x
<1> QED BY <1>4, <1>5 DEF Max

(* A log is its first facts and the rest. *)
LEMMA CutInTwo ==
    ASSUME NEW T, NEW log \in Seq(T), NEW m \in 1..Len(log)
    PROVE  /\ SubSeq(log, 1, m - 1) \in Seq(T) /\ SubSeq(log, m, Len(log)) \in Seq(T)
           /\ log = SubSeq(log, 1, m - 1) \o SubSeq(log, m, Len(log))
<1> DEFINE a == SubSeq(log, 1, m - 1)
           b == SubSeq(log, m, Len(log))
<1>1. a \in Seq(T) /\ Len(a) = m - 1 /\ b \in Seq(T) /\ Len(b) = Len(log) - m + 1
    OBVIOUS
<1>2. \A k \in 1..(m - 1) : a[k] = log[k]
    OBVIOUS
<1>3. \A k \in 1..(Len(log) - m + 1) : b[k] = log[m + k - 1]
    OBVIOUS
<1> HIDE DEF a, b
<1>4. a \o b \in Seq(T) /\ Len(a \o b) = Len(log)
    BY <1>1
<1>5. ASSUME NEW k \in 1..Len(log)
      PROVE  (a \o b)[k] = log[k]
    <2>1. CASE k <= m - 1
        BY <1>1, <1>2, <2>1
    <2>2. CASE k > m - 1
        <3>1. k - (m - 1) \in 1..(Len(log) - m + 1) /\ m + (k - (m - 1)) - 1 = k
            BY <2>2
        <3>2. (a \o b)[k] = b[k - (m - 1)]
            BY <1>1, <2>2
        <3>3. b[k - (m - 1)] = log[m + (k - (m - 1)) - 1]
            BY <1>3, <3>1
        <3> QED BY <3>1, <3>2, <3>3
    <2>3. k <= m - 1 \/ k > m - 1
        OBVIOUS
    <2> HIDE DEF a, b
    <2> QED BY <2>1, <2>2, <2>3, Zenon
<1>6. log = a \o b
    <2> DEFINE c == a \o b
    <2>1. c \in Seq(T) /\ Len(c) = Len(log) /\ \A k \in 1..Len(log) : c[k] = log[k]
        BY <1>4, <1>5
    <2> HIDE DEF c
    <2>2. c = log
        BY <2>1
    <2> QED BY <2>2 DEF c
<1> QED BY <1>1, <1>6 DEF a, b

(* The latest snapshot and the facts after it give what all facts give. *)
LEMMA SoundReplay ==
    ASSUME NEW log, NEW n, Sound(log, n)
    PROVE  Replay(log) = ReduceAll(Empty, log)
<1> DEFINE at == CallFacts(log, "snapshot")
           m == Max(at)
<1>0. log \in Seq(Fact) /\ Len(log) \in Nat /\ DOMAIN log = 1..Len(log)
    BY DEF Sound
<1>1. CASE at = {}
    BY <1>1 DEF Replay
<1>2. CASE at # {}
    <2>1. at \subseteq 0..Len(log) /\ at \subseteq 1..Len(log)
        BY <1>0 DEF CallFacts
    <2>2. m \in at
        <3> HIDE DEF at
        <3> QED BY <1>0, <1>2, <2>1, GreatestOf
    <2>3. m \in 1..Len(log) /\ log[m].type = "snapshot"
        BY <1>0, <2>2 DEF CallFacts
    <2>4. log[m].lastSeq = m - 1 /\ log[m].state = At(log, m - 1)
        <3> HIDE DEF m
        <3> QED BY <2>3 DEF Sound, Fits
    <2>5. Replay(log) = ReduceAll(log[m].state, TailFacts(log, log[m]))
        BY <1>2 DEF Replay
    <2> HIDE DEF m, at
    <2>6. TailFacts(log, log[m]) = SubSeq(log, m, Len(log))
        <3>1. (m - 1) + 1 = m
            BY <2>3
        <3> QED BY <2>4, <3>1 DEF TailFacts
    <2>7. /\ SubSeq(log, 1, m - 1) \in Seq(Fact) /\ SubSeq(log, m, Len(log)) \in Seq(Fact)
          /\ log = SubSeq(log, 1, m - 1) \o SubSeq(log, m, Len(log))
        BY <1>0, <2>3, CutInTwo
    <2>8. ReduceAll(Empty, SubSeq(log, 1, m - 1) \o SubSeq(log, m, Len(log)))
            = ReduceAll(At(log, m - 1), SubSeq(log, m, Len(log)))
        BY <2>7, EmptyType, ReduceJoin DEF At
    <2> QED BY <2>4, <2>5, <2>6, <2>7, <2>8
<1> QED BY <1>1, <1>2

(* The loader and the reducer do the same with a fact that fits. *)
LEMMA LoadFits ==
    ASSUME NEW s \in State, NEW x \in Fact, NEW i, Fits(s, x, i)
    PROVE  LoadStep(s.messages, x) = Reduce(s, x).messages
<1>0. s.messages \in Seq(Message)
    BY DEF State
<1>1. CASE x.type = "message"
    BY <1>1 DEF State, LoadStep, Reduce
<1>2. CASE x.type = "compacted"
    <2>1. PICK k \in DOMAIN s.messages : s.messages[k].id \in x.cleared
        BY <1>2 DEF Fits, ClearedAt
    <2>2. \E m \in Range(s.messages) : m.id \in x.cleared
        BY <2>1 DEF Range
    <2>3. LoadStep(s.messages, x) = Replace(s.messages, x.cleared, x.replacements)
        BY <1>2, <2>2 DEF LoadStep
    <2>4. Reduce(s, x) = [s EXCEPT !.messages = Replace(@, x.cleared, x.replacements)]
        BY <1>2 DEF Reduce
    <2> QED BY <2>3, <2>4 DEF State
<1>3. CASE x.type \in {"accepted", "completed", "snapshot"}
    <2>1. LoadStep(s.messages, x) = s.messages
        BY <1>3 DEF LoadStep
    <2>2. Reduce(s, x).messages = s.messages
        BY <1>3 DEF Reduce, State
    <2> QED BY <2>1, <2>2
<1>4. x.type \in {"message", "accepted", "completed", "compacted", "snapshot"}
    BY DEF Fact
<1> QED BY <1>1, <1>2, <1>3, <1>4

(* The loader gives the messages of the reducer. *)
LEMMA SoundLoads ==
    ASSUME NEW log, NEW n, Sound(log, n)
    PROVE  LoadMessages(log) = ReduceAll(Empty, log).messages
<1> DEFINE P(i) == SubSeq(log, 1, i)
           len == Len(log)
           S == {i \in Nat : LoadMessages(P(i)) = At(log, i).messages}
<1>0. log \in Seq(Fact) /\ len \in Nat
    BY DEF Sound
<1>1. 0 \in S
    <2>1. P(0) = <<>> /\ <<>> \in Seq(Fact)
        BY <1>0
    <2>2. LoadMessages(<<>>) = <<>>
        BY <2>1, LoadSteps
    <2>3. At(log, 0).messages = <<>>
        BY <1>0, AtSteps DEF Empty
    <2> QED BY <2>1, <2>2, <2>3
<1>2. ASSUME NEW i \in Nat, i < len, i \in S
      PROVE  i + 1 \in S
    <2>1. P(i) \in Seq(Fact) /\ log[i + 1] \in Fact /\ P(i + 1) = Append(P(i), log[i + 1])
        BY <1>0, <1>2, GrowByOne
    <2>2. i + 1 \in 1..len /\ (i + 1) - 1 = i /\ i \in 0..len
        BY <1>0, <1>2
    <2>3. Fits(At(log, i), log[i + 1], i)
        BY <2>2 DEF Sound
    <2>4. At(log, i) \in State /\ At(log, i + 1) = Reduce(At(log, i), log[i + 1])
        BY <1>0, <2>2, AtSteps
    <2>5. LoadStep(At(log, i).messages, log[i + 1]) = Reduce(At(log, i), log[i + 1]).messages
        BY <2>1, <2>3, <2>4, LoadFits
    <2>6. LoadMessages(P(i + 1)) = LoadStep(LoadMessages(P(i)), log[i + 1])
        BY <2>1, LoadSteps
    <2>7. LoadMessages(P(i)) = At(log, i).messages
        BY <1>2
    <2>8. LoadMessages(P(i + 1)) = At(log, i + 1).messages
        BY <2>4, <2>5, <2>6, <2>7
    <2> QED BY <2>8
<1> HIDE DEF S
<1>3. \A i \in Nat : i < len /\ i \in S => i + 1 \in S
    BY <1>2
<1>4. \A i \in 0..len : i \in S
    BY <1>0, <1>1, <1>3, Climbs
<1>5. LoadMessages(P(len)) = At(log, len).messages
    BY <1>0, <1>4 DEF S
<1>6. P(len) = log /\ At(log, len) = ReduceAll(Empty, log)
    BY <1>0, AtSteps
<1> QED BY <1>5, <1>6

(* One more sound fact *)
LEMMA SoundGrows ==
    ASSUME NEW log, NEW n \in Nat, NEW m \in Nat, n <= m, Sound(log, n), NEW x \in Fact,
           Fits(ReduceAll(Empty, log), x, Len(log)),
           Numbered(Reduce(ReduceAll(Empty, log), x).messages, m)
    PROVE  Sound(Append(log, x), m)
<1> DEFINE more == Append(log, x)
           len == Len(log)
<1>0. log \in Seq(Fact) /\ len \in Nat
    BY DEF Sound
<1>1. /\ more \in Seq(Fact) /\ Len(more) = len + 1 /\ more[len + 1] = x
      /\ \A i \in 1..len : more[i] = log[i]
      /\ \A i \in 0..len : At(more, i) = At(log, i)
      /\ At(more, len + 1) = Reduce(ReduceAll(Empty, log), x)
    BY <1>0, AtGrows
<1>2. At(log, len) = ReduceAll(Empty, log)
    BY <1>0, AtSteps
<1>3. ASSUME NEW i \in 1..(len + 1)
      PROVE  Fits(At(more, i - 1), more[i], i - 1)
    <2>1. CASE i = len + 1
        <3>1. i - 1 = len /\ len \in 0..len
            BY <1>0, <2>1
        <3> HIDE DEF more, len
        <3> QED BY <1>1, <1>2, <2>1, <3>1 DEF len
    <2>2. CASE i # len + 1
        <3>1. i \in 1..len /\ i - 1 \in 0..len
            BY <1>0, <2>2
        <3> HIDE DEF more
        <3> QED BY <1>1, <3>1 DEF Sound
    <2> QED BY <2>1, <2>2
<1>4. ASSUME NEW i \in 0..(len + 1)
      PROVE  Numbered(At(more, i).messages, m)
    <2>1. CASE i = len + 1
        <3> HIDE DEF more, len
        <3> QED BY <1>1, <2>1
    <2>2. CASE i # len + 1
        <3>1. i \in 0..len
            BY <1>0, <2>2
        <3>2. Numbered(At(log, i).messages, n) /\ At(log, i) \in State
            BY <1>0, <3>1, AtSteps DEF Sound
        <3> DEFINE ms == At(log, i).messages
        <3>3. ms \in Seq(Message)
            BY <3>2 DEF State
        <3> HIDE DEF ms
        <3>4. \A k \in 1..Len(ms) : ms[k].id \in Nat
            <4>1. \A k \in 1..Len(ms) : ms[k] \in Message
                BY <3>3
            <4> QED BY <4>1 DEF Message
        <3>5. Numbered(ms, n)
            BY <3>2 DEF ms
        <3>6. Numbered(ms, m)
            BY <3>4, <3>5 DEF Numbered
        <3> HIDE DEF more
        <3> QED BY <1>1, <3>1, <3>6 DEF ms
    <2> QED BY <2>1, <2>2
<1> HIDE DEF more, len
<1>5. Sound(more, m)
    BY <1>1, <1>3, <1>4 DEF Sound
<1> QED BY <1>5 DEF more

(* The first facts of a sound log are one. *)
LEMMA SoundPrefix ==
    ASSUME NEW log, NEW n, Sound(log, n), NEW k \in 0..Len(log)
    PROVE  Sound(SubSeq(log, 1, k), n)
<1> DEFINE p == SubSeq(log, 1, k)
<1>0. log \in Seq(Fact) /\ Len(log) \in Nat
    BY DEF Sound
<1>1. /\ p \in Seq(Fact) /\ Len(p) = k /\ \A i \in 1..k : p[i] = log[i]
      /\ \A i \in 0..k : At(p, i) = At(log, i)
    BY <1>0, AtPrefix
<1> HIDE DEF p
<1>2. ASSUME NEW i \in 1..k
      PROVE  Fits(At(p, i - 1), p[i], i - 1)
    <2>1. i \in 1..Len(log) /\ i - 1 \in 0..k
        BY <1>0
    <2> QED BY <1>1, <2>1 DEF Sound
<1>3. ASSUME NEW i \in 0..k
      PROVE  Numbered(At(p, i).messages, n)
    <2>1. i \in 0..Len(log)
        BY <1>0
    <2> QED BY <1>1, <2>1 DEF Sound
<1>4. Sound(p, n)
    BY <1>1, <1>2, <1>3 DEF Sound
<1> QED BY <1>4 DEF p

-----------------------------------------------------------------------------
(* The facts of a recovery *)

FlatRun(seqs, f) ==
    f = [i \in 1..Len(seqs) |-> IF i = 1 THEN seqs[i] ELSE f[i - 1] \o seqs[i]]

(* FlattenSeq puts the sequences one behind the other. *)
LEMMA Flattens ==
    ASSUME NEW T, NEW seqs \in Seq(Seq(T))
    PROVE  \E f \in [0..Len(seqs) -> Seq(T)] :
                /\ f[0] = <<>>
                /\ \A i \in 1..Len(seqs) : f[i] = f[i - 1] \o seqs[i]
                /\ FlattenSeq(seqs) = f[Len(seqs)]
<1> DEFINE n == Len(seqs)
           D == Seq(T)
           step == [i \in 1..n |-> [x \in D |-> x \o seqs[i]]]
           e == <<>>
           g == CHOOSE f : FlatRun(seqs, f)
<1>1. n \in Nat /\ e \in D /\ \A i \in 1..n : seqs[i] \in Seq(T)
    OBVIOUS
<1>2. step \in [1..n -> [D -> D]]
    BY <1>1
<1>3. PICK f \in [0..n -> Seq(T)] : f[0] = e /\ \A i \in 1..n : f[i] = step[i][f[i - 1]]
    <2> HIDE DEF step, n, D, e
    <2>1. \E f : Unfolded(n, D, e, step, f)
        BY <1>1, <1>2, Unfolds
    <2> QED BY <2>1 DEF D, Unfolded
<1>4. \A i \in 1..n : i - 1 \in 0..n /\ i \in 0..n
    BY <1>1
<1>5. f[0] = e /\ \A i \in 1..n : f[i] = f[i - 1] \o seqs[i]
    BY <1>3, <1>4
<1>6. FlattenSeq(seqs) = f[n]
    <2>1. CASE n = 0
        <3>1. seqs = <<>>
            BY <2>1
        <3>2. FlattenSeq(seqs) = seqs
            BY <2>1 DEF FlattenSeq
        <3> QED BY <1>5, <2>1, <3>1, <3>2
    <2>2. CASE n # 0
        <3> DEFINE h == [i \in 1..n |-> f[i]]
                   k == [i \in 1..n |-> IF i = 1 THEN seqs[i] ELSE h[i - 1] \o seqs[i]]
        <3>1. ASSUME NEW i \in 1..n
              PROVE  h[i] = k[i]
            <4>1. f[i] = f[i - 1] \o seqs[i] /\ seqs[i] \in Seq(T)
                BY <1>1, <1>5
            <4>2. CASE i = 1
                <5>1. i - 1 = 0 /\ f[0] = <<>>
                    BY <1>5, <4>2
                <5>2. <<>> \o seqs[i] = seqs[i]
                    BY <4>1
                <5> QED BY <4>1, <4>2, <5>1, <5>2
            <4>3. CASE i # 1
                <5>1. i - 1 \in 1..n
                    BY <1>1, <4>3
                <5>2. h[i - 1] = f[i - 1]
                    BY <5>1
                <5> QED BY <4>1, <4>3, <5>2
            <4> QED BY <4>2, <4>3
        <3>2. h = [i \in 1..n |-> h[i]] /\ k = [i \in 1..n |-> k[i]]
            OBVIOUS
        <3>3. h = k
            <4> HIDE DEF h, k
            <4> QED BY <3>1, <3>2
        <3>4. FlatRun(seqs, h)
            BY <3>3 DEF FlatRun
        <3> HIDE DEF h
        <3>5. FlatRun(seqs, g)
            BY <3>4
        <3>6. FlattenSeq(seqs) = g[n]
            BY <2>2 DEF FlattenSeq, FlatRun
        <3> HIDE DEF g
        <3>7. \A i \in 1..n : g[i] = IF i = 1 THEN seqs[i] ELSE g[i - 1] \o seqs[i]
            <4> DEFINE q == [i \in 1..n |-> IF i = 1 THEN seqs[i] ELSE g[i - 1] \o seqs[i]]
            <4>1. g = q
                BY <3>5 DEF FlatRun
            <4>2. \A i \in 1..n : q[i] = IF i = 1 THEN seqs[i] ELSE g[i - 1] \o seqs[i]
                OBVIOUS
            <4> HIDE DEF q, n
            <4> QED BY <4>1, <4>2
        <3> DEFINE S == {i \in Nat : i = 0 \/ g[i] = f[i]}
        <3>8. 0 \in S
            OBVIOUS
        <3>9. ASSUME NEW i \in Nat, i < n, i \in S
              PROVE  i + 1 \in S
            <4>1. i + 1 \in 1..n /\ (i + 1) - 1 = i /\ (i + 1 = 1 <=> i = 0)
                BY <1>1, <3>9
            <4>2. f[i + 1] = f[i] \o seqs[i + 1] /\ seqs[i + 1] \in Seq(T)
                BY <1>1, <1>5, <4>1
            <4>3. g[i + 1] = IF i + 1 = 1 THEN seqs[i + 1] ELSE g[i] \o seqs[i + 1]
                BY <3>7, <4>1
            <4>4. CASE i = 0
                <5>1. <<>> \o seqs[i + 1] = seqs[i + 1]
                    BY <4>2
                <5>2. f[i + 1] = seqs[i + 1]
                    BY <1>5, <4>2, <4>4, <5>1
                <5> QED BY <4>1, <4>3, <4>4, <5>2
            <4>5. CASE i # 0
                <5>1. g[i] = f[i]
                    BY <3>9, <4>5
                <5>2. g[i + 1] = f[i + 1]
                    BY <4>1, <4>2, <4>3, <4>5, <5>1
                <5> QED BY <5>2
            <4> QED BY <4>4, <4>5
        <3> HIDE DEF S
        <3>10. \A i \in Nat : i < n /\ i \in S => i + 1 \in S
            BY <3>9
        <3>11. \A i \in 0..n : i \in S
            BY <1>1, <3>8, <3>10, Climbs
        <3>12. g[n] = f[n]
            BY <1>1, <2>2, <3>11 DEF S
        <3> QED BY <3>6, <3>12
    <2> QED BY <2>1, <2>2
<1> QED BY <1>5, <1>6

CallFact == [type : {"accepted", "completed"}, call : Calls]

(* The facts that end one call *)
LEMMA InterruptType ==
    ASSUME NEW s, NEW c \in Calls
    PROVE  Interrupt(s, c) \in Seq(CallFact)
<1>1. [type |-> "accepted", call |-> c] \in CallFact /\ [type |-> "completed", call |-> c] \in CallFact
    BY DEF CallFact
<1>2. <<[type |-> "accepted", call |-> c]>> \in Seq(CallFact)
    BY <1>1
<1>3. <<[type |-> "completed", call |-> c]>> \in Seq(CallFact)
    BY <1>1
<1>4. <<>> \in Seq(CallFact)
    OBVIOUS
<1> DEFINE a == <<[type |-> "accepted", call |-> c]>>
           b == <<[type |-> "completed", call |-> c]>>
<1> HIDE DEF a, b, CallFact
<1>5. (IF c \in s.pending \cup s.results THEN <<>> ELSE a) \o b \in Seq(CallFact)
    BY <1>2, <1>3, <1>4 DEF a, b
<1> QED BY <1>5 DEF Interrupt, a, b

(* Facts about calls leave the messages alone, and fit any state. *)
LEMMA CallFactsFit ==
    ASSUME NEW log, NEW n \in Nat, Sound(log, n), NEW b \in Seq(CallFact)
    PROVE  /\ Sound(log \o b, n)
           /\ ReduceAll(Empty, log \o b).messages = ReduceAll(Empty, log).messages
<1> DEFINE P(i) == SubSeq(b, 1, i)
           len == Len(b)
           S == {i \in Nat : /\ Sound(log \o P(i), n)
                             /\ ReduceAll(Empty, log \o P(i)).messages
                                    = ReduceAll(Empty, log).messages}
<1>0. log \in Seq(Fact) /\ len \in Nat /\ CallFact \subseteq Fact
    BY DEF Sound, CallFact, Fact
<1>1. 0 \in S
    <2>1. P(0) = <<>> /\ log \o <<>> = log
        BY <1>0
    <2> QED BY <2>1
<1>2. ASSUME NEW i \in Nat, i < len, i \in S
      PROVE  i + 1 \in S
    <2>1. P(i) \in Seq(CallFact) /\ b[i + 1] \in CallFact /\ P(i + 1) = Append(P(i), b[i + 1])
        BY <1>0, <1>2, GrowByOne
    <2> DEFINE l == log \o P(i)
               x == b[i + 1]
    <2>2. Sound(l, n) /\ ReduceAll(Empty, l).messages = ReduceAll(Empty, log).messages
        BY <1>2
    <2>3. x \in Fact /\ x.type \in {"accepted", "completed"}
        BY <1>0, <2>1 DEF CallFact
    <2>4. log \o P(i + 1) = Append(l, x)
        <3> HIDE DEF P
        <3>1. log \o Append(P(i), b[i + 1]) = Append(log \o P(i), b[i + 1])
            BY <1>0, <2>1
        <3> QED BY <2>1, <3>1
    <2> HIDE DEF l, x
    <2>5. l \in Seq(Fact) /\ Len(l) \in Nat
        BY <2>2 DEF Sound
    <2>6. ReduceAll(Empty, l) \in State
        BY <2>5, EmptyType, ReduceSteps
    <2>7. Reduce(ReduceAll(Empty, l), x).messages = ReduceAll(Empty, l).messages
        BY <2>3, <2>6 DEF Reduce, State
    <2>8. Numbered(ReduceAll(Empty, l).messages, n)
        <3>1. At(l, Len(l)) = ReduceAll(Empty, l) /\ Len(l) \in 0..Len(l)
            BY <2>5, AtSteps
        <3> QED BY <2>2, <3>1 DEF Sound
    <2>9. Fits(ReduceAll(Empty, l), x, Len(l))
        BY <2>3 DEF Fits
    <2>10. Sound(Append(l, x), n)
        BY <2>2, <2>3, <2>7, <2>8, <2>9, SoundGrows
    <2>11. ReduceAll(Empty, Append(l, x)) = Reduce(ReduceAll(Empty, l), x)
        BY <2>3, <2>5, EmptyType, ReduceSteps
    <2>12. /\ Sound(log \o P(i + 1), n)
           /\ ReduceAll(Empty, log \o P(i + 1)).messages = ReduceAll(Empty, log).messages
        BY <2>2, <2>4, <2>7, <2>10, <2>11
    <2> QED BY <2>12
<1> HIDE DEF S
<1>3. \A i \in Nat : i < len /\ i \in S => i + 1 \in S
    BY <1>2
<1>4. \A i \in 0..len : i \in S
    BY <1>0, <1>1, <1>3, Climbs
<1>5. /\ Sound(log \o P(len), n)
      /\ ReduceAll(Empty, log \o P(len)).messages = ReduceAll(Empty, log).messages
    BY <1>0, <1>4 DEF S
<1>6. P(len) = b
    OBVIOUS
<1> QED BY <1>5, <1>6

-----------------------------------------------------------------------------
(* The context manager *)

(* The members of a sequence of messages *)
LEMMA MessageAt ==
    ASSUME NEW ms \in Seq(Message)
    PROVE  /\ Len(ms) \in Nat /\ DOMAIN ms = 1..Len(ms)
           /\ \A i \in 1..Len(ms) : ms[i] \in Message /\ ms[i].id \in Nat
<1>1. Len(ms) \in Nat /\ DOMAIN ms = 1..Len(ms) /\ \A i \in 1..Len(ms) : ms[i] \in Message
    OBVIOUS
<1>2. \A m \in Message : m.id \in Nat
    BY DEF Message
<1> QED BY <1>1, <1>2

(* Replacements with new identifiers keep the identifiers apart. *)
LEMMA ReplaceNumbered ==
    ASSUME NEW ms \in Seq(Message), NEW c \in Seq(Message), NEW cleared,
           NEW n \in Nat, NEW m \in Nat, n <= m, Numbered(ms, n), Numbered(c, m),
           \A k \in 1..Len(c) : c[k].id >= n
    PROVE  Numbered(Replace(ms, cleared, c), m)
<1> DEFINE r == Replace(ms, cleared, c)
           at == 1..Len(ms) \ ClearedAt(ms, cleared)
<1>1. PICK o : Origins(r, ms, at, c, o)
    BY ReplaceOrigins
<1>2. at \subseteq 1..Len(ms)
    OBVIOUS
<1> HIDE DEF r, at
<1>3. ASSUME NEW k \in 1..Len(r)
      PROVE  \/ o[k] \in 1..Len(ms) /\ r[k] = ms[o[k]] /\ ms[o[k]].id < n /\ ms[o[k]].id \in Nat
             \/ /\ -o[k] \in 1..Len(c) /\ r[k] = c[-o[k]]
                /\ c[-o[k]].id >= n /\ c[-o[k]].id < m /\ c[-o[k]].id \in Nat
    <2>1. CASE o[k] \in at /\ r[k] = ms[o[k]]
        <3>1. o[k] \in 1..Len(ms)
            BY <1>2, <2>1
        <3> QED BY <2>1, <3>1, MessageAt DEF Numbered
    <2>2. CASE -o[k] \in 1..Len(c) /\ r[k] = c[-o[k]]
        BY <2>2, MessageAt DEF Numbered
    <2> QED BY <1>1, <2>1, <2>2 DEF Origins
<1>4. ASSUME NEW k \in 1..Len(r)
      PROVE  r[k].id < m
    BY <1>3
<1>5. ASSUME NEW j \in 1..Len(r), NEW k \in 1..Len(r), r[j].id = r[k].id
      PROVE  j = k
    <2>1. o[j] \in Int /\ o[k] \in Int
        BY <1>1 DEF Origins
    <2>2. o[j] = o[k]
        <3>1. CASE o[j] \in 1..Len(ms) /\ r[j] = ms[o[j]] /\ ms[o[j]].id < n /\ ms[o[j]].id \in Nat
            <4>1. o[k] \in 1..Len(ms) /\ r[k] = ms[o[k]]
                BY <1>3, <1>5, <3>1
            <4> QED BY <1>5, <3>1, <4>1 DEF Numbered
        <3>2. CASE /\ -o[j] \in 1..Len(c) /\ r[j] = c[-o[j]]
                   /\ c[-o[j]].id >= n /\ c[-o[j]].id \in Nat
            <4>0. ~ (r[k] = ms[o[k]] /\ ms[o[k]].id < n /\ ms[o[k]].id \in Nat)
                BY <1>5, <3>2
            <4>1. -o[k] \in 1..Len(c) /\ r[k] = c[-o[k]]
                BY <1>3, <4>0
            <4>2. -o[j] = -o[k]
                BY <1>5, <3>2, <4>1 DEF Numbered
            <4> QED BY <2>1, <4>2
        <3> QED BY <1>3, <3>1, <3>2
    <2> QED BY <1>1, <2>2 DEF Origins
<1>6. Numbered(r, m)
    BY <1>4, <1>5 DEF Numbered
<1> QED BY <1>6 DEF r

(* What a compaction does not clear stays, and what it puts in is there. *)
LEMMA ReplaceHolds ==
    ASSUME NEW ms \in Seq(Message), NEW c \in Seq(Message), NEW cleared
    PROVE  /\ \A i \in 1..Len(ms) : ms[i].id \notin cleared =>
                \E k \in 1..Len(Replace(ms, cleared, c)) : Replace(ms, cleared, c)[k] = ms[i]
           /\ \A i \in 1..Len(c) :
                \E k \in 1..Len(Replace(ms, cleared, c)) : Replace(ms, cleared, c)[k] = c[i]
<1> DEFINE r == Replace(ms, cleared, c)
           at == 1..Len(ms) \ ClearedAt(ms, cleared)
<1>1. PICK o : Origins(r, ms, at, c, o)
    BY ReplaceOrigins
<1>2. ASSUME NEW i \in 1..Len(ms), ms[i].id \notin cleared
      PROVE  \E k \in 1..Len(r) : r[k] = ms[i]
    <2>1. i \in at
        BY <1>2 DEF ClearedAt
    <2> HIDE DEF r, at
    <2>2. PICK k \in 1..Len(r) : o[k] = i
        BY <1>1, <2>1 DEF Origins
    <2>3. ~ (-o[k] \in 1..Len(c))
        BY <2>2, MessageAt
    <2>4. r[k] = ms[o[k]]
        BY <1>1, <2>3 DEF Origins
    <2> QED BY <2>2, <2>4
<1>3. ASSUME NEW i \in 1..Len(c)
      PROVE  \E k \in 1..Len(r) : r[k] = c[i]
    <2> HIDE DEF r, at
    <2>1. PICK k \in 1..Len(r) : o[k] = -i
        BY <1>1 DEF Origins
    <2>2. ~ o[k] > 0 /\ -o[k] = i
        BY <2>1, MessageAt
    <2>3. r[k] = c[-o[k]]
        BY <1>1, <2>2 DEF Origins
    <2> QED BY <2>2, <2>3
<1> QED BY <1>2, <1>3

Rank(A, i) == Cardinality({j \in A : j < i})

(* How many positions of a set stand before each of them *)
LEMMA Ranks ==
    ASSUME NEW n \in Nat, NEW A, A \subseteq 1..n
    PROVE  /\ Cardinality(A) \in Nat
           /\ \A i \in Nat : Rank(A, i) \in Nat
           /\ \A i \in A : Rank(A, i) < Cardinality(A)
           /\ \A i, k \in A : i < k => Rank(A, i) < Rank(A, k)
<1>1. IsFiniteSet(1..n)
    BY FS_Interval
<1>2. IsFiniteSet(A)
    BY <1>1, FS_Subset
<1>3. Cardinality(A) \in Nat
    BY <1>2, FS_CardinalityType
<1> DEFINE B(i) == {j \in A : j < i}
<1>4. \A i : IsFiniteSet(B(i)) /\ Cardinality(B(i)) \in Nat
    <2> TAKE i
    <2>1. B(i) \in SUBSET A
        OBVIOUS
    <2>2. IsFiniteSet(B(i))
        BY <1>2, <2>1, FS_Subset
    <2> QED BY <2>2, FS_CardinalityType
<1>5. ASSUME NEW i \in A, NEW C, B(i) \subseteq C, i \in C, IsFiniteSet(C), Cardinality(C) \in Nat
      PROVE  Cardinality(B(i)) < Cardinality(C)
    <2>1. i \notin B(i)
        OBVIOUS
    <2>2. IsFiniteSet(B(i)) /\ Cardinality(B(i)) \in Nat
        BY <1>4
    <2>3. B(i) \cup {i} \in SUBSET C
        BY <1>5
    <2> HIDE DEF B
    <2>4. Cardinality(B(i) \cup {i}) = Cardinality(B(i)) + 1
        BY <2>1, <2>2, FS_AddElement
    <2>5. Cardinality(B(i) \cup {i}) <= Cardinality(C)
        BY <1>5, <2>3, FS_Subset
    <2> QED BY <1>5, <2>2, <2>4, <2>5
<1>6. \A i \in A : Cardinality(B(i)) < Cardinality(A)
    <2> TAKE i \in A
    <2>1. B(i) \subseteq A
        OBVIOUS
    <2> HIDE DEF B
    <2> QED BY <1>2, <1>3, <1>5, <2>1
<1>7. \A i, k \in A : i < k => Cardinality(B(i)) < Cardinality(B(k))
    <2> TAKE i, k \in A
    <2> HAVE i < k
    <2>1. B(i) \subseteq B(k) /\ i \in B(k)
        <3>1. \A j \in A : j \in Nat
            OBVIOUS
        <3>2. \A j \in A : j < i => j < k
            BY <3>1
        <3> QED BY <3>2
    <2> HIDE DEF B
    <2> QED BY <1>4, <1>5, <2>1
<1> QED BY <1>3, <1>4, <1>6, <1>7 DEF Rank

(* The protected tail begins in the conversation or just behind it. *)
LEMMA BoundaryInside ==
    ASSUME NEW ms \in Seq(Message)
    PROVE  TailBoundary(ms) \in 1..(Len(ms) + 1)
<1> DEFINE n == Len(ms)
           M == {1, n - TailMessages + 1}
           F == {i \in 1..n + 1 : Estimate(SubSeq(ms, i, n)) <= TailTokens}
<1>0. n \in Nat /\ TailMessages \in Nat /\ TailTokens \in Nat
    BY ConversationBounds
<1>1. Max(M) \in 1..(n + 1)
    <2>1. \E x \in M : \A y \in M : x >= y
        <3>1. CASE n - TailMessages + 1 >= 1
            BY <1>0, <3>1
        <3>2. CASE n - TailMessages + 1 < 1
            BY <1>0, <3>2
        <3> QED BY <1>0, <3>1, <3>2
    <2>2. Max(M) \in M /\ \A y \in M : Max(M) >= y
        <3> HIDE DEF M
        <3> QED BY <2>1 DEF Max
    <2> DEFINE x == Max(M)
    <2>3. x \in {1, n - TailMessages + 1} /\ x >= 1
        BY <2>2
    <2> HIDE DEF x
    <2>4. x \in 1..(n + 1)
        BY <1>0, <2>3
    <2> QED BY <2>4 DEF x
<1>2. Min(F) \in 1..(n + 1)
    <2>1. F \subseteq Nat
        BY <1>0
    <2>2. n + 1 \in F
        <3>1. SubSeq(ms, n + 1, n) = <<>>
            BY <1>0
        <3>2. Estimate(<<>>) = 0
            <4> DEFINE b == {i \in DOMAIN <<>> : <<>>[i].size = Big}
            <4>1. b = {}
                OBVIOUS
            <4>2. Cardinality(b) = 0 /\ Len(<<>>) = 0
                BY <4>1, FS_EmptySet
            <4>3. Estimate(<<>>) = Big * Cardinality(b) + Len(<<>>) - Cardinality(b)
                BY DEF Estimate
            <4> HIDE DEF b
            <4> QED BY <4>2, <4>3 DEF Big
        <3>3. n + 1 \in 1..n + 1 /\ 0 <= TailTokens
            BY <1>0
        <3>4. Estimate(SubSeq(ms, n + 1, n)) <= TailTokens
            BY <3>1, <3>2, <3>3
        <3> HIDE DEF n
        <3> QED BY <3>3, <3>4
    <2>3. F \subseteq 1..n + 1
        OBVIOUS
    <2> HIDE DEF F
    <2>4. Min(F) \in F
        BY <2>1, <2>2, LeastOf
    <2> QED BY <2>3, <2>4
<1>3. TailBoundary(ms) = Max({Min(F), Max(M)})
    BY DEF TailBoundary
<1> DEFINE a == Min(F)
           b == Max(M)
<1> HIDE DEF a, b
<1>4. Max({a, b}) \in {a, b}
    <2>1. a \in Nat /\ b \in Nat
        BY <1>0, <1>1, <1>2 DEF a, b
    <2>2. \E x \in {a, b} : \A y \in {a, b} : x >= y
        <3>1. CASE a >= b
            BY <2>1, <3>1
        <3>2. CASE b >= a
            BY <2>1, <3>2
        <3> QED BY <2>1, <3>1, <3>2
    <2> QED BY <2>2 DEF Max
<1> QED BY <1>1, <1>2, <1>3, <1>4 DEF a, b

(* microCompact keeps the conversation but for shorter tool results, which  *)
(* are new messages.                                                        *)
LEMMA MicroBase ==
    ASSUME NEW ms \in Seq(Message), nextId \in Nat, Numbered(ms, nextId)
    PROVE  /\ MicroCleared(ms) \subseteq 1..Len(ms)
           /\ Cardinality(MicroCleared(ms)) \in Nat
           /\ MicroMessages(ms) \in Seq(Message) /\ Len(MicroMessages(ms)) = Len(ms)
           /\ \A i \in 1..Len(ms) : i \notin MicroCleared(ms) => MicroMessages(ms)[i] = ms[i]
           /\ \A i \in MicroCleared(ms) :
                /\ MicroMessages(ms)[i].id >= nextId /\ ms[i].kind = "tool"
                /\ MicroMessages(ms)[i].kind = "tool"
           /\ Numbered(MicroMessages(ms), nextId + Cardinality(MicroCleared(ms)))
<1> DEFINE n == Len(ms)
           A == MicroCleared(ms)
           K == Cardinality(A)
           b == MicroMessages(ms)
<1>1. n \in Nat /\ DOMAIN ms = 1..n /\ \A i \in 1..n : ms[i] \in Message /\ ms[i].id \in Nat
    BY MessageAt
<1>2. A \subseteq 1..n
    BY <1>1 DEF MicroCleared
<1> HIDE DEF A, n
<1>3. /\ K \in Nat
      /\ \A i \in Nat : Rank(A, i) \in Nat
      /\ \A i \in A : Rank(A, i) < K
      /\ \A i, k \in A : i < k => Rank(A, i) < Rank(A, k)
    BY <1>1, <1>2, Ranks
<1>4. ASSUME NEW i \in A
      PROVE  /\ Shortened(ms, i) \in Message
             /\ Shortened(ms, i).id = nextId + Rank(A, i)
             /\ Shortened(ms, i).kind = ms[i].kind
    <2>1. i \in Nat /\ ms[i] \in Message
        BY <1>1, <1>2
    <2>2. nextId + Rank(A, i) \in Nat
        <3>1. Rank(A, i) \in Nat
            BY <1>3, <2>1
        <3> QED BY <3>1
    <2>3. Shortened(ms, i) = [ms[i] EXCEPT !.id = nextId + Rank(A, i), !.size = 1]
        BY DEF Shortened, Rank, A
    <2> QED BY <2>1, <2>2, <2>3 DEF Message
<1>5. \A i \in 1..n : b[i] = IF i \in A THEN Shortened(ms, i) ELSE ms[i]
    BY <1>1 DEF MicroMessages, A
<1>6. b \in Seq(Message) /\ Len(b) = n
    <2>1. \A i \in 1..n : (IF i \in A THEN Shortened(ms, i) ELSE ms[i]) \in Message
        BY <1>1, <1>4
    <2>2. b = [i \in 1..n |-> IF i \in A THEN Shortened(ms, i) ELSE ms[i]]
        BY <1>1 DEF MicroMessages, A
    <2>3. b \in [1..n -> Message]
        BY <2>1, <2>2
    <2> HIDE DEF b
    <2> QED BY <1>1, <2>3
<1> HIDE DEF K, b
<1>7. \A i \in A : ms[i].kind = "tool"
    BY DEF A, MicroCleared
<1>8. ASSUME NEW i \in A
      PROVE  b[i].id = nextId + Rank(A, i) /\ b[i].kind = "tool" /\ b[i].id >= nextId
                /\ b[i].id < nextId + K /\ Rank(A, i) \in Nat
    <2>1. i \in 1..n /\ i \in Nat
        BY <1>1, <1>2
    <2>2. b[i] = Shortened(ms, i)
        BY <1>5, <2>1
    <2>3. Rank(A, i) \in Nat /\ Rank(A, i) < K
        BY <1>3, <2>1
    <2>4. b[i].id = nextId + Rank(A, i) /\ b[i].kind = "tool"
        BY <1>4, <1>7, <2>2
    <2> QED BY <1>3, <2>3, <2>4
<1>9. ASSUME NEW i \in 1..n, i \notin A
      PROVE  b[i] = ms[i] /\ ms[i].id < nextId /\ ms[i].id \in Nat
    BY <1>1, <1>5, <1>9 DEF Numbered, n
<1>10. ASSUME NEW i \in 1..n
       PROVE  b[i].id < nextId + K
    <2>1. CASE i \in A
        BY <1>8, <2>1
    <2>2. CASE i \notin A
        <3>1. b[i].id \in Nat /\ b[i].id < nextId
            BY <1>9, <2>2
        <3>2. K \in Nat
            BY <1>3
        <3> QED BY <3>1, <3>2
    <2> QED BY <2>1, <2>2
<1>11. ASSUME NEW i \in 1..n, NEW k \in 1..n, b[i].id = b[k].id
       PROVE  i = k
    <2>1. CASE i \in A /\ k \in A
        <3>1. Rank(A, i) = Rank(A, k) /\ Rank(A, i) \in Nat
            <4>1. Rank(A, i) \in Nat /\ Rank(A, k) \in Nat
                BY <1>8, <2>1
            <4>2. nextId + Rank(A, i) = nextId + Rank(A, k)
                BY <1>8, <1>11, <2>1
            <4> QED BY <4>1, <4>2
        <3>2. ~ (i < k) /\ ~ (k < i)
            <4>1. i < k => Rank(A, i) < Rank(A, k)
                BY <1>3, <2>1
            <4>2. k < i => Rank(A, k) < Rank(A, i)
                BY <1>3, <2>1
            <4> QED BY <3>1, <4>1, <4>2
        <3> QED BY <1>1, <3>2
    <2>2. CASE i \in A /\ k \notin A
        <3>1. b[i].id >= nextId /\ b[k] = ms[k] /\ ms[k].id < nextId /\ ms[k].id \in Nat
            BY <1>8, <1>9, <2>2
        <3> QED BY <1>11, <3>1
    <2>3. CASE i \notin A /\ k \in A
        <3>1. b[k].id >= nextId /\ b[i] = ms[i] /\ ms[i].id < nextId /\ ms[i].id \in Nat
            BY <1>8, <1>9, <2>3
        <3> QED BY <1>11, <3>1
    <2>4. CASE i \notin A /\ k \notin A
        BY <1>9, <1>11, <2>4 DEF Numbered, n
    <2> QED BY <2>1, <2>2, <2>3, <2>4
<1>12. Numbered(b, nextId + K)
    BY <1>6, <1>10, <1>11 DEF Numbered
<1>13. \A i \in A : b[i].id >= nextId /\ ms[i].kind = "tool" /\ b[i].kind = "tool"
    BY <1>7, <1>8
<1>14. \A i \in 1..n : i \notin A => b[i] = ms[i]
    BY <1>9
<1> QED BY <1>2, <1>3, <1>6, <1>12, <1>13, <1>14 DEF A, K, b, n

(* The fact of microCompact clears what it replaces, one for one: each      *)
(* message of the shortened conversation is in the state it gives.          *)
LEMMA MicroFits ==
    ASSUME NEW ms \in Seq(Message), nextId \in Nat, Numbered(ms, nextId),
           MicroCleared(ms) # {}
    PROVE  \E x \in Fact :
                /\ MicroFacts(ms) = <<x>>
                /\ x.type = "compacted" /\ ClearedAt(ms, x.cleared) = MicroCleared(ms)
                /\ \A k \in 1..Len(x.replacements) : x.replacements[k].kind = "tool"
                /\ LET r == Replace(ms, x.cleared, x.replacements) IN
                    /\ r \in Seq(Message)
                    /\ Numbered(r, nextId + Cardinality(MicroCleared(ms)))
                    /\ \A i \in 1..Len(ms) : \E k \in 1..Len(r) : r[k] = MicroMessages(ms)[i]
<1> DEFINE n == Len(ms)
           A == MicroCleared(ms)
           K == Cardinality(A)
           b == MicroMessages(ms)
           cleared == {ms[i].id : i \in A}
           c == Picked(b, A)
           x == [type |-> "compacted", cleared |-> cleared, replacements |-> c]
           r == Replace(ms, cleared, c)
<1>0. n \in Nat /\ DOMAIN ms = 1..n /\ \A i \in 1..n : ms[i] \in Message /\ ms[i].id \in Nat
    BY MessageAt
<1>1. /\ A \subseteq 1..n /\ K \in Nat
      /\ b \in Seq(Message) /\ Len(b) = n
      /\ \A i \in 1..n : i \notin A => b[i] = ms[i]
      /\ \A i \in A : b[i].id >= nextId /\ ms[i].kind = "tool" /\ b[i].kind = "tool"
      /\ Numbered(b, nextId + K)
    BY MicroBase
<1>2. MicroFacts(ms) = <<x>>
    BY DEF MicroFacts
<1> HIDE DEF A, b, n, K
<1>3. c \in Seq(Message) /\ \E e : Places(c, b, A, e)
    BY <1>1, PickedPlaces
<1>4. PICK e : Places(c, b, A, e)
    BY <1>3
<1> HIDE DEF c
<1>5. cleared \subseteq Nat
    BY <1>0, <1>1
<1>6. x \in Fact
    <2> HIDE DEF cleared
    <2> QED BY <1>3, <1>5 DEF Fact
<1>7. ClearedAt(ms, cleared) = A
    <2>1. \A i \in A : i \in ClearedAt(ms, cleared)
        BY <1>0, <1>1 DEF ClearedAt
    <2>2. ASSUME NEW i \in ClearedAt(ms, cleared)
          PROVE  i \in A
        <3>1. i \in 1..n /\ ms[i].id \in cleared
            BY <1>0 DEF ClearedAt
        <3>2. PICK j \in A : ms[i].id = ms[j].id
            BY <3>1
        <3>3. i = j
            BY <1>1, <3>1, <3>2 DEF Numbered, n
        <3> QED BY <3>3
    <2> QED BY <2>1, <2>2
<1>8. ASSUME NEW k \in 1..Len(c)
      PROVE  e[k] \in A /\ e[k] \in 1..Len(b) /\ c[k] = b[e[k]]
    <2>1. e[k] \in A /\ c[k] = b[e[k]]
        BY <1>4 DEF Places
    <2> QED BY <1>1, <2>1
<1>9. \A k \in 1..Len(c) : c[k].kind = "tool" /\ c[k].id >= nextId
    BY <1>1, <1>8
<1>10. Numbered(c, nextId + K)
    <2>1. \A k \in 1..Len(c) : c[k].id < nextId + K
        BY <1>1, <1>8 DEF Numbered
    <2>2. ASSUME NEW j \in 1..Len(c), NEW k \in 1..Len(c), c[j].id = c[k].id
          PROVE  j = k
        <3>1. e[j] = e[k]
            BY <1>1, <1>8, <2>2 DEF Numbered
        <3>2. e[j] \in Nat /\ j \in Nat /\ k \in Nat
            BY <1>1, <1>8
        <3>3. ~ (j < k) /\ ~ (k < j)
            <4>1. j < k => e[j] < e[k]
                BY <1>4 DEF Places
            <4>2. k < j => e[k] < e[j]
                BY <1>4 DEF Places
            <4> QED BY <3>1, <3>2, <4>1, <4>2
        <3> QED BY <3>2, <3>3
    <2> QED BY <2>1, <2>2 DEF Numbered
<1>11. nextId + K \in Nat /\ nextId <= nextId + K
    BY <1>1
<1>12. Numbered(r, nextId + K) /\ r \in Seq(Message)
    <2> HIDE DEF cleared
    <2>1. r \in Seq(Message)
        BY <1>3, ReplaceOrigins
    <2> QED BY <1>3, <1>9, <1>10, <1>11, <2>1, ReplaceNumbered
<1>13. ASSUME NEW i \in 1..n
       PROVE  \E k \in 1..Len(r) : r[k] = b[i]
    <2>1. CASE i \in A
        <3>1. PICK j \in 1..Len(c) : e[j] = i
            BY <1>4, <2>1 DEF Places
        <3>2. c[j] = b[i]
            BY <1>8, <3>1
        <3> HIDE DEF cleared
        <3>3. \E k \in 1..Len(r) : r[k] = c[j]
            BY <1>3, ReplaceHolds
        <3> QED BY <3>2, <3>3
    <2>2. CASE i \notin A
        <3>1. i \notin ClearedAt(ms, cleared)
            BY <1>7, <2>2
        <3>2. ms[i].id \notin cleared
            BY <1>0, <3>1 DEF ClearedAt
        <3> HIDE DEF cleared
        <3>3. \E k \in 1..Len(r) : r[k] = ms[i]
            BY <1>3, <3>2, ReplaceHolds DEF n
        <3> QED BY <1>1, <2>2, <3>3
    <2> QED BY <2>1, <2>2
<1> HIDE DEF cleared, r
<1>14. x.type = "compacted" /\ x.cleared = cleared /\ x.replacements = c
    OBVIOUS
<1> HIDE DEF x
<1>15. /\ x \in Fact /\ MicroFacts(ms) = <<x>>
       /\ x.type = "compacted" /\ ClearedAt(ms, x.cleared) = MicroCleared(ms)
       /\ \A k \in 1..Len(x.replacements) : x.replacements[k].kind = "tool"
       /\ Replace(ms, x.cleared, x.replacements) = r
    BY <1>2, <1>6, <1>7, <1>9, <1>14 DEF A, r
<1> QED BY <1>12, <1>13, <1>15 DEF A, K, b, n

(* The fact of the summary clears something of any conversation that has    *)
(* the messages it was computed from.                                       *)
LEMMA AutoFits ==
    ASSUME NEW b \in Seq(Message), NEW r \in Seq(Message), NEW id \in Nat, Numbered(r, id),
           AutoCleared(b) # {}, \A i \in 1..Len(b) : \E k \in 1..Len(r) : r[k] = b[i]
    PROVE  /\ AutoFact(b, id) \in Fact /\ AutoFact(b, id).type = "compacted"
           /\ ClearedAt(r, AutoFact(b, id).cleared) # {}
           /\ Numbered(Replace(r, AutoFact(b, id).cleared, AutoFact(b, id).replacements), id + 1)
<1> DEFINE cleared == {b[i].id : i \in AutoCleared(b)}
           m == [id |-> id, kind |-> "summary", calls |-> {}, size |-> 1]
           x == AutoFact(b, id)
<1>1. AutoCleared(b) \subseteq 1..Len(b)
    <2>1. TailBoundary(b) \in 1..(Len(b) + 1) /\ Len(b) \in Nat
        BY BoundaryInside
    <2> DEFINE B == TailBoundary(b)
    <2> HIDE DEF B
    <2>2. \A i \in 1..B - 1 : i \in 1..Len(b)
        BY <2>1 DEF B
    <2> QED BY <2>2 DEF AutoCleared, B
<1>2. cleared \subseteq Nat
    BY <1>1, MessageAt
<1>3. m \in Message
    BY DEF Message, Kinds
<1>4. <<m>> \in Seq(Message) /\ Len(<<m>>) = 1 /\ <<m>>[1] = m
    <2> HIDE DEF m
    <2> QED BY <1>3
<1>5. x.type = "compacted" /\ x.cleared = cleared /\ x.replacements = <<m>>
    BY DEF AutoFact
<1>6. x \in Fact
    <2>1. x = [type |-> "compacted", cleared |-> cleared, replacements |-> <<m>>]
        BY DEF AutoFact
    <2> HIDE DEF cleared, m, x
    <2> QED BY <1>2, <1>4, <2>1 DEF Fact
<1>7. ClearedAt(r, cleared) # {}
    <2>1. PICK i \in AutoCleared(b) : TRUE
        OBVIOUS
    <2>2. PICK k \in 1..Len(r) : r[k] = b[i]
        BY <1>1, <2>1
    <2>3. k \in DOMAIN r /\ r[k].id \in cleared
        BY <2>1, <2>2, MessageAt
    <2> QED BY <2>3 DEF ClearedAt
<1>8. Numbered(<<m>>, id + 1)
    <2>1. m.id = id
        OBVIOUS
    <2> HIDE DEF m
    <2> QED BY <1>4, <2>1 DEF Numbered
<1>9. \A k \in 1..Len(<<m>>) : <<m>>[k].id >= id
    <2>1. m.id = id
        OBVIOUS
    <2> HIDE DEF m
    <2> QED BY <1>4, <2>1
<1>10. Numbered(Replace(r, cleared, <<m>>), id + 1)
    <2>1. id + 1 \in Nat /\ id <= id + 1
        OBVIOUS
    <2> HIDE DEF cleared, m
    <2> QED BY <1>4, <1>8, <1>9, <2>1, ReplaceNumbered
<1> HIDE DEF cleared, m, x
<1> QED BY <1>5, <1>6, <1>7, <1>10 DEF x

-----------------------------------------------------------------------------
(* The invariant of the journal and the state *)

LogInv ==
    /\ file \in Seq(Fact) /\ recovery \in Seq(Fact) /\ durable \in 0..Len(file)
    /\ live \in State
    /\ pc # "recovering" => recovery = <<>>
    /\ pc # "down" => live = ReduceAll(Empty, file \o recovery)
    /\ Sound(file \o recovery, nextId)
    /\ pc = "executing" => live.messages # <<>>

(* A sound log is sound with later identifiers. *)
LEMMA SoundLater ==
    ASSUME NEW log, NEW n \in Nat, NEW m \in Nat, n <= m, Sound(log, n)
    PROVE  Sound(log, m)
<1>0. log \in Seq(Fact)
    BY DEF Sound
<1>1. ASSUME NEW i \in 0..Len(log)
      PROVE  Numbered(At(log, i).messages, m)
    <2> DEFINE ms == At(log, i).messages
    <2>1. Numbered(ms, n)
        BY DEF Sound
    <2>2. ms \in Seq(Message)
        BY <1>0, AtSteps DEF State
    <2> HIDE DEF ms
    <2>3. \A k \in 1..Len(ms) : ms[k].id \in Nat
        BY <2>2, MessageAt
    <2>4. Numbered(ms, m)
        BY <2>1, <2>3 DEF Numbered
    <2> QED BY <2>4 DEF ms
<1> QED BY <1>1 DEF Sound

(* The state of a sound log *)
LEMMA SoundState ==
    ASSUME NEW log, NEW n, Sound(log, n)
    PROVE  /\ log \in Seq(Fact) /\ ReduceAll(Empty, log) \in State
           /\ ReduceAll(Empty, log).messages \in Seq(Message)
           /\ Numbered(ReduceAll(Empty, log).messages, n)
<1>1. log \in Seq(Fact) /\ Len(log) \in 0..Len(log)
    BY DEF Sound
<1>2. At(log, Len(log)) = ReduceAll(Empty, log) /\ At(log, Len(log)) \in State
    BY <1>1, AtSteps
<1> QED BY <1>1, <1>2 DEF Sound, State

(* One more fact at the end *)
LEMMA SoundFact ==
    ASSUME NEW log, NEW n \in Nat, NEW m \in Nat, n <= m, Sound(log, n), NEW x \in Fact,
           Fits(ReduceAll(Empty, log), x, Len(log)),
           Numbered(Reduce(ReduceAll(Empty, log), x).messages, m)
    PROVE  /\ Sound(log \o <<x>>, m)
           /\ ReduceAll(Empty, log \o <<x>>) = Reduce(ReduceAll(Empty, log), x)
<1>1. log \in Seq(Fact)
    BY DEF Sound
<1>2. log \o <<x>> = Append(log, x)
    BY <1>1
<1>3. Sound(Append(log, x), m)
    BY SoundGrows
<1>4. ReduceAll(Empty, Append(log, x)) = Reduce(ReduceAll(Empty, log), x)
    BY <1>1, EmptyType, ReduceSteps
<1> QED BY <1>2, <1>3, <1>4

(* A new message *)
LEMMA SoundMessage ==
    ASSUME NEW log, NEW n \in Nat, Sound(log, n), NEW m \in Message, m.id = n
    PROVE  /\ MessageFact(m) \in Fact /\ MessageFact(m).type = "message"
           /\ MessageFact(m).message = m
           /\ Sound(log \o <<MessageFact(m)>>, n + 1)
           /\ ReduceAll(Empty, log \o <<MessageFact(m)>>)
                = [ReduceAll(Empty, log) EXCEPT !.messages = Append(@, m)]
<1> DEFINE x == MessageFact(m)
           s == ReduceAll(Empty, log)
<1>1. x \in Fact /\ x.type = "message" /\ x.message = m
    BY DEF MessageFact, Fact
<1>2. s \in State /\ s.messages \in Seq(Message) /\ Numbered(s.messages, n)
    BY SoundState
<1> HIDE DEF x
<1>3. Reduce(s, x) = [s EXCEPT !.messages = Append(@, m)]
    BY <1>1 DEF Reduce
<1>4. Fits(s, x, Len(log))
    BY <1>1 DEF Fits
<1> DEFINE ms == s.messages
           more == Append(ms, m)
<1>5. Reduce(s, x).messages = more
    BY <1>2, <1>3 DEF State
<1>6. /\ Len(ms) \in Nat /\ Len(more) = Len(ms) + 1 /\ more[Len(ms) + 1] = m
      /\ \A i \in 1..Len(ms) : more[i] = ms[i]
    <2> HIDE DEF s
    <2> QED BY <1>2
<1>7. \A i \in 1..Len(ms) : ms[i].id \in Nat /\ ms[i].id < n
    <2> HIDE DEF s
    <2> QED BY <1>2, MessageAt DEF Numbered
<1> HIDE DEF ms, more
<1>8. ASSUME NEW i \in 1..(Len(ms) + 1)
      PROVE  \/ i = Len(ms) + 1 /\ more[i].id = n
             \/ i \in 1..Len(ms) /\ more[i] = ms[i] /\ ms[i].id \in Nat /\ ms[i].id < n
    <2>1. i = Len(ms) + 1 \/ i \in 1..Len(ms)
        BY <1>6
    <2> QED BY <1>6, <1>7, <2>1
<1>9. \A i \in 1..(Len(ms) + 1) : more[i].id < n + 1
    BY <1>8
<1>10. ASSUME NEW i \in 1..(Len(ms) + 1), NEW k \in 1..(Len(ms) + 1), more[i].id = more[k].id
       PROVE  i = k
    <2>1. CASE i = Len(ms) + 1
        BY <1>8, <1>10, <2>1
    <2>2. CASE k = Len(ms) + 1
        BY <1>8, <1>10, <2>2
    <2>3. CASE i \in 1..Len(ms) /\ k \in 1..Len(ms)
        <3>1. ms[i].id = ms[k].id
            BY <1>6, <1>10, <2>3
        <3> QED BY <1>2, <2>3, <3>1 DEF Numbered, ms
    <2> QED BY <1>8, <2>1, <2>2, <2>3
<1>11. Numbered(more, n + 1)
    BY <1>6, <1>9, <1>10 DEF Numbered
<1>12. n + 1 \in Nat /\ n <= n + 1
    OBVIOUS
<1> HIDE DEF s
<1>13. Sound(log \o <<x>>, n + 1) /\ ReduceAll(Empty, log \o <<x>>) = Reduce(s, x)
    BY <1>1, <1>4, <1>5, <1>11, <1>12, SoundFact DEF s
<1> QED BY <1>1, <1>3, <1>13 DEF s, x

(* What is persisted is replayed. *)
LEMMA PersistKeeps ==
    ASSUME LogInv, pc # "down", pc # "recovering", NEW facts \in Seq(Fact), NEW flush,
           Persist(facts, flush), recovery' = recovery, pc' # "recovering",
           Sound(file \o facts, nextId'),
           pc' = "executing" => ReduceAll(Empty, file \o facts).messages # <<>>
    PROVE  LogInv' /\ live' = ReduceAll(Empty, file \o facts) /\ file' \o recovery' = file \o facts
<1>1. recovery = <<>> /\ recovery' = <<>> /\ file \in Seq(Fact) /\ live \in State
    BY DEF LogInv
<1>2. file \o <<>> = file
    BY <1>1
<1>3. live = ReduceAll(Empty, file)
    BY <1>1, <1>2 DEF LogInv
<1>4. file' = file \o facts /\ live' = ReduceAll(live, facts)
    BY DEF Persist
<1>5. file' \in Seq(Fact)
    BY <1>1, <1>4
<1>6. file' \o recovery' = file'
    BY <1>1, <1>5
<1>7. live' = ReduceAll(Empty, file \o facts)
    BY <1>1, <1>3, <1>4, EmptyType, ReduceJoin
<1>8. live' \in State
    BY <1>1, <1>4, ReduceSteps
<1>9. durable' \in 0..Len(file')
    <2>1. Len(file') = Len(file) + Len(facts) /\ Len(file) \in Nat /\ Len(facts) \in Nat
        BY <1>1, <1>4
    <2>2. durable \in 0..Len(file)
        BY DEF LogInv
    <2>3. durable' \in {durable, Len(file')}
        BY DEF Persist
    <2> QED BY <2>1, <2>2, <2>3
<1>10. recovery' \in Seq(Fact)
    BY <1>1
<1>11. Sound(file' \o recovery', nextId')
    BY <1>4, <1>6
<1>12. live' = ReduceAll(Empty, file' \o recovery')
    BY <1>4, <1>6, <1>7
<1>13. pc' = "executing" => live'.messages # <<>>
    BY <1>7
<1> QED BY <1>1, <1>4, <1>5, <1>6, <1>7, <1>8, <1>9, <1>10, <1>11, <1>12, <1>13 DEF LogInv

(* The journal and the state of a session that runs *)
LEMMA Running ==
    ASSUME LogInv, pc # "down", pc # "recovering"
    PROVE  /\ file \in Seq(Fact) /\ recovery = <<>> /\ live = ReduceAll(Empty, file)
           /\ Sound(file, nextId) /\ live \in State /\ live.messages \in Seq(Message)
           /\ Numbered(live.messages, nextId) /\ Len(file) \in Nat
<1>1. recovery = <<>> /\ file \in Seq(Fact)
    BY DEF LogInv
<1>2. file \o recovery = file
    BY <1>1
<1>3. Sound(file, nextId) /\ live = ReduceAll(Empty, file)
    BY <1>2 DEF LogInv
<1> QED BY <1>1, <1>3, SoundState

(* The conversation gets a message. *)
LEMMA MessageKeeps ==
    ASSUME TypeOK, LogInv, pc # "down", pc # "recovering", NEW m \in Message, m.id = nextId,
           NEW flush, Persist(<<MessageFact(m)>>, flush), nextId' = nextId + 1,
           recovery' = recovery, pc' # "recovering"
    PROVE  LogInv' /\ live' = [live EXCEPT !.messages = Append(@, m)]
<1>1. nextId \in Nat
    BY DEF TypeOK
<1>2. /\ Sound(file, nextId) /\ live = ReduceAll(Empty, file) /\ live \in State
      /\ live.messages \in Seq(Message)
    BY Running
<1>3. /\ MessageFact(m) \in Fact
      /\ Sound(file \o <<MessageFact(m)>>, nextId + 1)
      /\ ReduceAll(Empty, file \o <<MessageFact(m)>>) = [live EXCEPT !.messages = Append(@, m)]
    BY <1>1, <1>2, SoundMessage
<1>4. <<MessageFact(m)>> \in Seq(Fact)
    BY <1>3
<1>5. ReduceAll(Empty, file \o <<MessageFact(m)>>).messages # <<>>
    <2>1. Append(live.messages, m) # <<>>
        BY <1>2
    <2> QED BY <1>2, <1>3, <2>1 DEF State
<1> QED BY <1>3, <1>4, <1>5, PersistKeeps

(* A call is accepted or completed. *)
LEMMA CallKeeps ==
    ASSUME TypeOK, LogInv, pc # "down", pc # "recovering", NEW x \in CallFact,
           NEW flush, Persist(<<x>>, flush), nextId' = nextId, recovery' = recovery, pc' = pc
    PROVE  LogInv' /\ live' = Reduce(live, x) /\ live'.messages = live.messages
<1>1. nextId \in Nat
    BY DEF TypeOK
<1>2. /\ Sound(file, nextId) /\ live = ReduceAll(Empty, file) /\ live \in State
      /\ file \in Seq(Fact) /\ Numbered(live.messages, nextId)
    BY Running
<1>3. x \in Fact /\ x.type \in {"accepted", "completed"}
    BY DEF CallFact, Fact
<1>4. Reduce(live, x).messages = live.messages
    BY <1>2, <1>3 DEF Reduce, State
<1>5. Fits(live, x, Len(file))
    BY <1>3 DEF Fits
<1>6. Sound(file \o <<x>>, nextId) /\ ReduceAll(Empty, file \o <<x>>) = Reduce(live, x)
    <2>1. nextId <= nextId
        BY <1>1
    <2> QED BY <1>1, <1>2, <1>3, <1>4, <1>5, <2>1, SoundFact
<1>7. <<x>> \in Seq(Fact)
    BY <1>3
<1>8. pc' = "executing" => ReduceAll(Empty, file \o <<x>>).messages # <<>>
    BY <1>4, <1>6 DEF LogInv
<1>9. LogInv' /\ live' = ReduceAll(Empty, file \o <<x>>)
    BY <1>6, <1>7, <1>8, PersistKeeps
<1> QED BY <1>4, <1>6, <1>9

(* createSnapshot *)
LEMMA SnapshotKeeps ==
    ASSUME TypeOK, LogInv, TakeSnapshot
    PROVE  LogInv' /\ live' = live
<1> DEFINE x == [type |-> "snapshot", state |-> live, lastSeq |-> Len(file)]
<1>0. /\ nextId \in Nat /\ pc = "ready" /\ Persist(<<x>>, TRUE)
      /\ nextId' = nextId /\ recovery' = recovery /\ pc' = pc
    BY DEF TypeOK, TakeSnapshot
<1>1. /\ Sound(file, nextId) /\ live = ReduceAll(Empty, file) /\ live \in State
      /\ file \in Seq(Fact) /\ Numbered(live.messages, nextId) /\ Len(file) \in Nat
    BY <1>0, Running
<1>2. x \in Fact /\ x.type = "snapshot" /\ x.state = live /\ x.lastSeq = Len(file)
    BY <1>1 DEF Fact
<1> HIDE DEF x
<1>3. Reduce(live, x) = live
    BY <1>2 DEF Reduce
<1>4. Fits(live, x, Len(file))
    BY <1>2 DEF Fits
<1>5. Sound(file \o <<x>>, nextId) /\ ReduceAll(Empty, file \o <<x>>) = live
    <2>1. nextId <= nextId
        BY <1>0
    <2> QED BY <1>0, <1>1, <1>2, <1>3, <1>4, <2>1, SoundFact
<1>6. <<x>> \in Seq(Fact)
    BY <1>2
<1>7. pc' # "executing" /\ pc' # "recovering" /\ pc # "down" /\ pc # "recovering"
    BY <1>0
<1>8. LogInv' /\ live' = ReduceAll(Empty, file \o <<x>>)
    BY <1>0, <1>5, <1>6, <1>7, PersistKeeps
<1> QED BY <1>5, <1>8

(* The facts of prepare *)
PreparedFacts(ms, summarises) ==
    IF summarises
    THEN MicroFacts(ms)
            \o <<AutoFact(MicroMessages(ms), nextId + Cardinality(MicroCleared(ms)))>>
    ELSE MicroFacts(ms)

(* Each fact of prepare is about the state the one before it leaves. *)
LEMMA PrepareFits ==
    ASSUME NEW log, nextId \in Nat, Sound(log, nextId), NEW summarises \in BOOLEAN,
           summarises => AutoCleared(MicroMessages(ReduceAll(Empty, log).messages)) # {}
    PROVE  LET ms == ReduceAll(Empty, log).messages IN
           /\ PreparedFacts(ms, summarises) \in Seq(Fact)
           /\ Cardinality(MicroCleared(ms)) \in Nat
           /\ Sound(log \o PreparedFacts(ms, summarises),
                    nextId + Cardinality(MicroCleared(ms)) + 1)
<1> DEFINE s == ReduceAll(Empty, log)
           ms == s.messages
           A == MicroCleared(ms)
           id == nextId + Cardinality(A)
           b == MicroMessages(ms)
           micro == MicroFacts(ms)
           auto == AutoFact(b, id)
<1>1. log \in Seq(Fact) /\ s \in State /\ ms \in Seq(Message) /\ Numbered(ms, nextId)
    BY SoundState
<1>2. /\ Cardinality(A) \in Nat /\ b \in Seq(Message) /\ Len(b) = Len(ms)
      /\ \A i \in 1..Len(ms) : i \notin A => b[i] = ms[i]
    <2> HIDE DEF s
    <2> QED BY <1>1, MicroBase
<1>3. id \in Nat /\ nextId <= id
    BY <1>2
<1>4. /\ micro \in Seq(Fact) /\ Sound(log \o micro, id)
      /\ \A i \in 1..Len(b) : \E k \in 1..Len(ReduceAll(Empty, log \o micro).messages) :
            ReduceAll(Empty, log \o micro).messages[k] = b[i]
    <2>1. CASE A = {}
        <3>1. micro = <<>>
            BY <2>1 DEF MicroFacts
        <3>2. log \o micro = log
            BY <1>1, <3>1
        <3>3. Sound(log, id)
            <4> HIDE DEF id
            <4> QED BY <1>3, SoundLater
        <3>4. \A i \in 1..Len(b) : i \in 1..Len(ms) /\ ms[i] = b[i]
            BY <1>2, <2>1
        <3>5. micro \in Seq(Fact)
            BY <3>1
        <3> HIDE DEF micro, b, id, A
        <3> QED BY <3>2, <3>3, <3>4, <3>5
    <2>2. CASE A # {}
        <3>1. PICK x \in Fact :
                /\ micro = <<x>>
                /\ x.type = "compacted" /\ ClearedAt(ms, x.cleared) = A
                /\ LET r == Replace(ms, x.cleared, x.replacements) IN
                    /\ r \in Seq(Message) /\ Numbered(r, id)
                    /\ \A i \in 1..Len(ms) : \E k \in 1..Len(r) : r[k] = b[i]
            <4> HIDE DEF s
            <4> QED BY <1>1, <2>2, MicroFits
        <3> HIDE DEF micro, b, id, A
        <3>2. Reduce(s, x).messages = Replace(ms, x.cleared, x.replacements)
            <4>1. Reduce(s, x) = [s EXCEPT !.messages = Replace(@, x.cleared, x.replacements)]
                BY <3>1 DEF Reduce
            <4> HIDE DEF s
            <4> QED BY <1>1, <4>1 DEF State
        <3>3. Fits(s, x, Len(log))
            BY <2>2, <3>1 DEF Fits
        <3>4. Sound(log \o <<x>>, id) /\ ReduceAll(Empty, log \o <<x>>) = Reduce(s, x)
            BY <1>3, <3>1, <3>2, <3>3, SoundFact
        <3>5. <<x>> \in Seq(Fact)
            OBVIOUS
        <3> HIDE DEF s
        <3> QED BY <1>2, <3>1, <3>2, <3>4, <3>5
    <2> QED BY <2>1, <2>2
<1>5. CASE ~ summarises
    <2>1. PreparedFacts(ms, summarises) = micro
        BY <1>5 DEF PreparedFacts
    <2> HIDE DEF micro, s, A
    <2>2. id + 1 \in Nat /\ id <= id + 1
        BY <1>3
    <2> HIDE DEF id
    <2>3. Sound(log \o micro, id + 1)
        BY <1>3, <1>4, <2>2, SoundLater
    <2> QED BY <1>2, <1>4, <2>1, <2>3 DEF s, id, A
<1>6. CASE summarises
    <2>1. PreparedFacts(ms, summarises) = micro \o <<auto>>
        BY <1>6 DEF PreparedFacts
    <2>2. AutoCleared(b) # {}
        BY <1>6
    <2> DEFINE l == log \o micro
               t == ReduceAll(Empty, l)
               r == t.messages
    <2> HIDE DEF micro, s, A, id, b, l
    <2>3. Sound(l, id) /\ l \in Seq(Fact)
        BY <1>4, SoundState DEF l
    <2>4. t \in State /\ r \in Seq(Message) /\ Numbered(r, id)
        BY <2>3, SoundState
    <2> HIDE DEF t
    <2>5. \A i \in 1..Len(b) : \E k \in 1..Len(r) : r[k] = b[i]
        BY <1>4 DEF l, t
    <2>6. /\ auto \in Fact /\ auto.type = "compacted" /\ ClearedAt(r, auto.cleared) # {}
          /\ Numbered(Replace(r, auto.cleared, auto.replacements), id + 1)
        BY <1>2, <1>3, <2>2, <2>4, <2>5, AutoFits
    <2> HIDE DEF auto
    <2>7. Reduce(t, auto).messages = Replace(r, auto.cleared, auto.replacements)
        <3>1. Reduce(t, auto) = [t EXCEPT !.messages = Replace(@, auto.cleared, auto.replacements)]
            BY <2>6 DEF Reduce
        <3> QED BY <2>4, <3>1 DEF State
    <2>8. Fits(t, auto, Len(l))
        BY <2>6 DEF Fits
    <2>9. id + 1 \in Nat /\ id <= id + 1
        BY <1>3
    <2>10. Sound(l \o <<auto>>, id + 1)
        BY <1>3, <2>3, <2>6, <2>7, <2>8, <2>9, SoundFact DEF t
    <2>11. l \o <<auto>> = log \o (micro \o <<auto>>) /\ micro \o <<auto>> \in Seq(Fact)
        BY <1>1, <1>4, <2>6 DEF l
    <2>12. Sound(log \o PreparedFacts(ms, summarises), id + 1)
        BY <2>1, <2>10, <2>11
    <2> QED BY <1>2, <2>1, <2>11, <2>12 DEF s, id, A
<1> QED BY <1>5, <1>6

(* prepare *)
LEMMA PrepareKeeps ==
    ASSUME TypeOK, LogInv, NEW force \in BOOLEAN, NEW answered \in BOOLEAN,
           PrepareContext(force, answered)
    PROVE  /\ LogInv' /\ nextId' \in Nat /\ failures' \in Nat
           /\ \E summarises \in BOOLEAN :
                /\ summarises => AutoCleared(MicroMessages(live.messages)) # {}
                /\ file' = file \o PreparedFacts(live.messages, summarises)
                /\ nextId' = nextId + Cardinality(MicroCleared(live.messages)) + 1
<1> DEFINE ms == live.messages
           base == MicroMessages(ms)
           id == nextId + Cardinality(MicroCleared(ms))
           fits == ~ force /\ Estimate(base) <= Budget
           due == ~ fits /\ failures < CompactFailureLimit /\ AutoCleared(base) # {}
           summarises == due /\ answered
           facts == PreparedFacts(ms, summarises)
<1>0. nextId \in Nat /\ failures \in Nat
    BY DEF TypeOK
<1>1. /\ pc = "ready" /\ pc' = pc /\ recovery' = recovery
      /\ nextId' = id + 1
      /\ failures' = IF ~ due THEN failures ELSE IF answered THEN 0 ELSE failures + 1
    BY DEF PrepareContext
<1>2. Persist(facts, FALSE)
    BY DEF PrepareContext, PreparedFacts
<1>3. failures' \in Nat
    <2> HIDE DEF due
    <2> QED BY <1>0, <1>1
<1>4. summarises => AutoCleared(base) # {}
    OBVIOUS
<1>5. summarises \in BOOLEAN
    OBVIOUS
<1> HIDE DEF summarises, due
<1>6. Sound(file, nextId) /\ live = ReduceAll(Empty, file)
    BY <1>1, Running
<1>7. /\ facts \in Seq(Fact) /\ Cardinality(MicroCleared(ms)) \in Nat
      /\ Sound(file \o facts, id + 1)
    <2>1. ms = ReduceAll(Empty, file).messages
        BY <1>6
    <2> HIDE DEF ms
    <2> QED BY <1>0, <1>4, <1>5, <1>6, <2>1, PrepareFits
<1>8. LogInv'
    <2>1. pc # "down" /\ pc # "recovering" /\ pc' # "recovering" /\ pc' # "executing"
        BY <1>1
    <2> HIDE DEF facts, id
    <2> QED BY <1>1, <1>2, <1>7, <2>1, PersistKeeps
<1>9. nextId' \in Nat
    BY <1>0, <1>1, <1>7
<1>10. file' = file \o facts
    BY <1>2 DEF Persist
<1> QED BY <1>1, <1>3, <1>4, <1>5, <1>8, <1>9, <1>10

(* A crash leaves first facts of the log. *)
LEMMA CrashKeeps ==
    ASSUME TypeOK, LogInv, Crash
    PROVE  /\ LogInv' /\ live' = Empty
           /\ \E n \in durable..Len(file) : durable' = n
                /\ file' \o recovery' = SubSeq(file \o recovery, 1, n) /\ n <= Len(file \o recovery)
<1>0. /\ file \in Seq(Fact) /\ recovery \in Seq(Fact) /\ durable \in 0..Len(file)
      /\ Sound(file \o recovery, nextId) /\ Len(file) \in Nat
    BY DEF LogInv
<1>1. PICK n \in durable..Len(file) : file' = SubSeq(file, 1, n) /\ durable' = n
    BY DEF Crash
<1>2. pc' = "down" /\ live' = Empty /\ recovery' = <<>> /\ nextId' = nextId
    BY DEF Crash
<1>3. n \in 0..Len(file)
    BY <1>0
<1>4. SubSeq(file, 1, n) = SubSeq(file \o recovery, 1, n) /\ n \in 0..Len(file \o recovery)
    BY <1>0, <1>3
<1>5. Sound(SubSeq(file, 1, n), nextId)
    BY <1>0, <1>4, SoundPrefix
<1>6. file' \in Seq(Fact) /\ Len(file') = n
    BY <1>0, <1>1, <1>3
<1>7. file' \o recovery' = file'
    BY <1>2, <1>6
<1>8. durable' \in 0..Len(file')
    BY <1>1, <1>3, <1>6
<1>9. recovery' \in Seq(Fact)
    BY <1>2
<1>10. live' \in State
    BY <1>2, EmptyType
<1>11. Sound(file' \o recovery', nextId')
    BY <1>1, <1>2, <1>5, <1>7
<1>12. LogInv'
    BY <1>2, <1>6, <1>8, <1>9, <1>10, <1>11 DEF LogInv
<1>13. n <= Len(file \o recovery)
    BY <1>0, <1>4
<1> QED BY <1>1, <1>2, <1>4, <1>7, <1>12, <1>13

(* A fact of the recovery goes to the journal. *)
LEMMA HeadMoves ==
    ASSUME NEW T, NEW a \in Seq(T), NEW b \in Seq(T), b # <<>>
    PROVE  /\ Append(a, Head(b)) \in Seq(T) /\ Tail(b) \in Seq(T)
           /\ Append(a, Head(b)) \o Tail(b) = a \o b
<1>1. Head(b) \in T /\ Tail(b) \in Seq(T) /\ Len(Tail(b)) = Len(b) - 1 /\ Len(b) >= 1
    OBVIOUS
<1>2. Append(a, Head(b)) \in Seq(T) /\ Len(Append(a, Head(b))) = Len(a) + 1
    BY <1>1
<1> DEFINE u == Append(a, Head(b)) \o Tail(b)
           v == a \o b
<1>3. u \in Seq(T) /\ v \in Seq(T) /\ Len(u) = Len(a) + Len(b) /\ Len(v) = Len(a) + Len(b)
    BY <1>1, <1>2
<1>4. ASSUME NEW k \in 1..(Len(a) + Len(b))
      PROVE  u[k] = v[k]
    <2>1. CASE k <= Len(a)
        BY <1>1, <1>2, <2>1
    <2>2. CASE k = Len(a) + 1
        BY <1>1, <1>2, <2>2
    <2>3. CASE k > Len(a) + 1
        BY <1>1, <1>2, <2>3
    <2>4. k <= Len(a) \/ k = Len(a) + 1 \/ k > Len(a) + 1
        OBVIOUS
    <2> HIDE DEF u, v
    <2> QED BY <2>1, <2>2, <2>3, <2>4
<1> HIDE DEF u, v
<1>5. u = v
    BY <1>3, <1>4
<1> QED BY <1>1, <1>2, <1>5 DEF u, v

(* The appending of recovery facts does not change the log. *)
LEMMA AppendKeeps ==
    ASSUME TypeOK, LogInv, AppendRecovery
    PROVE  LogInv' /\ file' \o recovery' = file \o recovery
<1>0. /\ file \in Seq(Fact) /\ recovery \in Seq(Fact) /\ durable \in 0..Len(file)
      /\ live \in State /\ live = ReduceAll(Empty, file \o recovery)
      /\ Sound(file \o recovery, nextId) /\ pc = "recovering"
      /\ live' = live /\ nextId' = nextId
    BY DEF LogInv, AppendRecovery
<1>1. CASE recovery = <<>>
    <2>1. pc' = "ready" /\ file' = file /\ durable' = durable /\ recovery' = recovery
        BY <1>1 DEF AppendRecovery
    <2> QED BY <1>0, <1>1, <2>1 DEF LogInv
<1>2. CASE recovery # <<>>
    <2>1. /\ file' = Append(file, Head(recovery)) /\ durable' = Len(file')
          /\ recovery' = Tail(recovery) /\ pc' = pc
        BY <1>2 DEF AppendRecovery
    <2>2. /\ file' \in Seq(Fact) /\ recovery' \in Seq(Fact)
          /\ file' \o recovery' = file \o recovery
        BY <1>0, <1>2, <2>1, HeadMoves
    <2>3. durable' \in 0..Len(file')
        BY <2>1, <2>2
    <2> QED BY <1>0, <2>1, <2>2, <2>3 DEF LogInv
<1> QED BY <1>1, <1>2

(* The calls the loader names are calls. *)
LEMMA OpenAreCalls ==
    ASSUME NEW log, NEW n, Sound(log, n)
    PROVE  /\ OpenCalls(log) \subseteq Calls /\ Unmessaged(log) \subseteq Calls
           /\ IsFiniteSet(OpenCalls(log))
<1>0. log \in Seq(Fact) /\ DOMAIN log = 1..Len(log) /\ \A i \in 1..Len(log) : log[i] \in Fact
    BY DEF Sound
<1>1. Completed(log) \subseteq Calls
    <2>1. ASSUME NEW i \in CallFacts(log, "completed")
          PROVE  log[i].call \in Calls
        <3>1. log[i] \in Fact /\ log[i].type = "completed"
            BY <1>0 DEF CallFacts
        <3> QED BY <3>1 DEF Fact
    <2> QED BY <2>1 DEF Completed
<1>2. LoadMessages(log) \in Seq(Message)
    BY <1>0, LoadSteps
<1>3. Requested(LoadMessages(log)) \subseteq Calls
    <2> DEFINE ms == LoadMessages(log)
    <2> HIDE DEF ms
    <2>1. \A i \in DOMAIN ms : ms[i] \in Message
        BY <1>2, MessageAt DEF ms
    <2>2. \A i \in DOMAIN ms : Requests(ms[i]) \subseteq Calls
        BY <2>1 DEF Message, Requests
    <2> QED BY <2>2 DEF Requested, ms
<1>4. AcceptedOpen(log) \subseteq Calls
    BY DEF AcceptedOpen
<1>5. OpenCalls(log) \in SUBSET Calls
    BY <1>3, <1>4 DEF OpenCalls
<1>6. IsFiniteSet(OpenCalls(log))
    BY <1>5, ConversationBounds, FS_Subset
<1> QED BY <1>1, <1>5, <1>6 DEF Unmessaged

(* The calls in some order: each once *)
LEMMA OpenOrder ==
    ASSUME NEW S, S \subseteq Calls, IsFiniteSet(S), NEW open \in SetToSeqs(S)
    PROVE  /\ open \in Seq(Calls) /\ Range(open) = S
           /\ \A i, j \in 1..Len(open) : i # j => open[i] # open[j]
<1> DEFINE n == Cardinality(S)
<1>1. n \in Nat /\ IsFiniteSet(1..n) /\ Cardinality(1..n) = n
    <2>1. n \in Nat
        BY FS_CardinalityType
    <2> HIDE DEF n
    <2> QED BY <2>1, FS_Interval
<1>2. open \in [1..n -> S] /\ \A i, j \in 1..n : i # j => open[i] # open[j]
    BY DEF SetToSeqs
<1>3. open \in Injection(1..n, S)
    BY <1>2 DEF Injection, IsInjective
<1>4. open \in Surjection(1..n, S)
    <2> DEFINE D == 1..n
    <2>1. IsFiniteSet(S) /\ Cardinality(D) = Cardinality(S) /\ open \in Injection(D, S)
        BY <1>1, <1>3
    <2> HIDE DEF D, n
    <2>2. open \in Surjection(D, S)
        BY <2>1, FS_Injection
    <2> QED BY <2>2 DEF D
<1>5. \A c \in S : \E i \in 1..n : open[i] = c
    BY <1>4 DEF Surjection
<1> HIDE DEF n
<1>6. open \in Seq(Calls) /\ Len(open) = n /\ DOMAIN open = 1..n
    BY <1>1, <1>2
<1>7. Range(open) = S
    BY <1>2, <1>5, <1>6 DEF Range
<1> QED BY <1>2, <1>6, <1>7

(* The facts of resumeState are sound after those of the journal. *)
LEMMA RecoveryFits ==
    ASSUME nextId \in Nat, NEW log, Sound(log, nextId), NEW open \in SetToSeqs(OpenCalls(log)),
           NEW s
    PROVE  LET flat == FlattenSeq([i \in DOMAIN open |-> Interrupt(s, open[i])])
               answered == OpenCalls(log) \cup Unmessaged(log)
               m == NewMessage("recovery", answered, 1) IN
           /\ flat \in Seq(CallFact)
           /\ Sound(log \o flat, nextId)
           /\ m \in Message /\ m.id = nextId
           /\ RecoveryFacts(log, s, open)
                = IF answered = {} THEN flat ELSE flat \o <<MessageFact(m)>>
           /\ RecoveryFacts(log, s, open) \in Seq(Fact)
           /\ Sound(log \o RecoveryFacts(log, s, open), nextId + 1)
<1> DEFINE S == OpenCalls(log)
           parts == [i \in DOMAIN open |-> Interrupt(s, open[i])]
           flat == FlattenSeq(parts)
           answered == S \cup Unmessaged(log)
           m == NewMessage("recovery", answered, 1)
           facts == RecoveryFacts(log, s, open)
<1>1. S \subseteq Calls /\ Unmessaged(log) \subseteq Calls /\ IsFiniteSet(S)
    BY OpenAreCalls
<1>2. open \in Seq(Calls) /\ Range(open) = S
    <2> HIDE DEF S
    <2> QED BY <1>1, OpenOrder DEF S
<1>3. parts \in Seq(Seq(CallFact))
    <2>1. DOMAIN open = 1..Len(open) /\ Len(open) \in Nat /\ \A i \in 1..Len(open) : open[i] \in Calls
        BY <1>2
    <2>2. \A i \in 1..Len(open) : Interrupt(s, open[i]) \in Seq(CallFact)
        BY <2>1, InterruptType
    <2>3. parts \in [1..Len(open) -> Seq(CallFact)]
        BY <2>1, <2>2
    <2> HIDE DEF parts
    <2> QED BY <2>1, <2>3
<1>4. flat \in Seq(CallFact)
    <2> HIDE DEF parts
    <2>1. PICK f \in [0..Len(parts) -> Seq(CallFact)] : flat = f[Len(parts)]
        BY <1>3, Flattens
    <2>2. Len(parts) \in 0..Len(parts)
        BY <1>3
    <2> QED BY <2>1, <2>2
<1>5. m \in Message /\ m.id = nextId
    <2>1. answered \in SUBSET Calls
        BY <1>1
    <2> HIDE DEF answered
    <2> QED BY <2>1 DEF NewMessage, Message, Kinds
<1>6. facts = flat \o (IF answered = {} THEN <<>> ELSE <<MessageFact(m)>>)
    BY <1>2 DEF RecoveryFacts
<1> HIDE DEF S, parts, flat, answered, m, facts
<1>7. Sound(log \o flat, nextId) /\ CallFact \subseteq Fact /\ log \in Seq(Fact)
    BY <1>4, CallFactsFit, SoundState DEF CallFact, Fact
<1>8. flat \in Seq(Fact)
    BY <1>4, <1>7
<1>9. CASE answered = {}
    <2>1. facts = flat
        BY <1>6, <1>8, <1>9
    <2>2. Sound(log \o flat, nextId + 1)
        <3>1. nextId + 1 \in Nat /\ nextId <= nextId + 1
            OBVIOUS
        <3> QED BY <1>7, <3>1, SoundLater
    <2> QED BY <1>4, <1>5, <1>7, <1>8, <1>9, <2>1, <2>2 DEF S, parts, flat, answered, m, facts
<1>10. CASE answered # {}
    <2>1. facts = flat \o <<MessageFact(m)>>
        BY <1>6, <1>10
    <2>2. MessageFact(m) \in Fact /\ Sound((log \o flat) \o <<MessageFact(m)>>, nextId + 1)
        BY <1>5, <1>7, SoundMessage
    <2>3. /\ facts \in Seq(Fact)
          /\ (log \o flat) \o <<MessageFact(m)>> = log \o (flat \o <<MessageFact(m)>>)
        BY <1>7, <1>8, <2>1, <2>2
    <2>4. Sound(log \o facts, nextId + 1)
        BY <2>1, <2>2, <2>3
    <2> QED BY <1>4, <1>5, <1>7, <1>10, <2>1, <2>3, <2>4 DEF S, parts, flat, answered, m, facts
<1> QED BY <1>9, <1>10

(* resumeState *)
LEMMA ResumeKeeps ==
    ASSUME TypeOK, LogInv, Resume
    PROVE  /\ LogInv' /\ recovery = <<>> /\ Sound(file, nextId)
           /\ \E open \in SetToSeqs(OpenCalls(file)) :
                recovery' = RecoveryFacts(file, ReduceAll(Empty, file), open)
<1>0. /\ nextId \in Nat /\ file \in Seq(Fact) /\ pc = "down" /\ recovery = <<>>
      /\ Sound(file \o recovery, nextId) /\ durable \in 0..Len(file)
    BY DEF TypeOK, LogInv, Resume
<1>1. file \o recovery = file
    BY <1>0
<1>2. Sound(file, nextId) /\ Replay(file) = ReduceAll(Empty, file)
    BY <1>0, <1>1, SoundReplay
<1>3. PICK open \in SetToSeqs(OpenCalls(file)) :
        /\ recovery' = RecoveryFacts(file, Replay(file), open)
        /\ live' = ReduceAll(Replay(file), RecoveryFacts(file, Replay(file), open))
    BY DEF Resume
<1> DEFINE facts == RecoveryFacts(file, Replay(file), open)
<1>4. facts \in Seq(Fact) /\ Sound(file \o facts, nextId + 1)
    BY <1>0, <1>2, RecoveryFits
<1> HIDE DEF facts
<1>5. pc' = "recovering" /\ nextId' = nextId + 1 /\ file' = file /\ durable' = durable
    BY DEF Resume
<1>6. live' = ReduceAll(Empty, file \o facts)
    BY <1>0, <1>2, <1>3, <1>4, EmptyType, ReduceJoin DEF facts
<1>7. live' \in State
    BY <1>4, <1>6, SoundState
<1>8. recovery' = facts
    BY <1>3 DEF facts
<1>9. LogInv'
    BY <1>0, <1>4, <1>5, <1>6, <1>7, <1>8 DEF LogInv
<1> QED BY <1>0, <1>2, <1>3, <1>9

-----------------------------------------------------------------------------
(* Each action keeps the invariant. *)

(* A new message is a message. *)
LEMMA NewMessageType ==
    ASSUME TypeOK, NEW kind \in Kinds, NEW calls \in SUBSET Calls, NEW size \in {1, Big}
    PROVE  NewMessage(kind, calls, size) \in Message /\ NewMessage(kind, calls, size).id = nextId
BY DEF NewMessage, Message, TypeOK

(* The messages of a running conversation *)
LEMMA LastMessage ==
    ASSUME LogInv, pc = "executing"
    PROVE  Last(live.messages) \in Message /\ Last(live.messages).calls \in SUBSET Calls
<1>1. live.messages \in Seq(Message) /\ live.messages # <<>>
    BY DEF LogInv, State
<1>2. Last(live.messages) \in Message
    BY <1>1 DEF Last
<1> QED BY <1>2 DEF Message

(* The first state *)
LEMMA InitLog == Init => TypeOK /\ LogInv
<1> SUFFICES ASSUME Init
             PROVE  TypeOK /\ LogInv
    OBVIOUS
<1>1. <<>> \in Seq(Fact) /\ Len(<<>>) = 0 /\ <<>> \o <<>> = <<>>
    OBVIOUS
<1>2. ReduceAll(Empty, <<>>) = Empty
    BY <1>1, EmptyType, ReduceSteps
<1>3. At(<<>>, 0) = Empty
    BY <1>1, AtSteps
<1>4. Numbered(<<>>, 1) /\ Empty.messages = <<>>
    BY <1>1 DEF Numbered, Empty
<1>5. Sound(<<>>, 1)
    <2>1. 1..0 = {} /\ \A i \in 0..0 : i = 0
        OBVIOUS
    <2> QED BY <1>1, <1>3, <1>4, <2>1 DEF Sound
<1>6. LogInv
    BY <1>1, <1>2, <1>5, EmptyType DEF Init, LogInv
<1>7. TypeOK
    <2>1. live \in State
        BY EmptyType DEF Init
    <2> QED BY <1>1, <2>1 DEF Init, TypeOK, State
<1> QED BY <1>6, <1>7

(* Every step keeps the log sound. *)
LEMMA StepLog == TypeOK /\ LogInv /\ Next => LogInv'
<1> SUFFICES ASSUME TypeOK, LogInv, Next
             PROVE  LogInv'
    OBVIOUS
<1>1. CASE AcceptHuman
    <2> DEFINE m == NewMessage("human", {}, 1)
    <2>1. m \in Message /\ m.id = nextId
        BY NewMessageType DEF Kinds
    <2> HIDE DEF m
    <2>2. pc = "ready" /\ Persist(<<MessageFact(m)>>, TRUE) /\ nextId' = nextId + 1
            /\ recovery' = recovery /\ pc' = pc
        BY <1>1 DEF AcceptHuman, m
    <2> QED BY <2>1, <2>2, MessageKeeps
<1>2. CASE InjectNote
    <2> DEFINE m == NewMessage("note", {}, 1)
    <2>1. m \in Message /\ m.id = nextId
        BY NewMessageType DEF Kinds
    <2> HIDE DEF m
    <2>2. pc = "ready" /\ Persist(<<MessageFact(m)>>, TRUE) /\ nextId' = nextId + 1
            /\ recovery' = recovery /\ pc' = pc
        BY <1>2 DEF InjectNote, m
    <2> QED BY <2>1, <2>2, MessageKeeps
<1>3. ASSUME NEW calls \in SUBSET Calls \ {{}}, RequestBatch(calls)
      PROVE  LogInv'
    <2> DEFINE m == NewMessage("assistant", calls, 1)
    <2>1. m \in Message /\ m.id = nextId
        BY NewMessageType DEF Kinds
    <2> HIDE DEF m
    <2>2. pc = "ready" /\ Persist(<<MessageFact(m)>>, FALSE) /\ nextId' = nextId + 1
            /\ recovery' = recovery /\ pc' = "executing"
        BY <1>3 DEF RequestBatch, m
    <2> QED BY <2>1, <2>2, MessageKeeps
<1>4. ASSUME NEW c \in Calls, AcceptCall(c)
      PROVE  LogInv'
    <2> DEFINE x == [type |-> "accepted", call |-> c]
    <2>1. x \in CallFact
        BY DEF CallFact
    <2> HIDE DEF x
    <2>2. pc = "executing" /\ Persist(<<x>>, TRUE) /\ nextId' = nextId /\ recovery' = recovery /\ pc' = pc
        BY <1>4 DEF AcceptCall, x
    <2> QED BY <2>1, <2>2, CallKeeps
<1>5. ASSUME NEW c \in Calls, CompleteCall(c)
      PROVE  LogInv'
    <2> DEFINE x == [type |-> "completed", call |-> c]
    <2>1. x \in CallFact
        BY DEF CallFact
    <2> HIDE DEF x
    <2>2. pc = "executing" /\ Persist(<<x>>, TRUE) /\ nextId' = nextId /\ recovery' = recovery /\ pc' = pc
        BY <1>5 DEF CompleteCall, x
    <2> QED BY <2>1, <2>2, CallKeeps
<1>6. ASSUME NEW size \in {1, Big}, AnswerBatch(size)
      PROVE  LogInv'
    <2> DEFINE m == NewMessage("tool", Last(live.messages).calls, size)
    <2>0. pc = "executing"
        BY <1>6 DEF AnswerBatch
    <2>1. m \in Message /\ m.id = nextId
        BY <2>0, LastMessage, NewMessageType DEF Kinds
    <2> HIDE DEF m
    <2>2. Persist(<<MessageFact(m)>>, FALSE) /\ nextId' = nextId + 1
            /\ recovery' = recovery /\ pc' = "ready"
        BY <1>6 DEF AnswerBatch, m
    <2> QED BY <2>0, <2>1, <2>2, MessageKeeps
<1>7. CASE TakeSnapshot
    BY <1>7, SnapshotKeeps
<1>8. ASSUME NEW force \in BOOLEAN, NEW answered \in BOOLEAN, PrepareContext(force, answered)
      PROVE  LogInv'
    BY <1>8, PrepareKeeps
<1>9. CASE Crash
    BY <1>9, CrashKeeps
<1>10. CASE Resume
    BY <1>10, ResumeKeeps
<1>11. CASE AppendRecovery
    BY <1>11, AppendKeeps
<1> QED BY <1>1, <1>2, <1>3, <1>4, <1>5, <1>6, <1>7, <1>8, <1>9, <1>10, <1>11 DEF Next

(* Every step keeps the types. *)
LEMMA StepType == TypeOK /\ LogInv /\ Next => TypeOK'
<1> SUFFICES ASSUME TypeOK, LogInv, Next
             PROVE  TypeOK'
    OBVIOUS
<1>1. LogInv'
    BY StepLog
<1>2. live' \in State /\ durable' \in 0..Len(file')
    BY <1>1 DEF LogInv
<1>3. /\ batch \subseteq Calls /\ failures \in Nat /\ nextId \in Nat /\ goal \in Nat /\ crashes \in Nat
      /\ notes \subseteq Nat /\ pc \in {"ready", "executing", "down", "recovering"}
    BY DEF TypeOK
<1> DEFINE Rest == /\ pc' \in {"ready", "executing", "down", "recovering"} /\ batch' \subseteq Calls
                   /\ failures' \in Nat /\ nextId' \in Nat /\ goal' \in Nat /\ crashes' \in Nat
                   /\ notes' \subseteq Nat
<1>4. Rest
    <2>1. CASE AcceptHuman
        BY <1>3, <2>1 DEF AcceptHuman
    <2>2. CASE InjectNote
        BY <1>3, <2>2 DEF InjectNote
    <2>3. ASSUME NEW calls \in SUBSET Calls \ {{}}, RequestBatch(calls)
          PROVE  Rest
        BY <1>3, <2>3 DEF RequestBatch
    <2>4. ASSUME NEW c \in Calls, AcceptCall(c) \/ CompleteCall(c)
          PROVE  Rest
        BY <1>3, <2>4 DEF AcceptCall, CompleteCall
    <2>5. ASSUME NEW size \in {1, Big}, AnswerBatch(size)
          PROVE  Rest
        BY <1>3, <2>5 DEF AnswerBatch
    <2>6. CASE TakeSnapshot
        BY <1>3, <2>6 DEF TakeSnapshot
    <2>7. ASSUME NEW force \in BOOLEAN, NEW answered \in BOOLEAN, PrepareContext(force, answered)
          PROVE  Rest
        <3>1. nextId' \in Nat /\ failures' \in Nat
            BY <2>7, PrepareKeeps
        <3>2. pc' = pc /\ batch' = batch /\ goal' = goal /\ notes' = notes /\ crashes' = crashes
            BY <2>7 DEF PrepareContext
        <3> QED BY <1>3, <3>1, <3>2
    <2>8. CASE Crash
        BY <1>3, <2>8 DEF Crash
    <2>9. CASE Resume
        BY <1>3, <2>9 DEF Resume
    <2>10. CASE AppendRecovery
        BY <1>3, <2>10 DEF AppendRecovery
    <2> HIDE DEF Rest
    <2> QED BY <2>1, <2>2, <2>3, <2>4, <2>5, <2>6, <2>7, <2>8, <2>9, <2>10 DEF Next
<1> QED BY <1>2, <1>4 DEF TypeOK, State

(* The log stays sound over all behaviours. *)
LEMMA LogHolds == Spec => [](TypeOK /\ LogInv)
<1>1. TypeOK /\ LogInv /\ [Next]_vars => (TypeOK /\ LogInv)'
    <2> SUFFICES ASSUME TypeOK, LogInv, [Next]_vars
                 PROVE  (TypeOK /\ LogInv)'
        OBVIOUS
    <2>1. CASE Next
        BY <2>1, StepLog, StepType
    <2>2. CASE UNCHANGED vars
        BY <2>2 DEF vars, TypeOK, LogInv
    <2> QED BY <2>1, <2>2
<1> QED BY <1>1, InitLog, PTL DEF Spec

(* Whatever is appended, compacted, lost in a crash and recovered, the      *)
(* variables keep their types (core/state.ts, session/SessionLoader.ts).    *)
THEOREM ConversationTypes == Spec => []TypeOK
BY LogHolds, PTL

(* Restoring the latest snapshot and replaying the facts after its lastSeq  *)
(* gives what a replay of all facts gives, and the state of the running     *)
(* engine (app/createRuntime.ts resumeState, core/state.ts).                *)
THEOREM SnapshotsAgree == Spec => []SnapshotAgrees
<1>1. TypeOK /\ LogInv => SnapshotAgrees
    <2> SUFFICES ASSUME TypeOK, LogInv
                 PROVE  SnapshotAgrees
        OBVIOUS
    <2>1. Sound(file, nextId)
        <3>1. /\ file \in Seq(Fact) /\ recovery \in Seq(Fact) /\ Sound(file \o recovery, nextId)
            BY DEF LogInv
        <3>2. /\ SubSeq(file \o recovery, 1, Len(file)) = file
              /\ Len(file) \in 0..Len(file \o recovery)
            BY <3>1
        <3> QED BY <3>1, <3>2, SoundPrefix
    <2>2. Replay(file) = ReduceAll(Empty, file)
        BY <2>1, SoundReplay
    <2>3. pc \in {"ready", "executing"} => live = ReduceAll(Empty, file)
        BY Running
    <2> QED BY <2>2, <2>3 DEF SnapshotAgrees
<1> QED BY <1>1, LogHolds, PTL

(* The loader's own replay of messages gives the conversation of the        *)
(* reducer, over any number of compactions (session/SessionLoader.ts).      *)
THEOREM LoadersAgree == Spec => []LoaderAgrees
<1>1. TypeOK /\ LogInv => LoaderAgrees
    <2> SUFFICES ASSUME TypeOK, LogInv
                 PROVE  LoaderAgrees
        OBVIOUS
    <2>1. Sound(file, nextId)
        <3>1. /\ file \in Seq(Fact) /\ recovery \in Seq(Fact) /\ Sound(file \o recovery, nextId)
            BY DEF LogInv
        <3>2. /\ SubSeq(file \o recovery, 1, Len(file)) = file
              /\ Len(file) \in 0..Len(file \o recovery)
            BY <3>1
        <3> QED BY <3>1, <3>2, SoundPrefix
    <2> QED BY <2>1, SoundLoads DEF LoaderAgrees
<1> QED BY <1>1, LogHolds, PTL

-----------------------------------------------------------------------------
(* The goal and the engine's notes stay in the conversation. *)

Holds(ms, id, kind) == \E k \in 1..Len(ms) : ms[k].id = id /\ ms[k].kind = kind

(* Human messages stand in the order they were sent, none after the goal. *)
InOrder(ms, g) ==
    /\ \A i, j \in 1..Len(ms) :
        i < j /\ ms[i].kind = "human" /\ ms[j].kind = "human" => ms[i].id < ms[j].id
    /\ \A i \in 1..Len(ms) : ms[i].kind = "human" => ms[i].id <= g

Keeps(ms, g, N) ==
    /\ g # 0 => Holds(ms, g, "human")
    /\ \A x \in N : Holds(ms, x, "note")

Guarded(log, d, g, N) ==
    /\ \A i \in 0..Len(log) : InOrder(At(log, i).messages, g)
    /\ \A i \in d..Len(log) : Keeps(At(log, i).messages, g, N)

(* One more fact *)
LEMMA GuardedGrows ==
    ASSUME NEW log \in Seq(Fact), NEW d \in Nat, NEW g, NEW N, Guarded(log, d, g, N),
           NEW x \in Fact, InOrder(Reduce(ReduceAll(Empty, log), x).messages, g),
           Keeps(Reduce(ReduceAll(Empty, log), x).messages, g, N)
    PROVE  Guarded(Append(log, x), d, g, N) /\ Guarded(log \o <<x>>, d, g, N)
<1> DEFINE more == Append(log, x)
           len == Len(log)
<1>1. /\ Len(more) = len + 1 /\ len \in Nat
      /\ \A i \in 0..len : At(more, i) = At(log, i)
      /\ At(more, len + 1) = Reduce(ReduceAll(Empty, log), x)
    BY AtGrows
<1> HIDE DEF more
<1>2. ASSUME NEW i \in 0..(len + 1)
      PROVE  InOrder(At(more, i).messages, g)
    <2>1. CASE i = len + 1
        BY <1>1, <2>1
    <2>2. CASE i \in 0..len
        BY <1>1, <2>2 DEF Guarded
    <2>3. i = len + 1 \/ i \in 0..len
        BY <1>1
    <2> QED BY <2>1, <2>2, <2>3
<1>3. ASSUME NEW i \in d..(len + 1)
      PROVE  Keeps(At(more, i).messages, g, N)
    <2>1. CASE i = len + 1
        BY <1>1, <2>1
    <2>2. CASE i \in d..len
        <3>1. i \in 0..len
            BY <1>1, <2>2
        <3> QED BY <1>1, <2>2, <3>1 DEF Guarded
    <2>3. i = len + 1 \/ i \in d..len
        BY <1>1
    <2> QED BY <2>1, <2>2, <2>3
<1>4. Guarded(more, d, g, N)
    BY <1>1, <1>2, <1>3 DEF Guarded
<1>5. log \o <<x>> = Append(log, x)
    OBVIOUS
<1> QED BY <1>4, <1>5 DEF more

(* A flushed fact: only what follows it has to keep a new goal or note. *)
LEMMA GuardedFlush ==
    ASSUME NEW log, NEW n \in Nat, Sound(log, n), NEW d \in Nat, NEW g \in Nat, NEW h \in Nat,
           g <= h, NEW N, NEW M,
           Guarded(log, d, g, N), NEW x \in Fact,
           InOrder(Reduce(ReduceAll(Empty, log), x).messages, h),
           Keeps(Reduce(ReduceAll(Empty, log), x).messages, h, M)
    PROVE  Guarded(log \o <<x>>, Len(log) + 1, h, M)
<1> DEFINE more == Append(log, x)
           len == Len(log)
<1>0. log \in Seq(Fact)
    BY DEF Sound
<1>1. /\ Len(more) = len + 1 /\ len \in Nat
      /\ \A i \in 0..len : At(more, i) = At(log, i)
      /\ At(more, len + 1) = Reduce(ReduceAll(Empty, log), x)
    BY <1>0, AtGrows
<1> HIDE DEF more
<1>2. ASSUME NEW i \in 0..(len + 1)
      PROVE  InOrder(At(more, i).messages, h)
    <2>1. CASE i = len + 1
        BY <1>1, <2>1
    <2>2. CASE i \in 0..len
        <3> DEFINE ms == At(log, i).messages
        <3>1. InOrder(ms, g)
            BY <2>2 DEF Guarded
        <3>2. ms \in Seq(Message)
            BY <1>0, <2>2, AtSteps DEF State
        <3> HIDE DEF ms
        <3>3. \A k \in 1..Len(ms) : ms[k].id \in Nat
            BY <3>2, MessageAt
        <3>4. InOrder(ms, h)
            BY <3>1, <3>3 DEF InOrder
        <3> QED BY <1>1, <2>2, <3>4 DEF ms
    <2>3. i = len + 1 \/ i \in 0..len
        BY <1>1
    <2> QED BY <2>1, <2>2, <2>3
<1>3. ASSUME NEW i \in (len + 1)..(len + 1)
      PROVE  Keeps(At(more, i).messages, h, M)
    <2>1. i = len + 1
        BY <1>1
    <2> QED BY <1>1, <2>1
<1>4. Guarded(more, len + 1, h, M)
    BY <1>1, <1>2, <1>3 DEF Guarded
<1>5. log \o <<x>> = Append(log, x)
    BY <1>0
<1> QED BY <1>4, <1>5 DEF more

(* A later flush asks for less. *)
LEMMA GuardedLater ==
    ASSUME NEW log \in Seq(Fact), NEW d \in Nat, NEW e \in Nat, d <= e, NEW g, NEW N,
           Guarded(log, d, g, N)
    PROVE  Guarded(log, e, g, N)
<1>1. \A i \in e..Len(log) : i \in d..Len(log)
    OBVIOUS
<1> QED BY <1>1 DEF Guarded

(* What a crash leaves *)
LEMMA GuardedPrefix ==
    ASSUME NEW log \in Seq(Fact), NEW d \in Nat, NEW n \in d..Len(log), NEW g, NEW N,
           Guarded(log, d, g, N)
    PROVE  Guarded(SubSeq(log, 1, n), n, g, N)
<1> DEFINE p == SubSeq(log, 1, n)
<1>1. n \in 0..Len(log) /\ Len(log) \in Nat
    OBVIOUS
<1>2. Len(p) = n /\ \A i \in 0..n : At(p, i) = At(log, i)
    BY <1>1, AtPrefix
<1> HIDE DEF p
<1>3. \A i \in 0..n : InOrder(At(p, i).messages, g)
    <2> TAKE i \in 0..n
    <2>1. i \in 0..Len(log)
        BY <1>1
    <2> QED BY <1>2, <2>1 DEF Guarded
<1>4. \A i \in n..n : Keeps(At(p, i).messages, g, N)
    <2> TAKE i \in n..n
    <2>1. i = n /\ n \in 0..n /\ n \in d..Len(log)
        BY <1>1
    <2> QED BY <1>2, <2>1 DEF Guarded
<1>5. Guarded(p, n, g, N)
    BY <1>2, <1>3, <1>4 DEF Guarded
<1> QED BY <1>5 DEF p

(* The end of a guarded log *)
LEMMA GuardedEnd ==
    ASSUME NEW log \in Seq(Fact), NEW d \in 0..Len(log), NEW g, NEW N, Guarded(log, d, g, N)
    PROVE  /\ InOrder(ReduceAll(Empty, log).messages, g)
           /\ Keeps(ReduceAll(Empty, log).messages, g, N)
<1>1. Len(log) \in 0..Len(log) /\ Len(log) \in d..Len(log)
    OBVIOUS
<1>2. At(log, Len(log)) = ReduceAll(Empty, log)
    BY AtSteps
<1> QED BY <1>1, <1>2 DEF Guarded

(* A new message that is not a human's *)
LEMMA AppendGuarded ==
    ASSUME NEW ms \in Seq(Message), NEW m \in Message, NEW g, NEW N, m.kind # "human",
           InOrder(ms, g), Keeps(ms, g, N)
    PROVE  InOrder(Append(ms, m), g) /\ Keeps(Append(ms, m), g, N)
<1> DEFINE r == Append(ms, m)
           n == Len(ms)
<1>1. n \in Nat /\ Len(r) = n + 1 /\ r[n + 1] = m /\ \A i \in 1..n : r[i] = ms[i]
    OBVIOUS
<1> HIDE DEF r, n
<1>2. \A i \in 1..(n + 1) : r[i].kind = "human" => i \in 1..n /\ r[i] = ms[i]
    <2> TAKE i \in 1..(n + 1)
    <2>1. i = n + 1 \/ i \in 1..n
        BY <1>1
    <2> QED BY <1>1, <2>1
<1>3. InOrder(r, g)
    BY <1>1, <1>2 DEF InOrder, n
<1>4. \A id, kind : Holds(ms, id, kind) => Holds(r, id, kind)
    <2> TAKE id, kind
    <2> HAVE Holds(ms, id, kind)
    <2>1. PICK k \in 1..n : ms[k].id = id /\ ms[k].kind = kind
        BY DEF Holds, n
    <2>2. k \in 1..(n + 1)
        BY <1>1
    <2> QED BY <1>1, <2>1, <2>2 DEF Holds
<1>5. Keeps(r, g, N)
    BY <1>4 DEF Keeps
<1> QED BY <1>3, <1>5 DEF r

(* A compaction that spares the goal and the notes *)
LEMMA ReplaceGuarded ==
    ASSUME NEW ms \in Seq(Message), NEW c \in Seq(Message), NEW cleared, NEW g, NEW N,
           InOrder(ms, g), Keeps(ms, g, N), \A k \in 1..Len(c) : c[k].kind # "human",
           \A i \in 1..Len(ms) :
                ms[i].kind = "note" \/ (ms[i].kind = "human" /\ ms[i].id = g)
                    => ms[i].id \notin cleared
    PROVE  /\ InOrder(Replace(ms, cleared, c), g)
           /\ Keeps(Replace(ms, cleared, c), g, N)
<1> DEFINE r == Replace(ms, cleared, c)
           at == 1..Len(ms) \ ClearedAt(ms, cleared)
<1>1. PICK o : Origins(r, ms, at, c, o)
    BY ReplaceOrigins
<1>2. at \subseteq 1..Len(ms) /\ Len(ms) \in Nat
    BY MessageAt
<1>3. \A i \in 1..Len(ms) : ms[i].id \notin cleared => \E k \in 1..Len(r) : r[k] = ms[i]
    BY ReplaceHolds
<1> HIDE DEF r, at
<1>4. ASSUME NEW k \in 1..Len(r), r[k].kind = "human"
      PROVE  o[k] \in 1..Len(ms) /\ o[k] > 0 /\ r[k] = ms[o[k]]
    <2>1. ~ (-o[k] \in 1..Len(c) /\ r[k] = c[-o[k]])
        BY <1>4
    <2>2. o[k] \in at /\ o[k] > 0 /\ r[k] = ms[o[k]]
        BY <1>1, <2>1 DEF Origins
    <2> QED BY <1>2, <2>2
<1>5. InOrder(r, g)
    <2>1. ASSUME NEW i \in 1..Len(r), NEW j \in 1..Len(r), i < j,
                 r[i].kind = "human", r[j].kind = "human"
          PROVE  r[i].id < r[j].id
        <3>1. o[i] \in 1..Len(ms) /\ o[i] > 0 /\ r[i] = ms[o[i]]
            BY <1>4, <2>1
        <3>2. o[j] \in 1..Len(ms) /\ o[j] > 0 /\ r[j] = ms[o[j]]
            BY <1>4, <2>1
        <3>3. o[i] < o[j]
            BY <1>1, <2>1, <3>1, <3>2 DEF Origins
        <3> QED BY <2>1, <3>1, <3>2, <3>3 DEF InOrder
    <2>2. ASSUME NEW i \in 1..Len(r), r[i].kind = "human"
          PROVE  r[i].id <= g
        <3>1. o[i] \in 1..Len(ms) /\ r[i] = ms[o[i]]
            BY <1>4, <2>2
        <3> QED BY <2>2, <3>1 DEF InOrder
    <2> QED BY <2>1, <2>2 DEF InOrder
<1>6. ASSUME g # 0
      PROVE  Holds(r, g, "human")
    <2>1. PICK i \in 1..Len(ms) : ms[i].id = g /\ ms[i].kind = "human"
        BY <1>6 DEF Keeps, Holds
    <2>2. PICK k \in 1..Len(r) : r[k] = ms[i]
        BY <1>3, <2>1
    <2> QED BY <2>1, <2>2 DEF Holds
<1>7. ASSUME NEW x \in N
      PROVE  Holds(r, x, "note")
    <2>1. PICK i \in 1..Len(ms) : ms[i].id = x /\ ms[i].kind = "note"
        BY DEF Keeps, Holds
    <2>2. PICK k \in 1..Len(r) : r[k] = ms[i]
        BY <1>3, <2>1
    <2> QED BY <2>1, <2>2 DEF Holds
<1>8. Keeps(r, g, N)
    BY <1>6, <1>7 DEF Keeps
<1> QED BY <1>5, <1>8 DEF r

(* The summary takes neither a note nor the goal. *)
LEMMA AutoSpares ==
    ASSUME NEW ms \in Seq(Message), nextId \in Nat, Numbered(ms, nextId), NEW g, InOrder(ms, g),
           NEW i \in 1..Len(ms), ms[i].kind = "note" \/ (ms[i].kind = "human" /\ ms[i].id = g),
           NEW j \in AutoCleared(MicroMessages(ms))
    PROVE  MicroMessages(ms)[j].id # ms[i].id
<1> DEFINE n == Len(ms)
           A == MicroCleared(ms)
           b == MicroMessages(ms)
           H == {0} \cup {k \in DOMAIN b : b[k].kind = "human"}
<1> SUFFICES ASSUME b[j].id = ms[i].id
             PROVE  FALSE
    OBVIOUS
<1>1. /\ A \subseteq 1..n /\ b \in Seq(Message) /\ Len(b) = n /\ n \in Nat /\ DOMAIN b = 1..n
      /\ \A k \in 1..n : k \notin A => b[k] = ms[k]
      /\ \A k \in A : ms[k].kind = "tool" /\ b[k].kind = "tool"
      /\ Numbered(b, nextId + Cardinality(A))
    BY MicroBase, MessageAt
<1>2. j \in 1..n
    <2>1. TailBoundary(b) \in 1..(n + 1)
        BY <1>1, BoundaryInside
    <2> DEFINE B == TailBoundary(b)
    <2> HIDE DEF B, b, n
    <2>2. j \in 1..B - 1
        BY DEF AutoCleared, B, b
    <2> QED BY <1>1, <2>1, <2>2 DEF B
<1>3. ~ Incompressible(b, j)
    BY DEF AutoCleared
<1> HIDE DEF A, b, n
<1>4. i \notin A /\ i \in 1..n
    BY <1>1 DEF n
<1>5. b[i] = ms[i]
    BY <1>1, <1>4
<1>6. j = i
    BY <1>1, <1>2, <1>4, <1>5 DEF Numbered
<1>7. b[i].kind # "note" /\ i # LatestHuman(b)
    BY <1>3, <1>6 DEF Incompressible
<1>8. ms[i].kind = "human" /\ ms[i].id = g
    BY <1>5, <1>7
<1>9. i \in H /\ H \subseteq 0..n
    BY <1>1, <1>4, <1>5, <1>8
<1>10. LatestHuman(b) = Max(H)
    BY DEF LatestHuman
<1>11. Max(H) \in H /\ Max(H) >= i
    <2> HIDE DEF H
    <2> QED BY <1>1, <1>9, GreatestOf
<1> DEFINE x == Max(H)
<1>12. x \in H /\ x >= i /\ x # i
    BY <1>7, <1>10, <1>11
<1> HIDE DEF x
<1>13. x \in 1..n /\ b[x].kind = "human"
    <2>1. x # 0
        BY <1>4, <1>12
    <2> QED BY <1>1, <1>12, <2>1
<1>14. x \notin A
    BY <1>1, <1>13
<1>15. ms[x].kind = "human" /\ i < x
    <2>1. i < x
        BY <1>4, <1>12, <1>13
    <2> QED BY <1>1, <1>13, <1>14, <2>1
<1>16. ms[i].id < ms[x].id /\ ms[x].id <= g
    BY <1>4, <1>8, <1>13, <1>15 DEF InOrder, n
<1>17. ms[x].id \in Nat /\ ms[i].id \in Nat
    BY <1>4, <1>13, MessageAt DEF n
<1> QED BY <1>8, <1>16, <1>17

(* Neither does microCompact, and both put no human message in. *)
LEMMA PrepareGuarded ==
    ASSUME NEW log, nextId \in Nat, Sound(log, nextId), NEW summarises \in BOOLEAN,
           summarises => AutoCleared(MicroMessages(ReduceAll(Empty, log).messages)) # {},
           NEW d \in 0..Len(log), NEW g, NEW N, Guarded(log, d, g, N)
    PROVE  Guarded(log \o PreparedFacts(ReduceAll(Empty, log).messages, summarises), d, g, N)
<1> DEFINE s == ReduceAll(Empty, log)
           ms == s.messages
           A == MicroCleared(ms)
           id == nextId + Cardinality(A)
           b == MicroMessages(ms)
           micro == MicroFacts(ms)
           auto == AutoFact(b, id)
           l == log \o micro
           t == ReduceAll(Empty, l)
           r == t.messages
<1>1. log \in Seq(Fact) /\ s \in State /\ ms \in Seq(Message) /\ Numbered(ms, nextId) /\ d \in Nat
    BY SoundState
<1>2. InOrder(ms, g) /\ Keeps(ms, g, N)
    BY <1>1, GuardedEnd
<1>3. /\ micro \in Seq(Fact) /\ l \in Seq(Fact) /\ Guarded(l, d, g, N)
      /\ r \in Seq(Message) /\ t \in State
      /\ \A k \in 1..Len(r) : r[k].kind \in {"note", "human"} =>
            \E i \in 1..Len(ms) : r[k] = ms[i]
    <2>1. CASE A = {}
        <3>1. micro = <<>>
            BY <2>1 DEF MicroFacts
        <3>2. l = log /\ micro \in Seq(Fact)
            BY <1>1, <3>1
        <3> HIDE DEF micro, l, s
        <3> QED BY <1>1, <3>2 DEF s
    <2>2. CASE A # {}
        <3>1. PICK x \in Fact :
                /\ micro = <<x>>
                /\ x.type = "compacted" /\ ClearedAt(ms, x.cleared) = A
                /\ \A k \in 1..Len(x.replacements) : x.replacements[k].kind = "tool"
                /\ Replace(ms, x.cleared, x.replacements) \in Seq(Message)
            <4> HIDE DEF s
            <4> QED BY <1>1, <2>2, MicroFits
        <3> HIDE DEF micro
        <3> DEFINE c == x.replacements
                   q == Replace(ms, x.cleared, c)
        <3>2. c \in Seq(Message)
            BY <3>1 DEF Fact
        <3>3. Reduce(s, x).messages = q
            <4>1. Reduce(s, x) = [s EXCEPT !.messages = Replace(@, x.cleared, x.replacements)]
                BY <3>1 DEF Reduce
            <4> HIDE DEF s
            <4> QED BY <1>1, <4>1 DEF State
        <3>4. \A i \in 1..Len(ms) : ms[i].kind \in {"note", "human"} => ms[i].id \notin x.cleared
            <4> SUFFICES ASSUME NEW i \in 1..Len(ms), ms[i].kind \in {"note", "human"},
                                ms[i].id \in x.cleared
                         PROVE  FALSE
                OBVIOUS
            <4>1. i \in ClearedAt(ms, x.cleared)
                <5> HIDE DEF s
                <5> QED BY <1>1, MessageAt DEF ClearedAt
            <4>2. ms[i].kind = "tool"
                BY <3>1, <4>1 DEF MicroCleared
            <4> QED BY <4>2
        <3>5. InOrder(q, g) /\ Keeps(q, g, N)
            <4>1. \A k \in 1..Len(c) : c[k].kind # "human"
                BY <3>1
            <4> HIDE DEF s, c
            <4> QED BY <1>1, <1>2, <3>2, <3>4, <4>1, ReplaceGuarded
        <3>6. Guarded(log \o <<x>>, d, g, N)
            <4> HIDE DEF q
            <4> QED BY <1>1, <3>3, <3>5, GuardedGrows
        <3>7. l = log \o <<x>> /\ micro \in Seq(Fact) /\ l \in Seq(Fact)
            BY <1>1, <3>1
        <3>8. t = Reduce(s, x)
            <4>1. log \o <<x>> = Append(log, x)
                BY <1>1
            <4>2. ReduceAll(Empty, Append(log, x)) = Reduce(ReduceAll(Empty, log), x)
                BY <1>1, EmptyType, ReduceSteps
            <4> HIDE DEF l
            <4> QED BY <3>7, <4>1, <4>2
        <3>9. t \in State
            BY <3>7, EmptyType, ReduceSteps
        <3>10. ASSUME NEW k \in 1..Len(q), q[k].kind \in {"note", "human"}
               PROVE  \E i \in 1..Len(ms) : q[k] = ms[i]
            <4> DEFINE at == 1..Len(ms) \ ClearedAt(ms, x.cleared)
            <4> HIDE DEF s, c
            <4>1. PICK o : Origins(q, ms, at, c, o)
                BY <1>1, <3>2, ReplaceOrigins
            <4>2. ~ (-o[k] \in 1..Len(c) /\ q[k] = c[-o[k]])
                BY <3>1, <3>10 DEF c
            <4>3. o[k] \in at /\ q[k] = ms[o[k]]
                BY <4>1, <4>2 DEF Origins
            <4> QED BY <4>3
        <3>11. r = q
            BY <3>3, <3>8
        <3> HIDE DEF l, s, t, q, c
        <3> QED BY <3>1, <3>6, <3>7, <3>9, <3>10, <3>11 DEF q, c
    <2> QED BY <2>1, <2>2
<1>4. CASE ~ summarises
    <2>1. PreparedFacts(ms, summarises) = micro
        BY <1>4 DEF PreparedFacts
    <2> QED BY <1>3, <2>1
<1>5. CASE summarises
    <2>1. PreparedFacts(ms, summarises) = micro \o <<auto>>
        BY <1>5 DEF PreparedFacts
    <2>2. AutoCleared(b) # {}
        BY <1>5
    <2>3. /\ auto.type = "compacted" /\ auto.cleared = {b[i].id : i \in AutoCleared(b)}
          /\ auto.replacements = <<[id |-> id, kind |-> "summary", calls |-> {}, size |-> 1]>>
        BY DEF AutoFact
    <2>4. Cardinality(A) \in Nat /\ b \in Seq(Message)
        <3> HIDE DEF s
        <3> QED BY <1>1, MicroBase
    <2>5. id \in Nat
        BY <2>4
    <2>6. auto \in Fact /\ auto.replacements \in Seq(Message)
        <3>1. AutoCleared(b) \subseteq 1..Len(b)
            <4>1. TailBoundary(b) \in 1..(Len(b) + 1) /\ Len(b) \in Nat
                BY <2>4, BoundaryInside
            <4> DEFINE B == TailBoundary(b)
            <4> HIDE DEF B, b
            <4>2. \A i \in 1..B - 1 : i \in 1..Len(b)
                BY <4>1 DEF B
            <4> QED BY <4>2 DEF AutoCleared, B
        <3>2. auto.cleared \subseteq Nat
            <4>1. \A i \in 1..Len(b) : b[i].id \in Nat
                BY <2>4, MessageAt
            <4> HIDE DEF auto, b
            <4> QED BY <2>3, <3>1, <4>1
        <3> DEFINE m == [id |-> id, kind |-> "summary", calls |-> {}, size |-> 1]
        <3>3. m \in Message
            BY <2>5 DEF Message, Kinds
        <3> HIDE DEF m
        <3>4. <<m>> \in Seq(Message)
            BY <3>3
        <3>5. auto = [type |-> "compacted", cleared |-> auto.cleared, replacements |-> <<m>>]
            BY DEF AutoFact, m
        <3> DEFINE C == auto.cleared
        <3>6. [type |-> "compacted", cleared |-> C, replacements |-> <<m>>] \in Fact
            <4>1. C \in SUBSET Nat
                BY <3>2
            <4> HIDE DEF C
            <4> QED BY <3>4, <4>1 DEF Fact
        <3>7. auto.replacements = <<m>>
            BY <2>3 DEF m
        <3> HIDE DEF auto
        <3> QED BY <3>4, <3>5, <3>6, <3>7
    <2> DEFINE c == auto.replacements
    <2>7. \A k \in 1..Len(c) : c[k].kind # "human"
        <3> DEFINE m == [id |-> id, kind |-> "summary", calls |-> {}, size |-> 1]
        <3>1. m.kind = "summary" /\ c = <<m>>
            BY <2>3
        <3> HIDE DEF m, c, auto
        <3>2. Len(c) = 1 /\ c[1] = m
            BY <3>1
        <3> QED BY <3>1, <3>2
    <2>8. InOrder(r, g) /\ Keeps(r, g, N)
        <3>1. Len(l) \in 0..Len(l) /\ d \in 0..Len(l)
            <4>1. Len(l) = Len(log) + Len(micro) /\ Len(micro) \in Nat /\ Len(log) \in Nat
                BY <1>1, <1>3
            <4> HIDE DEF l, micro
            <4> QED BY <4>1
        <3> HIDE DEF l
        <3> QED BY <1>3, <3>1, GuardedEnd
    <2>9. ASSUME NEW k \in 1..Len(r), r[k].kind = "note" \/ (r[k].kind = "human" /\ r[k].id = g)
          PROVE  r[k].id \notin auto.cleared
        <3>1. PICK i \in 1..Len(ms) : r[k] = ms[i]
            BY <1>3, <2>9
        <3>2. ms[i].kind = "note" \/ (ms[i].kind = "human" /\ ms[i].id = g)
            BY <2>9, <3>1
        <3>3. \A j \in AutoCleared(b) : b[j].id # ms[i].id
            <4> HIDE DEF s
            <4> QED BY <1>1, <1>2, <3>2, AutoSpares
        <3> HIDE DEF b, r, auto
        <3> QED BY <2>3, <3>1, <3>3
    <2>10. Reduce(t, auto).messages = Replace(r, auto.cleared, c)
        <3>1. Reduce(t, auto) = [t EXCEPT !.messages = Replace(@, auto.cleared, auto.replacements)]
            <4> HIDE DEF auto, t
            <4> QED BY <2>3 DEF Reduce
        <3> HIDE DEF auto, t
        <3> QED BY <1>3, <3>1 DEF State
    <2> HIDE DEF micro, s, A, id, b, l, t, auto, c
    <2>11. c \in Seq(Message)
        BY <2>6 DEF c
    <2>12. InOrder(Replace(r, auto.cleared, c), g) /\ Keeps(Replace(r, auto.cleared, c), g, N)
        BY <1>3, <2>7, <2>8, <2>9, <2>11, ReplaceGuarded
    <2>13. Guarded(l \o <<auto>>, d, g, N)
        BY <1>1, <1>3, <2>6, <2>10, <2>12, GuardedGrows DEF t
    <2>14. l \o <<auto>> = log \o (micro \o <<auto>>)
        BY <1>1, <1>3, <2>6 DEF l
    <2> QED BY <2>1, <2>13, <2>14 DEF s
<1> QED BY <1>4, <1>5

(* Facts about calls *)
LEMMA CallsGuarded ==
    ASSUME NEW log \in Seq(Fact), NEW b \in Seq(CallFact), NEW d \in 0..Len(log), NEW g, NEW N,
           Guarded(log, d, g, N)
    PROVE  Guarded(log \o b, d, g, N)
<1> DEFINE P(i) == SubSeq(b, 1, i)
           len == Len(b)
           S == {i \in Nat : Guarded(log \o P(i), d, g, N)}
<1>0. len \in Nat /\ CallFact \subseteq Fact /\ d \in Nat
    BY DEF CallFact, Fact
<1>1. 0 \in S
    <2>1. P(0) = <<>> /\ log \o <<>> = log
        OBVIOUS
    <2> QED BY <2>1
<1>2. ASSUME NEW i \in Nat, i < len, i \in S
      PROVE  i + 1 \in S
    <2>1. P(i) \in Seq(CallFact) /\ b[i + 1] \in CallFact /\ P(i + 1) = Append(P(i), b[i + 1])
        BY <1>0, <1>2, GrowByOne
    <2> DEFINE l == log \o P(i)
               x == b[i + 1]
    <2>2. Guarded(l, d, g, N)
        BY <1>2
    <2>3. x \in Fact /\ x.type \in {"accepted", "completed"}
        BY <1>0, <2>1 DEF CallFact
    <2>4. log \o P(i + 1) = Append(l, x)
        <3> HIDE DEF P
        <3>1. log \o Append(P(i), b[i + 1]) = Append(log \o P(i), b[i + 1])
            BY <2>1
        <3> QED BY <2>1, <3>1
    <2>5. l \in Seq(Fact) /\ d \in 0..Len(l)
        <3> HIDE DEF P
        <3>1. P(i) \in Seq(Fact)
            BY <1>0, <2>1
        <3> QED BY <3>1
    <2> HIDE DEF l, x
    <2>6. ReduceAll(Empty, l) \in State
        BY <2>5, EmptyType, ReduceSteps
    <2>7. Reduce(ReduceAll(Empty, l), x).messages = ReduceAll(Empty, l).messages
        BY <2>3, <2>6 DEF Reduce, State
    <2>8. InOrder(ReduceAll(Empty, l).messages, g) /\ Keeps(ReduceAll(Empty, l).messages, g, N)
        BY <2>2, <2>5, GuardedEnd
    <2>9. Guarded(Append(l, x), d, g, N)
        BY <1>0, <2>2, <2>3, <2>5, <2>7, <2>8, GuardedGrows
    <2>10. Guarded(log \o P(i + 1), d, g, N)
        BY <2>4, <2>9
    <2> QED BY <2>10
<1> HIDE DEF S
<1>3. \A i \in Nat : i < len /\ i \in S => i + 1 \in S
    BY <1>2
<1>4. \A i \in 0..len : i \in S
    BY <1>0, <1>1, <1>3, Climbs
<1>5. Guarded(log \o P(len), d, g, N)
    BY <1>0, <1>4 DEF S
<1>6. P(len) = b
    OBVIOUS
<1> QED BY <1>5, <1>6

(* A message that is not a human's *)
LEMMA MessageGuarded ==
    ASSUME NEW log, NEW n \in Nat, Sound(log, n), NEW m \in Message, m.id = n,
           m.kind # "human", NEW d \in 0..Len(log), NEW g, NEW N, Guarded(log, d, g, N)
    PROVE  Guarded(log \o <<MessageFact(m)>>, d, g, N)
<1> DEFINE x == MessageFact(m)
           s == ReduceAll(Empty, log)
<1>1. log \in Seq(Fact) /\ s \in State /\ s.messages \in Seq(Message) /\ d \in Nat
    BY SoundState
<1>2. x \in Fact /\ x.type = "message" /\ x.message = m
    BY SoundMessage
<1> HIDE DEF x, s
<1>3. Reduce(s, x).messages = Append(s.messages, m)
    BY <1>1, <1>2 DEF Reduce, State
<1>4. InOrder(s.messages, g) /\ Keeps(s.messages, g, N)
    BY <1>1, GuardedEnd DEF s
<1>5. InOrder(Append(s.messages, m), g) /\ Keeps(Append(s.messages, m), g, N)
    BY <1>1, <1>4, AppendGuarded
<1>6. Guarded(log \o <<x>>, d, g, N)
    BY <1>1, <1>2, <1>3, <1>5, GuardedGrows DEF s
<1> QED BY <1>6 DEF x

(* A human message is the new goal, a note a new note. *)
LEMMA NewGuarded ==
    ASSUME NEW log, NEW n \in Nat, Sound(log, n), NEW m \in Message, m.id = n,
           NEW d \in 0..Len(log), NEW g \in Nat, g < n, NEW N, Guarded(log, d, g, N)
    PROVE  /\ m.kind = "human" => Guarded(log \o <<MessageFact(m)>>, Len(log) + 1, n, N)
           /\ m.kind = "note" => Guarded(log \o <<MessageFact(m)>>, Len(log) + 1, g, N \cup {n})
<1> DEFINE x == MessageFact(m)
           s == ReduceAll(Empty, log)
           ms == s.messages
           r == Append(ms, m)
<1>1. log \in Seq(Fact) /\ s \in State /\ ms \in Seq(Message) /\ Numbered(ms, n) /\ d \in Nat
    BY SoundState
<1>2. x \in Fact /\ x.type = "message" /\ x.message = m
    BY SoundMessage
<1> HIDE DEF x, s
<1>3. Reduce(s, x).messages = r
    BY <1>1, <1>2 DEF Reduce, State
<1>4. InOrder(ms, g) /\ Keeps(ms, g, N)
    BY <1>1, GuardedEnd DEF s
<1>5. /\ Len(ms) \in Nat /\ Len(r) = Len(ms) + 1 /\ r[Len(ms) + 1] = m
      /\ \A i \in 1..Len(ms) : r[i] = ms[i]
    BY <1>1
<1>6. \A i \in 1..Len(ms) : ms[i].id \in Nat /\ ms[i].id < n
    BY <1>1, MessageAt DEF Numbered
<1>7. Holds(r, n, m.kind)
    <2>1. Len(ms) + 1 \in 1..Len(r)
        BY <1>5
    <2> HIDE DEF r
    <2> QED BY <1>5, <2>1 DEF Holds
<1>8. ASSUME NEW y, NEW k, Holds(ms, y, k)
      PROVE  Holds(r, y, k)
    <2>1. PICK i \in 1..Len(ms) : ms[i].id = y /\ ms[i].kind = k
        BY <1>8 DEF Holds
    <2>2. i \in 1..Len(r) /\ r[i] = ms[i]
        BY <1>5
    <2> HIDE DEF r
    <2> QED BY <2>1, <2>2 DEF Holds
<1> HIDE DEF r, ms
<1>9. \A y \in N : Holds(r, y, "note")
    BY <1>4, <1>8 DEF Keeps
<1>10. ASSUME m.kind = "human"
       PROVE  Guarded(log \o <<x>>, Len(log) + 1, n, N)
    <2>1. ASSUME NEW i \in 1..Len(r)
          PROVE  \/ i = Len(ms) + 1 /\ r[i] = m
                 \/ i \in 1..Len(ms) /\ r[i] = ms[i] /\ ms[i].id \in Nat /\ ms[i].id < n
        <3>1. i = Len(ms) + 1 \/ i \in 1..Len(ms)
            BY <1>5
        <3> QED BY <1>5, <1>6, <3>1
    <2>2. ASSUME NEW i \in 1..Len(r), NEW j \in 1..Len(r), i < j,
                 r[i].kind = "human", r[j].kind = "human"
          PROVE  r[i].id < r[j].id
        <3>1. i \in 1..Len(ms) /\ r[i] = ms[i] /\ ms[i].id \in Nat /\ ms[i].id < n
            BY <1>5, <2>1, <2>2
        <3>2. CASE j = Len(ms) + 1 /\ r[j] = m
            BY <3>1, <3>2
        <3>3. CASE j \in 1..Len(ms) /\ r[j] = ms[j]
            BY <1>4, <2>2, <3>1, <3>3 DEF InOrder
        <3> QED BY <2>1, <3>2, <3>3
    <2>3. \A i \in 1..Len(r) : r[i].id <= n
        BY <2>1
    <2>4. InOrder(r, n)
        BY <2>2, <2>3 DEF InOrder
    <2>5. Keeps(r, n, N)
        BY <1>7, <1>9, <1>10 DEF Keeps
    <2>6. g <= n
        OBVIOUS
    <2> QED BY <1>1, <1>2, <1>3, <2>4, <2>5, <2>6, GuardedFlush DEF s
<1>11. ASSUME m.kind = "note"
       PROVE  Guarded(log \o <<x>>, Len(log) + 1, g, N \cup {n})
    <2>1. InOrder(r, g) /\ Keeps(r, g, N)
        <3>1. m.kind # "human"
            BY <1>11
        <3> QED BY <1>1, <1>4, <3>1, AppendGuarded DEF r
    <2>2. Keeps(r, g, N \cup {n})
        BY <1>7, <1>9, <1>11, <2>1 DEF Keeps
    <2>3. g <= g
        OBVIOUS
    <2> QED BY <1>1, <1>2, <1>3, <2>1, <2>2, <2>3, GuardedFlush DEF s
<1> QED BY <1>10, <1>11 DEF x

GoalInv == goal < nextId /\ Guarded(file \o recovery, durable, goal, notes)

(* Persisted facts that keep the log guarded keep the invariant. *)
LEMMA PersistGuarded ==
    ASSUME TypeOK, LogInv, GoalInv, LogInv', pc # "down", pc # "recovering", recovery' = recovery,
           NEW facts \in Seq(Fact), NEW flush, Persist(facts, flush),
           Guarded(file \o facts, durable, goal, notes), goal' = goal, notes' = notes,
           nextId' \in Nat, nextId <= nextId'
    PROVE  GoalInv'
<1>1. file \in Seq(Fact) /\ recovery' = <<>> /\ durable \in 0..Len(file) /\ goal \in Nat /\ nextId \in Nat
    BY DEF LogInv, TypeOK
<1>2. file' = file \o facts /\ file' \in Seq(Fact) /\ durable' \in {durable, Len(file')}
    BY <1>1 DEF Persist
<1>3. file' \o recovery' = file'
    BY <1>1, <1>2
<1>4. durable <= durable' /\ durable' \in Nat /\ durable \in Nat
    <2>1. Len(file') = Len(file) + Len(facts) /\ Len(file) \in Nat /\ Len(facts) \in Nat
        BY <1>1, <1>2
    <2> QED BY <1>1, <1>2, <2>1
<1>5. Guarded(file', durable', goal, notes)
    BY <1>2, <1>4, GuardedLater
<1>6. goal < nextId'
    BY <1>1 DEF GoalInv
<1> QED BY <1>3, <1>5, <1>6 DEF GoalInv

(* Every step keeps the goal and the notes. *)
LEMMA StepGoal == TypeOK /\ LogInv /\ GoalInv /\ Next => GoalInv'
<1> SUFFICES ASSUME TypeOK, LogInv, GoalInv, Next
             PROVE  GoalInv'
    OBVIOUS
<1>0. LogInv' /\ nextId \in Nat /\ goal \in Nat /\ goal < nextId
    BY StepLog DEF TypeOK, GoalInv
<1>a. /\ file \in Seq(Fact) /\ recovery \in Seq(Fact) /\ durable \in 0..Len(file)
      /\ Sound(file \o recovery, nextId) /\ Guarded(file \o recovery, durable, goal, notes)
    BY DEF LogInv, GoalInv
<1>b. ASSUME pc # "down", pc # "recovering"
      PROVE  /\ Sound(file, nextId) /\ Guarded(file, durable, goal, notes)
             /\ live = ReduceAll(Empty, file) /\ recovery = <<>>
    <2>1. recovery = <<>> /\ file \o <<>> = file
        BY <1>b, <1>a DEF LogInv
    <2> QED BY <1>a, <1>b, <2>1, Running
<1>c. ASSUME NEW m \in Message, m.id = nextId, m.kind # "human", NEW flush,
             Persist(<<MessageFact(m)>>, flush), pc # "down", pc # "recovering",
             recovery' = recovery, nextId' = nextId + 1, goal' = goal, notes' = notes
      PROVE  GoalInv'
    <2>1. Guarded(file \o <<MessageFact(m)>>, durable, goal, notes)
        BY <1>0, <1>a, <1>b, <1>c, MessageGuarded
    <2>2. MessageFact(m) \in Fact
        BY <1>0, <1>b, <1>c, SoundMessage
    <2>3. <<MessageFact(m)>> \in Seq(Fact)
        BY <2>2
    <2>4. nextId' \in Nat /\ nextId <= nextId'
        BY <1>0, <1>c
    <2> QED BY <1>0, <1>c, <2>1, <2>3, <2>4, PersistGuarded
<1>d. ASSUME NEW x \in CallFact, NEW flush, Persist(<<x>>, flush), pc # "down", pc # "recovering",
             recovery' = recovery, nextId' = nextId, goal' = goal, notes' = notes
      PROVE  GoalInv'
    <2>1. <<x>> \in Seq(CallFact) /\ <<x>> \in Seq(Fact)
        <3>1. x \in Fact
            BY DEF CallFact, Fact
        <3> QED BY <3>1
    <2>2. Guarded(file \o <<x>>, durable, goal, notes)
        BY <1>a, <1>b, <1>d, <2>1, CallsGuarded
    <2>3. nextId' \in Nat /\ nextId <= nextId'
        BY <1>0, <1>d
    <2> QED BY <1>0, <1>d, <2>1, <2>2, <2>3, PersistGuarded
<1>1. CASE AcceptHuman
    <2> DEFINE m == NewMessage("human", {}, 1)
    <2>1. m \in Message /\ m.id = nextId
        BY NewMessageType DEF Kinds
    <2>2. m.kind = "human"
        BY DEF NewMessage
    <2> HIDE DEF m
    <2>3. /\ pc = "ready" /\ Persist(<<MessageFact(m)>>, TRUE) /\ nextId' = nextId + 1
          /\ recovery' = recovery /\ goal' = nextId /\ notes' = notes
        BY <1>1 DEF AcceptHuman, m
    <2>4. Guarded(file \o <<MessageFact(m)>>, Len(file) + 1, nextId, notes)
        BY <1>0, <1>a, <1>b, <2>1, <2>2, <2>3, NewGuarded
    <2>5. MessageFact(m) \in Fact
        BY <1>0, <1>b, <2>1, <2>3, SoundMessage
    <2>6. file' = file \o <<MessageFact(m)>> /\ durable' = Len(file') /\ recovery' = <<>>
        BY <1>b, <2>3 DEF Persist
    <2>7. file' \o recovery' = file' /\ Len(file') = Len(file) + 1
        BY <1>a, <2>5, <2>6
    <2>8. goal' < nextId'
        BY <1>0, <2>3
    <2>9. Guarded(file' \o recovery', durable', goal', notes')
        BY <2>3, <2>4, <2>6, <2>7
    <2> QED BY <2>8, <2>9 DEF GoalInv
<1>2. CASE InjectNote
    <2> DEFINE m == NewMessage("note", {}, 1)
    <2>1. m \in Message /\ m.id = nextId
        BY NewMessageType DEF Kinds
    <2>2. m.kind = "note"
        BY DEF NewMessage
    <2> HIDE DEF m
    <2>3. /\ pc = "ready" /\ Persist(<<MessageFact(m)>>, TRUE) /\ nextId' = nextId + 1
          /\ recovery' = recovery /\ goal' = goal /\ notes' = notes \cup {nextId}
        BY <1>2 DEF InjectNote, m
    <2>4. Guarded(file \o <<MessageFact(m)>>, Len(file) + 1, goal, notes \cup {nextId})
        BY <1>0, <1>a, <1>b, <2>1, <2>2, <2>3, NewGuarded
    <2>5. MessageFact(m) \in Fact
        BY <1>0, <1>b, <2>1, <2>3, SoundMessage
    <2>6. file' = file \o <<MessageFact(m)>> /\ durable' = Len(file') /\ recovery' = <<>>
        BY <1>b, <2>3 DEF Persist
    <2>7. file' \o recovery' = file' /\ Len(file') = Len(file) + 1
        BY <1>a, <2>5, <2>6
    <2>8. goal' < nextId'
        BY <1>0, <2>3
    <2>9. Guarded(file' \o recovery', durable', goal', notes')
        BY <2>3, <2>4, <2>6, <2>7
    <2> QED BY <2>8, <2>9 DEF GoalInv
<1>3. ASSUME NEW calls \in SUBSET Calls \ {{}}, RequestBatch(calls)
      PROVE  GoalInv'
    <2> DEFINE m == NewMessage("assistant", calls, 1)
    <2>1. m \in Message /\ m.id = nextId
        BY NewMessageType DEF Kinds
    <2>2. m.kind # "human"
        BY DEF NewMessage
    <2> HIDE DEF m
    <2>3. /\ pc = "ready" /\ Persist(<<MessageFact(m)>>, FALSE) /\ nextId' = nextId + 1
          /\ recovery' = recovery /\ goal' = goal /\ notes' = notes
        BY <1>3 DEF RequestBatch, m
    <2> QED BY <1>c, <2>1, <2>2, <2>3
<1>4. ASSUME NEW c \in Calls, AcceptCall(c)
      PROVE  GoalInv'
    <2> DEFINE x == [type |-> "accepted", call |-> c]
    <2>1. x \in CallFact
        BY DEF CallFact
    <2> HIDE DEF x
    <2>2. /\ pc = "executing" /\ Persist(<<x>>, TRUE) /\ nextId' = nextId
          /\ recovery' = recovery /\ goal' = goal /\ notes' = notes
        BY <1>4 DEF AcceptCall, x
    <2> QED BY <1>d, <2>1, <2>2
<1>5. ASSUME NEW c \in Calls, CompleteCall(c)
      PROVE  GoalInv'
    <2> DEFINE x == [type |-> "completed", call |-> c]
    <2>1. x \in CallFact
        BY DEF CallFact
    <2> HIDE DEF x
    <2>2. /\ pc = "executing" /\ Persist(<<x>>, TRUE) /\ nextId' = nextId
          /\ recovery' = recovery /\ goal' = goal /\ notes' = notes
        BY <1>5 DEF CompleteCall, x
    <2> QED BY <1>d, <2>1, <2>2
<1>6. ASSUME NEW size \in {1, Big}, AnswerBatch(size)
      PROVE  GoalInv'
    <2> DEFINE m == NewMessage("tool", Last(live.messages).calls, size)
    <2>0. pc = "executing"
        BY <1>6 DEF AnswerBatch
    <2>1. m \in Message /\ m.id = nextId
        BY <2>0, LastMessage, NewMessageType DEF Kinds
    <2>2. m.kind # "human"
        BY DEF NewMessage
    <2> HIDE DEF m
    <2>3. /\ Persist(<<MessageFact(m)>>, FALSE) /\ nextId' = nextId + 1
          /\ recovery' = recovery /\ goal' = goal /\ notes' = notes
        BY <1>6 DEF AnswerBatch, m
    <2> QED BY <1>c, <2>0, <2>1, <2>2, <2>3
<1>7. CASE TakeSnapshot
    <2> DEFINE x == [type |-> "snapshot", state |-> live, lastSeq |-> Len(file)]
    <2>1. /\ pc = "ready" /\ Persist(<<x>>, TRUE) /\ nextId' = nextId
          /\ recovery' = recovery /\ goal' = goal /\ notes' = notes
        BY <1>7 DEF TakeSnapshot
    <2>2. live \in State /\ Len(file) \in Nat
        BY <1>a DEF LogInv
    <2>3. x \in Fact /\ x.type = "snapshot"
        BY <2>2 DEF Fact
    <2> HIDE DEF x
    <2>4. Reduce(live, x) = live
        BY <2>3 DEF Reduce
    <2>5. InOrder(live.messages, goal) /\ Keeps(live.messages, goal, notes)
        BY <1>a, <1>b, <2>1, GuardedEnd
    <2>6. durable \in Nat
        BY <1>a
    <2>7. Guarded(file \o <<x>>, durable, goal, notes)
        BY <1>a, <1>b, <2>1, <2>3, <2>4, <2>5, <2>6, GuardedGrows
    <2>8. <<x>> \in Seq(Fact) /\ nextId' \in Nat /\ nextId <= nextId'
        BY <1>0, <2>1, <2>3
    <2> QED BY <1>0, <2>1, <2>7, <2>8, PersistGuarded
<1>8. ASSUME NEW force \in BOOLEAN, NEW answered \in BOOLEAN, PrepareContext(force, answered)
      PROVE  GoalInv'
    <2>1. /\ pc = "ready" /\ recovery' = recovery /\ goal' = goal /\ notes' = notes
          /\ durable' = durable /\ nextId' \in Nat
        <3>1. nextId' \in Nat
            BY <1>8, PrepareKeeps
        <3> QED BY <1>8, <3>1 DEF PrepareContext, Persist
    <2>2. PICK summarises \in BOOLEAN :
            /\ summarises => AutoCleared(MicroMessages(live.messages)) # {}
            /\ file' = file \o PreparedFacts(live.messages, summarises)
            /\ nextId' = nextId + Cardinality(MicroCleared(live.messages)) + 1
        BY <1>8, PrepareKeeps
    <2>3. live.messages = ReduceAll(Empty, file).messages
        BY <1>b, <2>1
    <2>4. Guarded(file', durable, goal, notes)
        BY <1>0, <1>a, <1>b, <2>1, <2>2, <2>3, PrepareGuarded
    <2>5. Cardinality(MicroCleared(live.messages)) \in Nat
        BY <1>0, <1>b, <2>1, <2>2, <2>3, PrepareFits
    <2>6. file' \o recovery' = file'
        <3>1. file' \in Seq(Fact) /\ recovery' = <<>>
            BY <1>0, <1>b, <2>1 DEF LogInv
        <3> QED BY <3>1
    <2>7. goal' < nextId'
        BY <1>0, <2>1, <2>2, <2>5
    <2>8. Guarded(file' \o recovery', durable', goal', notes')
        BY <2>1, <2>4, <2>6
    <2> QED BY <2>7, <2>8 DEF GoalInv
<1>9. CASE Crash
    <2>1. PICK n \in durable..Len(file) : /\ durable' = n
                /\ file' \o recovery' = SubSeq(file \o recovery, 1, n) /\ n <= Len(file \o recovery)
        BY <1>9, CrashKeeps
    <2>2. goal' = goal /\ notes' = notes /\ nextId' = nextId
        BY <1>9 DEF Crash
    <2>3. durable \in Nat /\ n \in durable..Len(file \o recovery) /\ file \o recovery \in Seq(Fact)
        BY <1>a, <2>1
    <2>4. Guarded(SubSeq(file \o recovery, 1, n), n, goal, notes)
        BY <1>a, <2>3, GuardedPrefix
    <2>5. Guarded(file' \o recovery', durable', goal', notes')
        BY <2>1, <2>2, <2>4
    <2> QED BY <1>0, <2>2, <2>5 DEF GoalInv
<1>10. CASE Resume
    <2>1. /\ recovery = <<>> /\ Sound(file, nextId)
          /\ \E open \in SetToSeqs(OpenCalls(file)) :
                recovery' = RecoveryFacts(file, ReduceAll(Empty, file), open)
        BY <1>10, ResumeKeeps
    <2>2. PICK open \in SetToSeqs(OpenCalls(file)) :
                recovery' = RecoveryFacts(file, ReduceAll(Empty, file), open)
        BY <2>1
    <2> DEFINE s == ReduceAll(Empty, file)
               flat == FlattenSeq([i \in DOMAIN open |-> Interrupt(s, open[i])])
               answered == OpenCalls(file) \cup Unmessaged(file)
               m == NewMessage("recovery", answered, 1)
    <2>3. /\ flat \in Seq(CallFact) /\ Sound(file \o flat, nextId)
          /\ m \in Message /\ m.id = nextId
          /\ recovery' = IF answered = {} THEN flat ELSE flat \o <<MessageFact(m)>>
        BY <1>0, <2>1, <2>2, RecoveryFits
    <2>4. m.kind # "human"
        BY DEF NewMessage
    <2> HIDE DEF s, flat, answered, m
    <2>5. goal' = goal /\ notes' = notes /\ nextId' = nextId + 1 /\ file' = file /\ durable' = durable
        BY <1>10 DEF Resume
    <2>6. Guarded(file, durable, goal, notes)
        <3>1. file \o recovery = file
            BY <1>a, <2>1
        <3> QED BY <1>a, <3>1
    <2>7. Guarded(file \o flat, durable, goal, notes)
        BY <1>a, <2>3, <2>6, CallsGuarded
    <2>8. flat \in Seq(Fact)
        <3>1. CallFact \subseteq Fact
            BY DEF CallFact, Fact
        <3> QED BY <2>3, <3>1
    <2>9. Guarded(file \o recovery', durable, goal, notes)
        <3>1. CASE answered = {}
            BY <2>3, <2>7, <3>1
        <3>2. CASE answered # {}
            <4>1. durable \in 0..Len(file \o flat)
                BY <1>a, <2>8
            <4>2. Guarded((file \o flat) \o <<MessageFact(m)>>, durable, goal, notes)
                BY <1>0, <2>3, <2>4, <2>7, <4>1, MessageGuarded
            <4>3. MessageFact(m) \in Fact
                BY <1>0, <2>3, SoundMessage
            <4>4. (file \o flat) \o <<MessageFact(m)>> = file \o (flat \o <<MessageFact(m)>>)
                BY <1>a, <2>8, <4>3
            <4> QED BY <2>3, <3>2, <4>2, <4>4
        <3> QED BY <3>1, <3>2
    <2>10. goal' < nextId'
        BY <1>0, <2>5
    <2>11. Guarded(file' \o recovery', durable', goal', notes')
        BY <2>5, <2>9
    <2> QED BY <2>10, <2>11 DEF GoalInv
<1>11. CASE AppendRecovery
    <2>1. file' \o recovery' = file \o recovery
        BY <1>11, AppendKeeps
    <2>2. goal' = goal /\ notes' = notes /\ nextId' = nextId
        BY <1>11 DEF AppendRecovery
    <2>3. durable \in Nat /\ durable' \in Nat /\ durable <= durable'
        <3>1. durable' = durable \/ (file' = Append(file, Head(recovery)) /\ durable' = Len(file'))
            BY <1>11 DEF AppendRecovery
        <3>2. Len(Append(file, Head(recovery))) = Len(file) + 1 /\ Len(file) \in Nat
            BY <1>a
        <3> QED BY <1>a, <3>1, <3>2
    <2>4. file \o recovery \in Seq(Fact)
        BY <1>a
    <2>5. Guarded(file \o recovery, durable', goal, notes)
        BY <1>a, <2>3, <2>4, GuardedLater
    <2>6. Guarded(file' \o recovery', durable', goal', notes')
        BY <2>1, <2>2, <2>5
    <2> QED BY <1>0, <2>2, <2>6 DEF GoalInv
<1> QED BY <1>1, <1>2, <1>3, <1>4, <1>5, <1>6, <1>7, <1>8, <1>9, <1>10, <1>11 DEF Next

(* The current goal and every message the engine injected stay in the       *)
(* conversation verbatim, over any number of compactions, crashes and       *)
(* recoveries (context/ContextManager.ts, app/createRuntime.ts).            *)
THEOREM GoalIsKept == Spec => []GoalKept
<1>1. Init => GoalInv
    <2> SUFFICES ASSUME Init
                 PROVE  GoalInv
        OBVIOUS
    <2>1. <<>> \in Seq(Fact) /\ Len(<<>>) = 0 /\ <<>> \o <<>> = <<>>
        OBVIOUS
    <2>2. At(<<>>, 0).messages = <<>>
      <3>1. At(<<>>, 0) = Empty
          BY <2>1, AtSteps
      <3> QED
          BY <3>1 DEF Empty
    <2>3. \A i \in 0..0 : i = 0
        OBVIOUS
    <2>4. InOrder(<<>>, 0)
        BY <2>1 DEF InOrder
    <2>5. Keeps(<<>>, 0, {})
        BY DEF Keeps
    <2>6. Guarded(<<>>, 0, 0, {})
        BY <2>1, <2>2, <2>3, <2>4, <2>5 DEF Guarded
    <2> QED BY <2>1, <2>6 DEF Init, GoalInv
<1>2. TypeOK /\ LogInv /\ GoalInv /\ [Next]_vars => GoalInv'
    <2>1. TypeOK /\ LogInv /\ GoalInv /\ UNCHANGED vars => GoalInv'
        BY DEF vars, GoalInv
    <2> QED BY <2>1, StepGoal
<1>3. TypeOK /\ LogInv /\ GoalInv => GoalKept
    <2> SUFFICES ASSUME TypeOK, LogInv, GoalInv, pc \in {"ready", "executing"}
                 PROVE  notes \cup ({goal} \ {0})
                            \subseteq {live.messages[i].id : i \in DOMAIN live.messages}
        BY DEF GoalKept
    <2>1. /\ file \in Seq(Fact) /\ recovery = <<>> /\ live = ReduceAll(Empty, file)
          /\ live.messages \in Seq(Message)
        BY Running
    <2>2. file \o recovery = file /\ durable \in 0..Len(file)
        BY <2>1 DEF LogInv
    <2>3. Keeps(live.messages, goal, notes)
        BY <2>1, <2>2, GuardedEnd DEF GoalInv
    <2>4. DOMAIN live.messages = 1..Len(live.messages)
        BY <2>1
    <2> QED BY <2>3, <2>4 DEF Keeps, Holds
<1> QED BY <1>1, <1>2, <1>3, LogHolds, PTL DEF Spec

-----------------------------------------------------------------------------
(* Calls: what their facts and the messages about them come to *)

(* All calls the model asked for *)
Asked(log) == UNION {Requests(log[i].message) : i \in CallFacts(log, "message")}

(* What one fact does to the calls and to the messages *)
LEMMA CallEffect ==
    ASSUME NEW s \in State, NEW x \in Fact
    PROVE  /\ x.type = "accepted" =>
                /\ x.call \in Calls /\ Reduce(s, x).messages = s.messages
                /\ Reduce(s, x).pending = s.pending \cup {x.call}
                /\ Reduce(s, x).results = s.results \ {x.call}
           /\ x.type = "completed" =>
                /\ x.call \in Calls /\ Reduce(s, x).messages = s.messages
                /\ Reduce(s, x).pending = s.pending \ {x.call}
                /\ Reduce(s, x).results = s.results \cup {x.call}
           /\ x.type \notin {"accepted", "completed"} =>
                Reduce(s, x).pending = s.pending /\ Reduce(s, x).results = s.results
           /\ x.type = "message" =>
                x.message \in Message /\ Reduce(s, x).messages = Append(s.messages, x.message)
           /\ x.type = "compacted" =>
                /\ x.replacements \in Seq(Message)
                /\ Reduce(s, x).messages = Replace(s.messages, x.cleared, x.replacements)
           /\ x.type = "snapshot" => Reduce(s, x) = s
<1>1. CASE x.type = "accepted"
    BY <1>1 DEF Fact, State, Reduce
<1>2. CASE x.type = "completed"
    BY <1>2 DEF Fact, State, Reduce
<1>3. CASE x.type = "message"
    BY <1>3 DEF Fact, State, Reduce
<1>4. CASE x.type = "compacted"
    BY <1>4 DEF Fact, State, Reduce
<1>5. CASE x.type = "snapshot"
    BY <1>5 DEF Fact, Reduce
<1>6. x.type \in {"accepted", "completed", "message", "compacted", "snapshot"}
    BY DEF Fact
<1> QED BY <1>1, <1>2, <1>3, <1>4, <1>5, <1>6

(* No facts are about no calls. *)
LEMMA NoFacts ==
    Completed(<<>>) = {} /\ AcceptedOpen(<<>>) = {} /\ Messaged(<<>>) = {} /\ Asked(<<>>) = {}
<1>1. \A type : CallFacts(<<>>, type) = {}
    BY DEF CallFacts
<1> QED BY <1>1 DEF Completed, AcceptedOpen, Messaged, Asked

(* The facts of a type, with one more at the end *)
LEMMA OneMore ==
    ASSUME NEW log \in Seq(Fact), NEW x \in Fact, NEW type
    PROVE  LET more == Append(log, x) IN
           /\ CallFacts(log, type) \subseteq 1..Len(log) /\ Len(log) \in Nat
           /\ \A i \in CallFacts(log, type) : more[i] = log[i]
           /\ more[Len(log) + 1] = x
           /\ x.type = type => CallFacts(more, type) = CallFacts(log, type) \cup {Len(log) + 1}
           /\ x.type # type => CallFacts(more, type) = CallFacts(log, type)
<1> DEFINE more == Append(log, x)
           n == Len(log)
<1>1. /\ n \in Nat /\ DOMAIN more = 1..(n + 1) /\ DOMAIN log = 1..n
      /\ more[n + 1] = x /\ \A i \in 1..n : more[i] = log[i]
    OBVIOUS
<1> HIDE DEF more, n
<1>2. CallFacts(log, type) \subseteq 1..n
    BY <1>1 DEF CallFacts
<1>3. ASSUME x.type = type
      PROVE  CallFacts(more, type) = CallFacts(log, type) \cup {n + 1}
    <2>1. \A i \in 1..(n + 1) : i \in 1..n \/ i = n + 1
        BY <1>1
    <2>2. \A i \in 1..n : i \in 1..(n + 1)
        BY <1>1
    <2>3. n + 1 \in 1..(n + 1)
        BY <1>1
    <2> QED BY <1>1, <1>3, <2>1, <2>2, <2>3 DEF CallFacts
<1>4. ASSUME x.type # type
      PROVE  CallFacts(more, type) = CallFacts(log, type)
    <2>1. \A i \in 1..(n + 1) : i \in 1..n \/ i = n + 1
        BY <1>1
    <2>2. \A i \in 1..n : i \in 1..(n + 1)
        BY <1>1
    <2> QED BY <1>1, <1>4, <2>1, <2>2 DEF CallFacts
<1> QED BY <1>1, <1>2, <1>3, <1>4 DEF more, n

(* What the loader finds in a log with one more fact *)
LEMMA FoundMore ==
    ASSUME NEW log \in Seq(Fact), NEW x \in Fact
    PROVE  LET more == Append(log, x) IN
           /\ x.type # "completed" => Completed(more) = Completed(log)
           /\ x.type = "completed" => Completed(more) = Completed(log) \cup {x.call}
           /\ x.type # "message" => Messaged(more) = Messaged(log) /\ Asked(more) = Asked(log)
           /\ x.type = "message" =>
                /\ Messaged(more) = Messaged(log) \cup Answers(x.message)
                /\ Asked(more) = Asked(log) \cup Requests(x.message)
<1> DEFINE more == Append(log, x)
           n == Len(log)
           At1(type) == CallFacts(log, type)
           At2(type) == CallFacts(more, type)
<1>1. \A type :
        /\ At1(type) \subseteq 1..n
        /\ \A i \in At1(type) : more[i] = log[i]
        /\ more[n + 1] = x
        /\ x.type = type => At2(type) = At1(type) \cup {n + 1}
        /\ x.type # type => At2(type) = At1(type)
    BY OneMore
<1> HIDE DEF more, n
<1>2. CASE x.type = "completed"
    <2>1. At2("message") = At1("message")
        BY <1>1, <1>2
    <2>2. Messaged(more) = Messaged(log) /\ Asked(more) = Asked(log)
        BY <1>1, <2>1 DEF Messaged, Asked
    <2>3. At2("completed") = At1("completed") \cup {n + 1}
        BY <1>1, <1>2
    <2>4. Completed(more) = Completed(log) \cup {x.call}
        BY <1>1, <2>3 DEF Completed
    <2> QED BY <1>2, <2>2, <2>4 DEF more
<1>3. CASE x.type = "message"
    <2>1. Completed(more) = Completed(log)
        BY <1>1, <1>3 DEF Completed
    <2>2. Messaged(more) = Messaged(log) \cup Answers(x.message)
        BY <1>1, <1>3 DEF Messaged
    <2>3. Asked(more) = Asked(log) \cup Requests(x.message)
        BY <1>1, <1>3 DEF Asked
    <2> QED BY <1>3, <2>1, <2>2, <2>3 DEF more
<1>4. CASE x.type # "completed" /\ x.type # "message"
    BY <1>1, <1>4 DEF Completed, Messaged, Asked, more
<1> QED BY <1>2, <1>3, <1>4

(* The calls that are open after one more fact *)
LEMMA OpenMore ==
    ASSUME NEW log \in Seq(Fact), NEW x \in Fact
    PROVE  LET more == Append(log, x) IN
           /\ x.type = "accepted" => AcceptedOpen(more) = AcceptedOpen(log) \cup {x.call}
           /\ x.type = "completed" => AcceptedOpen(more) = AcceptedOpen(log) \ {x.call}
           /\ x.type \notin {"accepted", "completed"} => AcceptedOpen(more) = AcceptedOpen(log)
<1> DEFINE more == Append(log, x)
           n == Len(log)
           A1 == CallFacts(log, "accepted")
           A2 == CallFacts(more, "accepted")
           C1 == CallFacts(log, "completed")
           C2 == CallFacts(more, "completed")
<1>1. /\ n \in Nat /\ A1 \subseteq 1..n /\ C1 \subseteq 1..n
      /\ \A i \in A1 \cup C1 : more[i] = log[i]
      /\ more[n + 1] = x
      /\ x.type = "accepted" => A2 = A1 \cup {n + 1}
      /\ x.type # "accepted" => A2 = A1
      /\ x.type = "completed" => C2 = C1 \cup {n + 1}
      /\ x.type # "completed" => C2 = C1
    <2>1. \A type :
            /\ CallFacts(log, type) \subseteq 1..n /\ n \in Nat
            /\ \A i \in CallFacts(log, type) : more[i] = log[i]
            /\ more[n + 1] = x
            /\ x.type = type => CallFacts(more, type) = CallFacts(log, type) \cup {n + 1}
            /\ x.type # type => CallFacts(more, type) = CallFacts(log, type)
        BY OneMore
    <2> HIDE DEF more, n
    <2> QED BY <2>1
<1>2. /\ AcceptedOpen(log) = {c \in Calls : \E i \in A1 : log[i].call = c
                                /\ \A j \in C1 : j > i => log[j].call # c}
      /\ AcceptedOpen(more) = {c \in Calls : \E i \in A2 : more[i].call = c
                                /\ \A j \in C2 : j > i => more[j].call # c}
    BY DEF AcceptedOpen
<1>3. x.type \in {"accepted", "completed"} => x.call \in Calls
    BY DEF Fact
<1> HIDE DEF more, n, A1, A2, C1, C2
<1>4. CASE x.type = "accepted"
    <2>1. A2 = A1 \cup {n + 1} /\ C2 = C1
        BY <1>1, <1>4
    <2>2. \A j \in C1 : ~ (j > n + 1)
        BY <1>1
    <2>3. x.call \in AcceptedOpen(more)
        BY <1>1, <1>2, <1>3, <1>4, <2>1, <2>2
    <2>4. AcceptedOpen(log) \subseteq AcceptedOpen(more)
      <3> SUFFICES ASSUME NEW c \in AcceptedOpen(log)
                   PROVE  c \in AcceptedOpen(more)
          OBVIOUS
      <3>1. PICK i \in A1 : log[i].call = c /\ \A j \in C1 : j > i => log[j].call # c
          BY <1>2
      <3>2. i \in A2 /\ more[i].call = c
          BY <1>1, <2>1, <3>1
      <3>3. \A j \in C2 : j > i => more[j].call # c
          BY <1>1, <2>1, <3>1
      <3> QED BY <1>2, <3>2, <3>3
    <2>5. ASSUME NEW c \in AcceptedOpen(more), c # x.call
          PROVE  c \in AcceptedOpen(log)
        BY <1>1, <1>2, <2>1, <2>5
    <2>6. AcceptedOpen(more) = AcceptedOpen(log) \cup {x.call}
        BY <2>3, <2>4, <2>5
    <2> QED BY <1>4, <2>6 DEF more
<1>5. CASE x.type = "completed"
    <2>1. A2 = A1 /\ C2 = C1 \cup {n + 1}
        BY <1>1, <1>5
    <2>2. \A i \in A1 : n + 1 > i
        BY <1>1
    <2>3. x.call \notin AcceptedOpen(more)
        BY <1>1, <1>2, <2>1, <2>2
    <2>4. AcceptedOpen(more) \subseteq AcceptedOpen(log)
        BY <1>1, <1>2, <2>1
    <2>5. ASSUME NEW c \in AcceptedOpen(log), c # x.call
          PROVE  c \in AcceptedOpen(more)
        BY <1>1, <1>2, <2>1, <2>5
    <2>6. AcceptedOpen(more) = AcceptedOpen(log) \ {x.call}
        BY <2>3, <2>4, <2>5
    <2> QED BY <1>5, <2>6 DEF more
<1>6. CASE x.type \notin {"accepted", "completed"}
    <2>1. A2 = A1 /\ C2 = C1
        BY <1>1, <1>6
    <2>2. AcceptedOpen(more) = AcceptedOpen(log)
        BY <1>1, <1>2, <2>1
    <2> QED BY <1>6, <2>2 DEF more
<1> QED BY <1>4, <1>5, <1>6

CallsAgree(log, s) ==
    /\ s.pending = AcceptedOpen(log) /\ s.results \subseteq Completed(log)
    /\ s.pending \cap s.results = {}

(* The calls that are open for the loader are the pending ones of the       *)
(* reducer, and every result is of a completed call that is not pending.    *)
LEMMA OpenState ==
    ASSUME NEW log \in Seq(Fact)
    PROVE  /\ ReduceAll(Empty, log).pending = AcceptedOpen(log)
           /\ ReduceAll(Empty, log).results \subseteq Completed(log)
           /\ ReduceAll(Empty, log).pending \cap ReduceAll(Empty, log).results = {}
<1> DEFINE P(i) == SubSeq(log, 1, i)
           n == Len(log)
           Agrees(l) == CallsAgree(l, ReduceAll(Empty, l))
           S == {i \in Nat : Agrees(P(i))}
<1>0. n \in Nat
    OBVIOUS
<1>1. 0 \in S
    <2>1. P(0) = <<>> /\ <<>> \in Seq(Fact)
        OBVIOUS
    <2>2. ReduceAll(Empty, <<>>) = Empty
        BY <2>1, EmptyType, ReduceSteps
    <2>3. Agrees(<<>>)
      <3>1. Empty.pending = {} /\ Empty.results = {}
          BY DEF Empty
      <3> QED BY <2>2, <3>1, NoFacts DEF CallsAgree
    <2> HIDE DEF Agrees
    <2> QED BY <2>1, <2>3
<1>2. ASSUME NEW i \in Nat, i < n, i \in S
      PROVE  i + 1 \in S
    <2> DEFINE l == P(i)
               x == log[i + 1]
               s == ReduceAll(Empty, l)
    <2>1. l \in Seq(Fact) /\ x \in Fact /\ P(i + 1) = Append(l, x)
        BY <1>2, GrowByOne
    <2>2. Agrees(l)
        BY <1>2
    <2> HIDE DEF l, x
    <2>3. s \in State /\ ReduceAll(Empty, Append(l, x)) = Reduce(s, x)
        BY <2>1, EmptyType, ReduceSteps
    <2>4. s.pending = AcceptedOpen(l) /\ s.results \subseteq Completed(l) /\ s.pending \cap s.results = {}
        BY <2>2 DEF CallsAgree
    <2> DEFINE r == Reduce(s, x)
    <2> HIDE DEF s, Agrees
    <2>5. /\ r.pending = AcceptedOpen(Append(l, x)) /\ r.results \subseteq Completed(Append(l, x))
          /\ r.pending \cap r.results = {}
        <3>1. CASE x.type = "accepted"
            <4>1. r.pending = s.pending \cup {x.call} /\ r.results = s.results \ {x.call}
                BY <2>1, <2>3, <3>1, CallEffect
            <4>2. AcceptedOpen(Append(l, x)) = AcceptedOpen(l) \cup {x.call}
                BY <2>1, <3>1, OpenMore
            <4>3. Completed(Append(l, x)) = Completed(l)
                BY <2>1, <3>1, FoundMore
            <4> HIDE DEF r
            <4> QED BY <2>4, <4>1, <4>2, <4>3
        <3>2. CASE x.type = "completed"
            <4>1. r.pending = s.pending \ {x.call} /\ r.results = s.results \cup {x.call}
                BY <2>1, <2>3, <3>2, CallEffect
            <4>2. AcceptedOpen(Append(l, x)) = AcceptedOpen(l) \ {x.call}
                BY <2>1, <3>2, OpenMore
            <4>3. Completed(Append(l, x)) = Completed(l) \cup {x.call}
                BY <2>1, <3>2, FoundMore
            <4> HIDE DEF r
            <4> QED BY <2>4, <4>1, <4>2, <4>3
        <3>3. CASE x.type \notin {"accepted", "completed"}
            <4>1. r.pending = s.pending /\ r.results = s.results
                BY <2>1, <2>3, <3>3, CallEffect
            <4>2. AcceptedOpen(Append(l, x)) = AcceptedOpen(l)
                BY <2>1, <3>3, OpenMore
            <4>3. Completed(Append(l, x)) = Completed(l)
                BY <2>1, <3>3, FoundMore
            <4> HIDE DEF r
            <4> QED BY <2>4, <4>1, <4>2, <4>3
        <3> QED BY <3>1, <3>2, <3>3
    <2>6. Agrees(Append(l, x))
      <3>1. CallsAgree(Append(l, x), r)
          BY <2>5 DEF CallsAgree
      <3>2. ReduceAll(Empty, Append(l, x)) = r
          BY <2>3
      <3> HIDE DEF r
      <3> QED BY <3>1, <3>2 DEF Agrees
    <2>7. CallsAgree(P(i + 1), ReduceAll(Empty, P(i + 1)))
      <3> DEFINE q == P(i + 1)
      <3>1. q = Append(l, x)
          BY <2>1
      <3> HIDE DEF q
      <3>2. CallsAgree(q, ReduceAll(Empty, q))
          BY <2>6, <3>1 DEF Agrees
      <3> QED BY <3>2 DEF q
    <2> QED BY <2>7 DEF Agrees
<1> HIDE DEF S
<1>3. \A i \in Nat : i < n /\ i \in S => i + 1 \in S
    BY <1>2
<1>4. \A i \in 0..n : i \in S
    BY <1>0, <1>1, <1>3, Climbs
<1>5. Agrees(P(n))
    <2> HIDE DEF Agrees
    <2> QED BY <1>0, <1>4 DEF S
<1>6. P(n) = log
    OBVIOUS
<1> QED BY <1>5, <1>6 DEF CallsAgree

-----------------------------------------------------------------------------
(* Logs without a refused fact, and logs whose calls are answered once *)

Lawful(log) == \A i \in 1..Len(log) : ~ Refused(At(log, i - 1), log[i])

(* Answers are of completed calls, completed and pending calls were asked   *)
(* for, and what is unanswered is still to be seen.                         *)
Matched(log, s) ==
    /\ Messaged(log) \subseteq Completed(log)
    /\ Completed(log) \subseteq Asked(log)
    /\ s.pending \subseteq Asked(log) \ Completed(log)
    /\ Asked(log) \ Messaged(log) \subseteq Requested(s.messages)
    /\ Requested(s.messages) \subseteq Asked(log)

(* No call is requested by two messages, none is answered by two. *)
Once(log) ==
    \A i, j \in CallFacts(log, "message") : i # j =>
        /\ Requests(log[i].message) \cap Requests(log[j].message) = {}
        /\ Answers(log[i].message) \cap Answers(log[j].message) = {}

Paired(log) ==
    /\ \A i \in 0..Len(log) : Matched(SubSeq(log, 1, i), At(log, i))
    /\ Once(log)

(* A fact that is not refused *)
LEMMA LawfulGrows ==
    ASSUME NEW log \in Seq(Fact), NEW x \in Fact, Lawful(log),
           ~ Refused(ReduceAll(Empty, log), x)
    PROVE  Lawful(Append(log, x))
<1> DEFINE more == Append(log, x)
           n == Len(log)
<1>1. /\ n \in Nat /\ Len(more) = n + 1 /\ more[n + 1] = x
      /\ \A i \in 1..n : more[i] = log[i]
      /\ \A i \in 0..n : At(more, i) = At(log, i)
      /\ At(log, n) = ReduceAll(Empty, log)
    BY AtGrows, AtSteps
<1> HIDE DEF more, n
<1>2. ASSUME NEW i \in 1..(n + 1)
      PROVE  ~ Refused(At(more, i - 1), more[i])
    <2>1. CASE i = n + 1
        <3>1. At(more, i - 1) = ReduceAll(Empty, log) /\ more[i] = x
            BY <1>1, <2>1
        <3> QED BY <3>1
    <2>2. CASE i # n + 1
        <3>1. i \in 1..n /\ i - 1 \in 0..n
            BY <1>1, <2>2
        <3>2. At(more, i - 1) = At(log, i - 1) /\ more[i] = log[i]
            BY <1>1, <3>1
        <3> QED BY <3>1, <3>2 DEF Lawful, n
    <2> QED BY <2>1, <2>2
<1>3. Lawful(more)
    BY <1>1, <1>2 DEF Lawful
<1> QED BY <1>3 DEF more

(* The first facts of a log *)
LEMMA LawfulPrefix ==
    ASSUME NEW log \in Seq(Fact), NEW n \in 0..Len(log), Lawful(log)
    PROVE  Lawful(SubSeq(log, 1, n))
<1> DEFINE p == SubSeq(log, 1, n)
<1>1. /\ Len(p) = n /\ n \in Nat /\ n <= Len(log) /\ Len(log) \in Nat
      /\ \A i \in 1..n : p[i] = log[i]
      /\ \A i \in 0..n : At(p, i) = At(log, i)
    BY AtPrefix
<1> HIDE DEF p
<1>2. ASSUME NEW i \in 1..n
      PROVE  ~ Refused(At(p, i - 1), p[i])
    <2>1. i \in 1..Len(log) /\ i - 1 \in 0..n
        BY <1>1
    <2>2. At(p, i - 1) = At(log, i - 1) /\ p[i] = log[i]
        BY <1>1, <2>1
    <2> QED BY <2>1, <2>2 DEF Lawful
<1>3. Lawful(p)
    BY <1>1, <1>2 DEF Lawful
<1> QED BY <1>3 DEF p

(* One more fact whose message, if it has one, is about new calls *)
LEMMA PairedGrows ==
    ASSUME NEW log \in Seq(Fact), NEW x \in Fact, Paired(log),
           Matched(Append(log, x), Reduce(ReduceAll(Empty, log), x)),
           x.type = "message" =>
                /\ Requests(x.message) \cap Asked(log) = {}
                /\ Answers(x.message) \cap Messaged(log) = {}
    PROVE  Paired(Append(log, x))
<1> DEFINE more == Append(log, x)
           n == Len(log)
           M == CallFacts(log, "message")
           N == CallFacts(more, "message")
<1>1. /\ n \in Nat /\ Len(more) = n + 1
      /\ \A i \in 0..n : At(more, i) = At(log, i)
      /\ At(more, n + 1) = Reduce(ReduceAll(Empty, log), x)
    BY AtGrows
<1>2. /\ \A i \in 0..n : SubSeq(more, 1, i) = SubSeq(log, 1, i)
      /\ SubSeq(more, 1, n + 1) = more
    OBVIOUS
<1>3. /\ M \subseteq 1..n /\ \A i \in M : more[i] = log[i]
      /\ more[n + 1] = x
      /\ x.type = "message" => N = M \cup {n + 1}
      /\ x.type # "message" => N = M
    <2>1. \A type :
            /\ CallFacts(log, type) \subseteq 1..n
            /\ \A i \in CallFacts(log, type) : more[i] = log[i]
            /\ more[n + 1] = x
            /\ x.type = type => CallFacts(more, type) = CallFacts(log, type) \cup {n + 1}
            /\ x.type # type => CallFacts(more, type) = CallFacts(log, type)
        BY OneMore
    <2> HIDE DEF more, n
    <2> QED BY <2>1
<1>4. Matched(more, Reduce(ReduceAll(Empty, log), x))
    OBVIOUS
<1> HIDE DEF more, n, M, N
<1>5. ASSUME NEW i \in 0..(n + 1)
      PROVE  Matched(SubSeq(more, 1, i), At(more, i))
    <2>1. CASE i = n + 1
        BY <1>1, <1>2, <1>4, <2>1
    <2>2. CASE i # n + 1
        <3>1. i \in 0..n
            BY <1>1, <2>2
        <3>2. Matched(SubSeq(log, 1, i), At(log, i))
            BY <3>1 DEF Paired, n
        <3> QED BY <1>1, <1>2, <3>1, <3>2
    <2> QED BY <2>1, <2>2
<1> DEFINE Apart(i, j) == /\ Requests(more[i].message) \cap Requests(more[j].message) = {}
                          /\ Answers(more[i].message) \cap Answers(more[j].message) = {}
<1>6. ASSUME NEW i \in M, NEW j \in M, i # j
      PROVE  Apart(i, j)
    <2>1. /\ Requests(log[i].message) \cap Requests(log[j].message) = {}
          /\ Answers(log[i].message) \cap Answers(log[j].message) = {}
        BY <1>6 DEF Paired, Once, M
    <2>2. more[i] = log[i] /\ more[j] = log[j]
        BY <1>3
    <2> QED BY <2>1, <2>2
<1>7. ASSUME NEW i \in M, x.type = "message"
      PROVE  Apart(i, n + 1) /\ Apart(n + 1, i)
    <2>1. Requests(log[i].message) \subseteq Asked(log) /\ Answers(log[i].message) \subseteq Messaged(log)
        BY DEF Asked, Messaged, M
    <2>2. more[i] = log[i] /\ more[n + 1] = x
        BY <1>3
    <2> QED BY <1>7, <2>1, <2>2
<1>8. ASSUME NEW i \in N, NEW j \in N, i # j
      PROVE  Apart(i, j)
    <2> HIDE DEF Apart
    <2>1. CASE i \in M /\ j \in M
        BY <1>6, <1>8, <2>1
    <2>2. CASE x.type = "message" /\ i \in M /\ j = n + 1
        BY <1>7, <2>2
    <2>3. CASE x.type = "message" /\ j \in M /\ i = n + 1
        BY <1>7, <2>3
    <2> QED BY <1>3, <1>8, <2>1, <2>2, <2>3
<1>9. Once(more)
    BY <1>8 DEF Once, N
<1>10. Paired(more)
    BY <1>1, <1>5, <1>9 DEF Paired
<1> QED BY <1>10 DEF more

(* The first facts of a paired log *)
LEMMA PairedPrefix ==
    ASSUME NEW log \in Seq(Fact), NEW n \in 0..Len(log), Paired(log)
    PROVE  Paired(SubSeq(log, 1, n))
<1> DEFINE p == SubSeq(log, 1, n)
<1>1. /\ Len(p) = n /\ n \in Nat /\ n <= Len(log) /\ Len(log) \in Nat
      /\ \A i \in 1..n : p[i] = log[i]
      /\ \A i \in 0..n : At(p, i) = At(log, i)
    BY AtPrefix
<1>2. \A i \in 0..n : SubSeq(p, 1, i) = SubSeq(log, 1, i)
    OBVIOUS
<1>3. DOMAIN p = 1..n /\ DOMAIN log = 1..Len(log)
    OBVIOUS
<1> HIDE DEF p
<1>4. ASSUME NEW i \in 0..n
      PROVE  Matched(SubSeq(p, 1, i), At(p, i))
    <2>1. i \in 0..Len(log)
        BY <1>1
    <2>2. Matched(SubSeq(log, 1, i), At(log, i))
        BY <2>1 DEF Paired
    <2> QED BY <1>1, <1>2, <2>2
<1>5. \A i \in CallFacts(p, "message") : i \in CallFacts(log, "message") /\ p[i] = log[i]
    BY <1>1, <1>3 DEF CallFacts
<1>6. Once(p)
    BY <1>5 DEF Paired, Once
<1>7. Paired(p)
    BY <1>1, <1>4, <1>6 DEF Paired
<1> QED BY <1>7 DEF p

(* The whole of a paired log *)
LEMMA PairedEnd ==
    ASSUME NEW log \in Seq(Fact), Paired(log)
    PROVE  Matched(log, ReduceAll(Empty, log)) /\ Once(log)
<1>1. Len(log) \in 0..Len(log) /\ SubSeq(log, 1, Len(log)) = log
    OBVIOUS
<1>2. At(log, Len(log)) = ReduceAll(Empty, log)
    BY AtSteps
<1> QED BY <1>1, <1>2 DEF Paired

(* What messages ask for *)
LEMMA RequestedMore ==
    ASSUME NEW ms \in Seq(Message), NEW m \in Message
    PROVE  Requested(Append(ms, m)) = Requested(ms) \cup Requests(m)
<1> DEFINE more == Append(ms, m)
           n == Len(ms)
<1>1. /\ n \in Nat /\ DOMAIN ms = 1..n /\ DOMAIN more = 1..(n + 1)
      /\ more[n + 1] = m /\ \A i \in 1..n : more[i] = ms[i]
    OBVIOUS
<1> HIDE DEF more, n
<1>2. \A i \in 1..(n + 1) : i = n + 1 \/ i \in 1..n
    BY <1>1
<1>3. \A i \in 1..n : i \in 1..(n + 1)
    BY <1>1
<1>4. n + 1 \in 1..(n + 1)
    BY <1>1
<1>5. Requested(more) = Requested(ms) \cup Requests(m)
    BY <1>1, <1>2, <1>3, <1>4 DEF Requested
<1> QED BY <1>5 DEF more
(* The fact of the summary is a fact. *)
LEMMA AutoTyped ==
    ASSUME NEW b \in Seq(Message), NEW id \in Nat
    PROVE  AutoFact(b, id) \in Fact
<1> DEFINE cleared == {b[i].id : i \in AutoCleared(b)}
           m == [id |-> id, kind |-> "summary", calls |-> {}, size |-> 1]
<1>1. AutoCleared(b) \subseteq 1..Len(b)
    <2>1. TailBoundary(b) \in 1..(Len(b) + 1) /\ Len(b) \in Nat
        BY BoundaryInside
    <2> DEFINE B == TailBoundary(b)
    <2> HIDE DEF B
    <2>2. \A i \in 1..B - 1 : i \in 1..Len(b)
        BY <2>1 DEF B
    <2> QED BY <2>2 DEF AutoCleared, B
<1>2. cleared \subseteq Nat
    BY <1>1, MessageAt
<1>3. m \in Message
    BY DEF Message, Kinds
<1>4. <<m>> \in Seq(Message)
    <2> HIDE DEF m
    <2> QED BY <1>3
<1>5. AutoFact(b, id) = [type |-> "compacted", cleared |-> cleared, replacements |-> <<m>>]
    BY DEF AutoFact
<1> HIDE DEF cleared, m
<1> QED BY <1>2, <1>4, <1>5 DEF Fact

(* A compaction asks for nothing that was not asked for before. *)
LEMMA RequestedLess ==
    ASSUME NEW ms \in Seq(Message), NEW cleared, NEW c \in Seq(Message),
           \A k \in 1..Len(c) : c[k].kind # "assistant"
    PROVE  Requested(Replace(ms, cleared, c)) \subseteq Requested(ms)
<1> DEFINE r == Replace(ms, cleared, c)
           at == 1..Len(ms) \ ClearedAt(ms, cleared)
<1>1. PICK o : Origins(r, ms, at, c, o)
    BY ReplaceOrigins
<1>2. r \in Seq(Message)
    BY ReplaceOrigins
<1> HIDE DEF r
<1>3. DOMAIN r = 1..Len(r) /\ DOMAIN ms = 1..Len(ms)
    BY <1>2, MessageAt
<1>4. ASSUME NEW k \in 1..Len(r)
      PROVE  Requests(r[k]) \subseteq Requested(ms)
    <2>1. CASE o[k] \in at /\ r[k] = ms[o[k]]
        BY <1>3, <2>1 DEF Requested
    <2>2. CASE -o[k] \in 1..Len(c) /\ r[k] = c[-o[k]]
        BY <2>2 DEF Requests
    <2> HIDE DEF at
    <2> QED BY <1>1, <2>1, <2>2 DEF Origins
<1>5. Requested(r) \subseteq Requested(ms)
    BY <1>3, <1>4 DEF Requested
<1> QED BY <1>5 DEF r

(* Compactions by messages that ask for nothing *)
Quiet == {x \in Fact : /\ x.type = "compacted"
                       /\ \A k \in 1..Len(x.replacements) : x.replacements[k].kind # "assistant"}

(* A compaction is about no call. *)
LEMMA QuietGrows ==
    ASSUME NEW log \in Seq(Fact), NEW x \in Quiet, Lawful(log)
    PROVE  LET more == Append(log, x) IN
           /\ more \in Seq(Fact) /\ Lawful(more)
           /\ ReduceAll(Empty, more).pending = ReduceAll(Empty, log).pending
           /\ Asked(more) = Asked(log) /\ Messaged(more) = Messaged(log)
           /\ Paired(log) /\ Asked(log) \subseteq Messaged(log) => Paired(more)
<1> DEFINE more == Append(log, x)
           s == ReduceAll(Empty, log)
           t == Reduce(s, x)
<1>1. x \in Fact /\ x.type = "compacted" /\ \A k \in 1..Len(x.replacements) : x.replacements[k].kind # "assistant"
    BY DEF Quiet
<1>2. more \in Seq(Fact)
    BY <1>1
<1>3. s \in State /\ ReduceAll(Empty, more) = t
    BY <1>1, EmptyType, ReduceSteps
<1> HIDE DEF s
<1>4. /\ t.pending = s.pending
      /\ x.replacements \in Seq(Message)
      /\ t.messages = Replace(s.messages, x.cleared, x.replacements)
    BY <1>1, <1>3, CallEffect
<1>5. Lawful(more)
    <2>1. ~ Refused(s, x)
        BY <1>1 DEF Refused
    <2> QED BY <1>1, <2>1, LawfulGrows DEF s
<1>6. Completed(more) = Completed(log) /\ Asked(more) = Asked(log) /\ Messaged(more) = Messaged(log)
    BY <1>1, FoundMore
<1> HIDE DEF more, t
<1>7. ASSUME Paired(log), Asked(log) \subseteq Messaged(log)
      PROVE  Paired(more)
    <2>1. Matched(log, s)
        BY <1>7, PairedEnd DEF s
    <2>2. Requested(t.messages) \subseteq Requested(s.messages)
        <3>1. s.messages \in Seq(Message)
            BY <1>3 DEF State
        <3> QED BY <1>1, <1>4, <3>1, RequestedLess
    <2>3. Matched(more, t)
        BY <1>4, <1>6, <1>7, <2>1, <2>2 DEF Matched
    <2> QED BY <1>1, <1>7, <2>3, PairedGrows DEF more, s, t
<1> QED BY <1>2, <1>3, <1>4, <1>5, <1>6, <1>7 DEF more, s

(* Neither are several. *)
LEMMA QuietFacts ==
    ASSUME NEW log \in Seq(Fact), NEW b \in Seq(Quiet), Lawful(log)
    PROVE  LET more == log \o b IN
           /\ Lawful(more)
           /\ ReduceAll(Empty, more).pending = ReduceAll(Empty, log).pending
           /\ Asked(more) = Asked(log) /\ Messaged(more) = Messaged(log)
           /\ Paired(log) /\ Asked(log) \subseteq Messaged(log) => Paired(more)
<1> DEFINE P(i) == SubSeq(b, 1, i)
           n == Len(b)
           Good(l) == /\ l \in Seq(Fact) /\ Lawful(l)
                      /\ ReduceAll(Empty, l).pending = ReduceAll(Empty, log).pending
                      /\ Asked(l) = Asked(log) /\ Messaged(l) = Messaged(log)
                      /\ Paired(log) /\ Asked(log) \subseteq Messaged(log) => Paired(l)
           S == {i \in Nat : Good(log \o P(i))}
<1>0. n \in Nat
    OBVIOUS
<1>1. 0 \in S
    <2>1. P(0) = <<>> /\ log \o <<>> = log
        OBVIOUS
    <2> QED BY <2>1
<1>2. ASSUME NEW i \in Nat, i < n, i \in S
      PROVE  i + 1 \in S
    <2>1. P(i) \in Seq(Quiet) /\ b[i + 1] \in Quiet /\ P(i + 1) = Append(P(i), b[i + 1])
        BY <1>2, GrowByOne
    <2> DEFINE l == log \o P(i)
               x == b[i + 1]
    <2>2. Good(l)
        BY <1>2
    <2>3. log \o P(i + 1) = Append(l, x)
        <3> HIDE DEF P
        <3>1. log \o Append(P(i), b[i + 1]) = Append(log \o P(i), b[i + 1])
            BY <2>1
        <3> QED BY <2>1, <3>1
    <2> HIDE DEF l, x, P
    <2>4. Good(Append(l, x))
      <3>1. l \in Seq(Fact) /\ Lawful(l) /\ x \in Quiet
          BY <2>1, <2>2 DEF x
      <3> DEFINE m == Append(l, x)
      <3>2. /\ m \in Seq(Fact) /\ Lawful(m)
            /\ ReduceAll(Empty, m).pending = ReduceAll(Empty, l).pending
            /\ Asked(m) = Asked(l) /\ Messaged(m) = Messaged(l)
            /\ Paired(l) /\ Asked(l) \subseteq Messaged(l) => Paired(m)
          BY <3>1, QuietGrows
      <3> HIDE DEF m
      <3>3. Good(m)
          BY <2>2, <3>2
      <3> QED BY <3>3 DEF m
    <2>5. Good(log \o P(i + 1))
        BY <2>3, <2>4
    <2> HIDE DEF Good
    <2> QED BY <2>5
<1> HIDE DEF S
<1>3. \A i \in Nat : i < n /\ i \in S => i + 1 \in S
    BY <1>2
<1>4. \A i \in 0..n : i \in S
    BY <1>0, <1>1, <1>3, Climbs
<1>5. Good(log \o P(n))
    <2> HIDE DEF Good
    <2> QED BY <1>0, <1>4 DEF S
<1>6. P(n) = b
    OBVIOUS
<1> HIDE DEF P
<1> QED BY <1>5, <1>6

(* What prepare appends are such compactions. *)
LEMMA PreparedQuiet ==
    ASSUME NEW log, nextId \in Nat, Sound(log, nextId), NEW summarises \in BOOLEAN,
           summarises => AutoCleared(MicroMessages(ReduceAll(Empty, log).messages)) # {}
    PROVE  PreparedFacts(ReduceAll(Empty, log).messages, summarises) \in Seq(Quiet)
<1> DEFINE ms == ReduceAll(Empty, log).messages
           A == MicroCleared(ms)
           id == nextId + Cardinality(A)
           b == MicroMessages(ms)
           auto == AutoFact(b, id)
<1>1. ms \in Seq(Message) /\ Numbered(ms, nextId)
    BY SoundState
<1>2. summarises => AutoCleared(b) # {}
    OBVIOUS
<1> HIDE DEF ms
<1>3. Cardinality(A) \in Nat /\ b \in Seq(Message)
    BY <1>1, MicroBase
<1>4. MicroFacts(ms) \in Seq(Quiet)
    <2>1. CASE A = {}
        <3>1. MicroFacts(ms) = <<>>
            BY <2>1 DEF MicroFacts
        <3> QED BY <3>1
    <2>2. CASE A # {}
        <3>1. PICK x \in Fact :
                /\ MicroFacts(ms) = <<x>>
                /\ x.type = "compacted"
                /\ \A k \in 1..Len(x.replacements) : x.replacements[k].kind = "tool"
            BY <1>1, <2>2, MicroFits
        <3>2. x \in Quiet
            BY <3>1 DEF Quiet
        <3> QED BY <3>1, <3>2
    <2> QED BY <2>1, <2>2
<1>5. ASSUME summarises
      PROVE  auto \in Quiet
    <2>1. /\ auto.type = "compacted"
          /\ auto.replacements = <<[id |-> id, kind |-> "summary", calls |-> {}, size |-> 1]>>
        BY DEF AutoFact
    <2>2. \A k \in 1..Len(auto.replacements) : auto.replacements[k].kind = "summary"
        BY <2>1
    <2>3. auto \in Fact
        BY <1>1, <1>2, <1>3, <1>5, AutoTyped
    <2> QED BY <2>1, <2>2, <2>3 DEF Quiet
<1>6. CASE ~ summarises
    BY <1>4, <1>6 DEF PreparedFacts, ms
<1>7. CASE summarises
    <2>1. PreparedFacts(ms, summarises) = MicroFacts(ms) \o <<auto>>
        BY <1>7 DEF PreparedFacts
    <2> HIDE DEF auto
    <2>2. MicroFacts(ms) \o <<auto>> \in Seq(Quiet)
        BY <1>4, <1>5, <1>7
    <2> QED BY <2>1, <2>2 DEF ms
<1> QED BY <1>6, <1>7
(* A call fact: an acceptance of a call that is neither pending nor done,   *)
(* or a result of one that has none.                                        *)
LEMMA CallGrows ==
    ASSUME NEW log \in Seq(Fact), NEW x \in CallFact, Lawful(log),
           LET s == ReduceAll(Empty, log) IN
           /\ x.type = "accepted" => x.call \notin s.pending
           /\ x.type = "completed" => x.call \notin s.results
    PROVE  LET more == Append(log, x)
               s == ReduceAll(Empty, log)
               t == ReduceAll(Empty, more) IN
           /\ more \in Seq(Fact) /\ Lawful(more) /\ x \in Fact
           /\ t = Reduce(s, x) /\ t.messages = s.messages
           /\ Asked(more) = Asked(log) /\ Messaged(more) = Messaged(log)
           /\ x.type = "accepted" =>
                /\ t.pending = s.pending \cup {x.call} /\ t.results = s.results \ {x.call}
                /\ Completed(more) = Completed(log)
           /\ x.type = "completed" =>
                /\ t.pending = s.pending \ {x.call} /\ t.results = s.results \cup {x.call}
                /\ Completed(more) = Completed(log) \cup {x.call}
           /\ /\ Paired(log) /\ x.call \in Asked(log)
              /\ x.type = "accepted" => x.call \notin Completed(log)
              => Paired(more)
<1> DEFINE more == Append(log, x)
           s == ReduceAll(Empty, log)
           t == ReduceAll(Empty, more)
<1>1. x \in Fact /\ x.type \in {"accepted", "completed"}
    BY DEF CallFact, Fact
<1>2. more \in Seq(Fact) /\ s \in State /\ t = Reduce(s, x)
    BY <1>1, EmptyType, ReduceSteps
<1>3. Lawful(more)
    <2>1. ~ Refused(s, x)
        BY <1>1 DEF Refused
    <2> QED BY <1>1, <2>1, LawfulGrows
<1>4. ~ (x.type = "accepted" /\ x.call \in s.pending) /\ ~ (x.type = "completed" /\ x.call \in s.results)
    OBVIOUS
<1> HIDE DEF s, t
<1>5. /\ Asked(more) = Asked(log) /\ Messaged(more) = Messaged(log)
      /\ x.type = "accepted" => Completed(more) = Completed(log)
      /\ x.type = "completed" => Completed(more) = Completed(log) \cup {x.call}
    BY <1>1, FoundMore
<1> HIDE DEF more
<1>6. /\ t.messages = s.messages
      /\ x.type = "accepted" =>
           t.pending = s.pending \cup {x.call} /\ t.results = s.results \ {x.call}
      /\ x.type = "completed" =>
           t.pending = s.pending \ {x.call} /\ t.results = s.results \cup {x.call}
    BY <1>1, <1>2, CallEffect
<1>7. ASSUME Paired(log), x.call \in Asked(log), x.type = "accepted" => x.call \notin Completed(log)
      PROVE  Paired(more)
    <2>1. Matched(log, s)
        BY <1>7, PairedEnd DEF s
    <2>2. Matched(more, t)
        <3>1. CASE x.type = "accepted"
            <4>1. Completed(more) = Completed(log) /\ t.pending = s.pending \cup {x.call}
                BY <1>5, <1>6, <3>1
            <4> QED BY <1>5, <1>6, <1>7, <2>1, <3>1, <4>1 DEF Matched
        <3>2. CASE x.type = "completed"
            <4>1. Completed(more) = Completed(log) \cup {x.call} /\ t.pending = s.pending \ {x.call}
                BY <1>5, <1>6, <3>2
            <4> QED BY <1>5, <1>6, <1>7, <2>1, <3>2, <4>1 DEF Matched
        <3> QED BY <1>1, <3>1, <3>2
    <2>3. Matched(Append(log, x), Reduce(ReduceAll(Empty, log), x))
        BY <1>2, <2>2 DEF more, s
    <2> QED BY <1>1, <1>7, <2>3, PairedGrows DEF more
<1> QED BY <1>1, <1>2, <1>3, <1>5, <1>6, <1>7 DEF more, s, t

(* The facts resumeState adds for one call that is open *)
LEMMA InterruptEnds ==
    ASSUME NEW log \in Seq(Fact), Lawful(log), NEW s, NEW c \in Calls,
           c \notin ReduceAll(Empty, log).results,
           c \in s.pending \cup s.results <=> c \in ReduceAll(Empty, log).pending
    PROVE  LET more == log \o Interrupt(s, c)
               t == ReduceAll(Empty, log)
               u == ReduceAll(Empty, more) IN
           /\ more \in Seq(Fact) /\ Lawful(more)
           /\ u.pending = t.pending \ {c} /\ u.results = t.results \cup {c}
           /\ Completed(more) = Completed(log) \cup {c}
           /\ Asked(more) = Asked(log) /\ Messaged(more) = Messaged(log)
           /\ Paired(log) /\ c \in Asked(log) \ Completed(log) => Paired(more)
<1> DEFINE t == ReduceAll(Empty, log)
           x == [type |-> "accepted", call |-> c]
           y == [type |-> "completed", call |-> c]
           Ends(l, m) ==
                LET u == ReduceAll(Empty, l)
                    v == ReduceAll(Empty, m) IN
                /\ m \in Seq(Fact) /\ Lawful(m)
                /\ v.pending = u.pending \ {c} /\ v.results = u.results \cup {c}
                /\ Completed(m) = Completed(l) \cup {c}
                /\ Asked(m) = Asked(l) /\ Messaged(m) = Messaged(l)
                /\ Paired(l) /\ c \in Asked(l) => Paired(m)
<1>1. /\ x \in CallFact /\ x.type = "accepted" /\ x.call = c
      /\ y \in CallFact /\ y.type = "completed" /\ y.call = c
    BY DEF CallFact
<1> HIDE DEF x, y
<1>2. ASSUME NEW l \in Seq(Fact), Lawful(l), c \notin ReduceAll(Empty, l).results
      PROVE  Ends(l, Append(l, y))
    <2> DEFINE m == Append(l, y)
               u == ReduceAll(Empty, l)
               v == ReduceAll(Empty, m)
    <2>1. /\ m \in Seq(Fact) /\ Lawful(m)
          /\ Asked(m) = Asked(l) /\ Messaged(m) = Messaged(l)
          /\ v.pending = u.pending \ {c} /\ v.results = u.results \cup {c}
          /\ Completed(m) = Completed(l) \cup {c}
          /\ Paired(l) /\ c \in Asked(l) => Paired(m)
        BY <1>1, <1>2, CallGrows
    <2> HIDE DEF m
    <2>2. Ends(l, m)
        BY <2>1
    <2> QED BY <2>2 DEF m
<1>3. CASE c \in t.pending
    <2>1. Interrupt(s, c) = <<y>>
        <3>1. Interrupt(s, c) = <<>> \o <<y>>
            BY <1>3 DEF Interrupt, y
        <3> QED BY <3>1
    <2>2. log \o Interrupt(s, c) = Append(log, y)
        BY <2>1
    <2>3. Ends(log, log \o Interrupt(s, c))
        BY <1>2, <2>2
    <2> QED BY <2>3
<1>4. CASE c \notin t.pending
    <2> DEFINE l == Append(log, x)
               u == ReduceAll(Empty, l)
    <2>1. Interrupt(s, c) = <<x>> \o <<y>>
        BY <1>4 DEF Interrupt, x, y
    <2>2. log \o Interrupt(s, c) = Append(l, y)
      <3>1. x \in Fact /\ y \in Fact
          BY <1>1 DEF CallFact, Fact
      <3>2. log \o (<<x>> \o <<y>>) = Append(Append(log, x), y)
          BY <3>1
      <3> QED BY <2>1, <3>2
    <2>3. /\ l \in Seq(Fact) /\ Lawful(l)
          /\ u.pending = t.pending \cup {c} /\ u.results = t.results \ {c}
          /\ Completed(l) = Completed(log)
          /\ Asked(l) = Asked(log) /\ Messaged(l) = Messaged(log)
          /\ Paired(log) /\ c \in Asked(log) /\ c \notin Completed(log) => Paired(l)
        BY <1>1, <1>4, CallGrows
    <2> HIDE DEF l, Ends, t
    <2>4. Ends(l, log \o Interrupt(s, c))
        BY <1>2, <2>2, <2>3
    <2> DEFINE m == log \o Interrupt(s, c)
               v == ReduceAll(Empty, m)
    <2>5. /\ m \in Seq(Fact) /\ Lawful(m)
          /\ v.pending = u.pending \ {c} /\ v.results = u.results \cup {c}
          /\ Completed(m) = Completed(l) \cup {c}
          /\ Asked(m) = Asked(l) /\ Messaged(m) = Messaged(l)
          /\ Paired(l) /\ c \in Asked(l) => Paired(m)
        BY <2>4 DEF Ends
    <2> HIDE DEF m, u, v
    <2>6. /\ v.pending = t.pending \ {c} /\ v.results = t.results \cup {c}
          /\ Completed(m) = Completed(log) \cup {c}
          /\ Asked(m) = Asked(log) /\ Messaged(m) = Messaged(log)
          /\ Paired(log) /\ c \in Asked(log) \ Completed(log) => Paired(m)
        BY <1>4, <2>3, <2>5
    <2> QED BY <2>5, <2>6 DEF m, v, t
<1> QED BY <1>3, <1>4
(* A new message is refused by nothing. *)
LEMMA MessageGrows ==
    ASSUME NEW log \in Seq(Fact), NEW m \in Message, Lawful(log)
    PROVE  LET more == log \o <<MessageFact(m)>>
               s == ReduceAll(Empty, log)
               t == ReduceAll(Empty, more) IN
           /\ more \in Seq(Fact) /\ Lawful(more)
           /\ t.pending = s.pending /\ t.messages = Append(s.messages, m)
           /\ Completed(more) = Completed(log)
           /\ Asked(more) = Asked(log) \cup Requests(m)
           /\ Messaged(more) = Messaged(log) \cup Answers(m)
           /\ /\ Paired(log)
              /\ Requests(m) \cap Asked(log) = {}
              /\ Answers(m) \subseteq Completed(log) \ Messaged(log)
              => Paired(more)
<1> DEFINE x == MessageFact(m)
           more == Append(log, x)
           s == ReduceAll(Empty, log)
           t == ReduceAll(Empty, more)
<1>1. x \in Fact /\ x.type = "message" /\ x.message = m
    BY DEF MessageFact, Fact
<1> HIDE DEF x
<1>2. more \in Seq(Fact) /\ s \in State /\ t = Reduce(s, x)
    BY <1>1, EmptyType, ReduceSteps
<1>3. Lawful(more)
    <2>1. ~ Refused(s, x)
        BY <1>1 DEF Refused
    <2> QED BY <1>1, <2>1, LawfulGrows
<1> HIDE DEF s, t
<1>4. /\ Completed(more) = Completed(log)
      /\ Asked(more) = Asked(log) \cup Requests(m)
      /\ Messaged(more) = Messaged(log) \cup Answers(m)
    BY <1>1, FoundMore
<1>5. more = log \o <<x>>
    BY <1>1
<1> HIDE DEF more
<1>6. t.pending = s.pending /\ t.messages = Append(s.messages, m)
    BY <1>1, <1>2, CallEffect
<1>7. ASSUME Paired(log), Requests(m) \cap Asked(log) = {},
             Answers(m) \subseteq Completed(log) \ Messaged(log)
      PROVE  Paired(more)
    <2>1. Matched(log, s)
        BY <1>7, PairedEnd DEF s
    <2>2. Requested(t.messages) = Requested(s.messages) \cup Requests(m)
        <3>1. s.messages \in Seq(Message)
            BY <1>2 DEF State
        <3> QED BY <1>6, <3>1, RequestedMore
    <2>3. Matched(more, t)
        BY <1>4, <1>6, <1>7, <2>1, <2>2 DEF Matched
    <2>4. Matched(Append(log, x), Reduce(ReduceAll(Empty, log), x))
        BY <1>2, <2>3 DEF more, s
    <2>5. Requests(x.message) \cap Asked(log) = {} /\ Answers(x.message) \cap Messaged(log) = {}
        BY <1>1, <1>7
    <2> QED BY <1>1, <1>7, <2>4, <2>5, PairedGrows DEF more
<1> QED BY <1>2, <1>3, <1>4, <1>5, <1>6, <1>7 DEF more, s, t, x

(* What resumeState adds for the open calls is accepted, and ends them all. *)
LEMMA OpenEnds ==
    ASSUME NEW log, NEW k \in Nat, Sound(log, k), Lawful(log),
           NEW open \in SetToSeqs(OpenCalls(log))
    PROVE  LET s == ReduceAll(Empty, log)
               l == log \o FlattenSeq([i \in DOMAIN open |-> Interrupt(s, open[i])]) IN
           /\ l \in Seq(Fact) /\ Lawful(l)
           /\ ReduceAll(Empty, l).pending = {}
           /\ Completed(l) = Completed(log) \cup OpenCalls(log)
           /\ Asked(l) = Asked(log) /\ Messaged(l) = Messaged(log)
           /\ Paired(log) => Paired(l)
<1> DEFINE s == ReduceAll(Empty, log)
           C == OpenCalls(log)
           parts == [i \in DOMAIN open |-> Interrupt(s, open[i])]
           n == Len(open)
           Done(i) == {open[j] : j \in 1..i}
<1>0. log \in Seq(Fact) /\ s \in State
    BY SoundState
<1>1. C \subseteq Calls /\ IsFiniteSet(C)
    BY OpenAreCalls
<1>2. /\ open \in Seq(Calls) /\ Range(open) = C
      /\ \A i, j \in 1..n : i # j => open[i] # open[j]
    <2> HIDE DEF C
    <2> QED BY <1>1, OpenOrder DEF C
<1>3. n \in Nat /\ DOMAIN open = 1..n /\ \A i \in 1..n : open[i] \in C
    BY <1>2 DEF Range
<1>4. /\ s.pending = AcceptedOpen(log) /\ s.results \subseteq Completed(log)
      /\ s.pending \cap s.results = {}
    BY <1>0, OpenState
<1>5. s.pending \subseteq C /\ C \cap s.results = {}
    <2> HIDE DEF s
    <2> QED BY <1>4 DEF OpenCalls
<1>6. Paired(log) => C \subseteq Asked(log) \ Completed(log)
    <2>1. LoadMessages(log) = s.messages
        BY SoundLoads
    <2>2. Paired(log) => Matched(log, s)
        BY <1>0, PairedEnd
    <2> HIDE DEF s
    <2> QED BY <1>4, <2>1, <2>2 DEF OpenCalls, Matched
<1>7. parts \in Seq(Seq(CallFact)) /\ Len(parts) = n
      /\ \A i \in 1..n : parts[i] = Interrupt(s, open[i])
    <2>1. \A i \in 1..n : Interrupt(s, open[i]) \in Seq(CallFact)
        BY <1>1, <1>3, InterruptType
    <2>2. parts \in [1..n -> Seq(CallFact)]
        BY <1>3, <2>1
    <2> HIDE DEF s
    <2> QED BY <1>3, <2>2
<1> HIDE DEF s, C, parts, n
<1>8. PICK f \in [0..n -> Seq(CallFact)] :
            /\ f[0] = <<>>
            /\ \A i \in 1..n : f[i] = f[i - 1] \o parts[i]
            /\ FlattenSeq(parts) = f[n]
    BY <1>7, Flattens
<1> DEFINE Good(l, D) ==
                LET t == ReduceAll(Empty, l) IN
                /\ l \in Seq(Fact) /\ Lawful(l)
                /\ t.pending = s.pending \ D /\ t.results = s.results \cup D
                /\ Completed(l) = Completed(log) \cup D
                /\ Asked(l) = Asked(log) /\ Messaged(l) = Messaged(log)
                /\ Paired(log) => Paired(l)
           S == {i \in Nat : Good(log \o f[i], Done(i))}
<1>9. 0 \in S
    <2>1. log \o f[0] = log
        BY <1>0, <1>8
    <2>2. Done(0) = {}
        OBVIOUS
    <2>3. Good(log, {})
        BY <1>0 DEF s
    <2> HIDE DEF Good, Done
    <2>4. Good(log \o f[0], Done(0))
        BY <2>1, <2>2, <2>3
    <2> QED BY <2>4
<1>10. ASSUME NEW i \in Nat, i < n, i \in S
       PROVE  i + 1 \in S
    <2> DEFINE l == log \o f[i]
               t == ReduceAll(Empty, l)
               D == Done(i)
               c == open[i + 1]
               m == l \o Interrupt(s, c)
               u == ReduceAll(Empty, m)
    <2>1. i + 1 \in 1..n /\ (i + 1) - 1 = i /\ i \in 0..n
        BY <1>3, <1>10
    <2>2. log \o f[i + 1] = m
        <3>1. f[i + 1] = f[i] \o parts[i + 1] /\ parts[i + 1] = Interrupt(s, c)
            BY <1>7, <1>8, <2>1
        <3>2. f[i] \in Seq(CallFact) /\ parts[i + 1] \in Seq(CallFact)
            BY <1>1, <1>3, <1>7, <1>8, <2>1, InterruptType
        <3>3. CallFact \subseteq Fact
            BY DEF CallFact, Fact
        <3>4. f[i] \in Seq(Fact) /\ parts[i + 1] \in Seq(Fact)
            BY <3>2, <3>3
        <3> DEFINE a == f[i]
                   b == parts[i + 1]
        <3>5. a \in Seq(Fact) /\ b \in Seq(Fact)
            BY <3>4
        <3> HIDE DEF a, b
        <3>6. log \o (a \o b) = (log \o a) \o b
            BY <1>0, <3>5
        <3> QED BY <3>1, <3>6 DEF a, b
    <2>3. Done(i + 1) = D \cup {c}
        <3>1. \A j \in 1..(i + 1) : j \in 1..i \/ j = i + 1
            BY <2>1
        <3>2. \A j \in 1..i : j \in 1..(i + 1)
            BY <2>1
        <3>3. i + 1 \in 1..(i + 1)
            BY <2>1
        <3> QED BY <3>1, <3>2, <3>3
    <2>4. c \in C /\ c \in Calls /\ c \notin D
        <3>1. \A j \in 1..i : j \in 1..n /\ j # i + 1
            BY <1>3, <2>1
        <3> QED BY <1>1, <1>2, <1>3, <2>1, <3>1
    <2>5. Good(l, D)
        BY <1>10
    <2> HIDE DEF l, D, c, Done
    <2>6. /\ l \in Seq(Fact) /\ Lawful(l)
          /\ t.pending = s.pending \ D /\ t.results = s.results \cup D
          /\ Completed(l) = Completed(log) \cup D
          /\ Asked(l) = Asked(log) /\ Messaged(l) = Messaged(log)
          /\ Paired(log) => Paired(l)
        BY <2>5
    <2> HIDE DEF t
    <2>7. c \notin t.results /\ (c \in s.pending \cup s.results <=> c \in t.pending)
        BY <1>5, <2>4, <2>6
    <2>8. /\ m \in Seq(Fact) /\ Lawful(m)
          /\ u.pending = t.pending \ {c} /\ u.results = t.results \cup {c}
          /\ Completed(m) = Completed(l) \cup {c}
          /\ Asked(m) = Asked(l) /\ Messaged(m) = Messaged(l)
          /\ Paired(l) /\ c \in Asked(l) \ Completed(l) => Paired(m)
        BY <2>4, <2>6, <2>7, InterruptEnds DEF t
    <2> HIDE DEF m, u
    <2>9. Paired(log) => Paired(m)
        BY <1>6, <2>4, <2>6, <2>8
    <2>10. /\ u.pending = s.pending \ (D \cup {c}) /\ u.results = s.results \cup (D \cup {c})
           /\ Completed(m) = Completed(log) \cup (D \cup {c})
           /\ Asked(m) = Asked(log) /\ Messaged(m) = Messaged(log)
        BY <2>6, <2>8
    <2>11. Good(m, D \cup {c})
        BY <2>8, <2>9, <2>10 DEF u
    <2> HIDE DEF Good
    <2>12. Good(log \o f[i + 1], Done(i + 1))
        BY <2>2, <2>3, <2>11
    <2> QED BY <2>12
<1> HIDE DEF S
<1>11. \A i \in Nat : i < n /\ i \in S => i + 1 \in S
    BY <1>10
<1>12. \A i \in 0..n : i \in S
    BY <1>3, <1>9, <1>11, Climbs
<1>13. Good(log \o f[n], Done(n))
    <2> HIDE DEF Good, Done
    <2> QED BY <1>3, <1>12 DEF S
<1>14. Done(n) = C
    BY <1>2, <1>3 DEF Range
<1> DEFINE l == log \o f[n]
<1> HIDE DEF Done, l
<1>15. Good(l, C)
    <2> HIDE DEF Good
    <2> QED BY <1>13, <1>14 DEF l
<1>16. /\ l \in Seq(Fact) /\ Lawful(l)
       /\ ReduceAll(Empty, l).pending = {}
       /\ Completed(l) = Completed(log) \cup C
       /\ Asked(l) = Asked(log) /\ Messaged(l) = Messaged(log)
       /\ Paired(log) => Paired(l)
    BY <1>5, <1>15
<1>17. l = log \o FlattenSeq(parts)
    BY <1>8 DEF l
<1> HIDE DEF Good
<1> QED BY <1>16, <1>17 DEF C, parts, s
(* The facts of resumeState are accepted after those of the journal, end    *)
(* every open call, and answer what is unanswered.                          *)
LEMMA RecoveryEnds ==
    ASSUME nextId \in Nat, NEW log, Sound(log, nextId), Lawful(log),
           NEW open \in SetToSeqs(OpenCalls(log))
    PROVE  LET s == ReduceAll(Empty, log)
               more == log \o RecoveryFacts(log, s, open) IN
           /\ Lawful(more) /\ ReduceAll(Empty, more).pending = {}
           /\ Paired(log) => Paired(more) /\ Asked(more) \subseteq Messaged(more)
<1> DEFINE s == ReduceAll(Empty, log)
           C == OpenCalls(log)
           flat == FlattenSeq([i \in DOMAIN open |-> Interrupt(s, open[i])])
           answered == C \cup Unmessaged(log)
           m == NewMessage("recovery", answered, 1)
           facts == RecoveryFacts(log, s, open)
           l == log \o flat
<1>1. /\ flat \in Seq(CallFact) /\ m \in Message
      /\ facts = IF answered = {} THEN flat ELSE flat \o <<MessageFact(m)>>
    BY RecoveryFits
<1>2. /\ l \in Seq(Fact) /\ Lawful(l)
      /\ ReduceAll(Empty, l).pending = {}
      /\ Completed(l) = Completed(log) \cup C
      /\ Asked(l) = Asked(log) /\ Messaged(l) = Messaged(log)
      /\ Paired(log) => Paired(l)
    BY OpenEnds
<1>3. Requests(m) = {} /\ Answers(m) = answered
    BY DEF NewMessage, Requests, Answers
<1>4. Paired(log) => /\ Asked(log) \subseteq Messaged(log) \cup answered
                     /\ answered \cap Messaged(log) = {}
    <2> SUFFICES ASSUME Paired(log)
                 PROVE  /\ Asked(log) \subseteq Messaged(log) \cup answered
                        /\ answered \cap Messaged(log) = {}
        OBVIOUS
    <2>1. log \in Seq(Fact)
        BY SoundState
    <2>2. LoadMessages(log) = s.messages /\ Matched(log, s) /\ s.pending = AcceptedOpen(log)
        BY <2>1, SoundLoads, PairedEnd, OpenState
    <2> HIDE DEF s
    <2> QED BY <2>2 DEF OpenCalls, Unmessaged, Matched
<1>5. answered \subseteq Completed(l)
    BY <1>2 DEF Unmessaged
<1>6. log \in Seq(Fact) /\ flat \in Seq(Fact)
    <2>1. CallFact \subseteq Fact
        BY DEF CallFact, Fact
    <2>2. log \in Seq(Fact)
        BY SoundState
    <2> HIDE DEF flat
    <2> QED BY <1>1, <2>1, <2>2
<1> HIDE DEF s, C, flat, answered, m, facts
<1>7. CASE answered = {}
    <2>1. log \o facts = l
        BY <1>1, <1>7
    <2> HIDE DEF l
    <2>2. /\ Lawful(l) /\ ReduceAll(Empty, l).pending = {}
          /\ Paired(log) => Paired(l) /\ Asked(l) \subseteq Messaged(l)
        BY <1>2, <1>4, <1>7
    <2> QED BY <2>1, <2>2 DEF facts, s
<1>8. CASE answered # {}
    <2> DEFINE more == l \o <<MessageFact(m)>>
    <2>1. log \o facts = more
        <3>1. MessageFact(m) \in Fact
            BY <1>1 DEF MessageFact, Fact
        <3> QED BY <1>1, <1>6, <1>8, <3>1
    <2> HIDE DEF l
    <2>2. /\ Lawful(more) /\ ReduceAll(Empty, more).pending = ReduceAll(Empty, l).pending
          /\ Asked(more) = Asked(l) \cup Requests(m)
          /\ Messaged(more) = Messaged(l) \cup Answers(m)
          /\ /\ Paired(l)
             /\ Requests(m) \cap Asked(l) = {}
             /\ Answers(m) \subseteq Completed(l) \ Messaged(l)
             => Paired(more)
        BY <1>1, <1>2, MessageGrows
    <2> HIDE DEF more
    <2>3. /\ Lawful(more) /\ ReduceAll(Empty, more).pending = {}
          /\ Paired(log) => Paired(more) /\ Asked(more) \subseteq Messaged(more)
        BY <1>2, <1>3, <1>4, <1>5, <2>2
    <2> QED BY <2>1, <2>3 DEF facts, s
<1> QED BY <1>7, <1>8

-----------------------------------------------------------------------------
(* A session can always be resumed. *)

CallInv ==
    /\ Lawful(file \o recovery)
    /\ pc \in {"ready", "recovering"} => live.pending = {}
    /\ pc = "executing" => batch \cap live.pending = {}

(* Every step adds facts the reducer accepts. *)
LEMMA StepCalls == TypeOK /\ LogInv /\ CallInv /\ Next => CallInv'
<1> SUFFICES ASSUME TypeOK, LogInv, CallInv, Next
             PROVE  CallInv'
    OBVIOUS
<1>0. nextId \in Nat /\ batch \subseteq Calls
    BY DEF TypeOK
<1>1. ASSUME pc # "down", pc # "recovering"
      PROVE  /\ file \in Seq(Fact) /\ recovery = <<>> /\ file \o recovery = file
             /\ Lawful(file) /\ live = ReduceAll(Empty, file) /\ live \in State
             /\ live.messages \in Seq(Message) /\ Sound(file, nextId)
    <2>1. /\ file \in Seq(Fact) /\ recovery = <<>> /\ live = ReduceAll(Empty, file)
          /\ live \in State /\ live.messages \in Seq(Message) /\ Sound(file, nextId)
        BY <1>1, Running
    <2>2. file \o recovery = file
        BY <2>1
    <2> QED BY <2>1, <2>2 DEF CallInv
<1>2. ASSUME pc # "down", pc # "recovering", NEW m \in Message, m.id = nextId, NEW flush,
             Persist(<<MessageFact(m)>>, flush), nextId' = nextId + 1, recovery' = recovery
      PROVE  /\ Lawful(file' \o recovery') /\ live'.pending = live.pending
    <2>1. /\ Lawful(file \o <<MessageFact(m)>>)
          /\ ReduceAll(Empty, file \o <<MessageFact(m)>>).pending = live.pending
        BY <1>1, <1>2, MessageGrows
    <2> DEFINE x == MessageFact(m)
    <2>2. x \in Fact
        BY DEF MessageFact, Fact
    <2> HIDE DEF x
    <2>3. file' = file \o <<x>> /\ live' = ReduceAll(live, <<x>>)
        BY <1>2 DEF Persist, x
    <2>4. file' \o recovery' = file \o <<x>>
        BY <1>1, <1>2, <2>2, <2>3
    <2>5. live' = ReduceAll(Empty, file \o <<x>>)
        <3>1. <<x>> \in Seq(Fact)
            BY <2>2
        <3> QED BY <1>1, <1>2, <2>3, <3>1, EmptyType, ReduceJoin
    <2> QED BY <2>1, <2>4, <2>5 DEF x
<1>3. CASE AcceptHuman
    <2> DEFINE m == NewMessage("human", {}, 1)
    <2>1. m \in Message /\ m.id = nextId
        BY NewMessageType DEF Kinds
    <2> HIDE DEF m
    <2>2. pc = "ready" /\ Persist(<<MessageFact(m)>>, TRUE) /\ nextId' = nextId + 1
            /\ recovery' = recovery /\ pc' = pc
        BY <1>3 DEF AcceptHuman, m
    <2>3. Lawful(file' \o recovery') /\ live'.pending = live.pending
        BY <1>2, <2>1, <2>2
    <2> QED BY <2>2, <2>3 DEF CallInv
<1>4. CASE InjectNote
    <2> DEFINE m == NewMessage("note", {}, 1)
    <2>1. m \in Message /\ m.id = nextId
        BY NewMessageType DEF Kinds
    <2> HIDE DEF m
    <2>2. pc = "ready" /\ Persist(<<MessageFact(m)>>, TRUE) /\ nextId' = nextId + 1
            /\ recovery' = recovery /\ pc' = pc
        BY <1>4 DEF InjectNote, m
    <2>3. Lawful(file' \o recovery') /\ live'.pending = live.pending
        BY <1>2, <2>1, <2>2
    <2> QED BY <2>2, <2>3 DEF CallInv
<1>5. ASSUME NEW calls \in SUBSET Calls \ {{}}, RequestBatch(calls)
      PROVE  CallInv'
    <2> DEFINE m == NewMessage("assistant", calls, 1)
    <2>1. m \in Message /\ m.id = nextId
        BY NewMessageType DEF Kinds
    <2> HIDE DEF m
    <2>2. pc = "ready" /\ Persist(<<MessageFact(m)>>, FALSE) /\ nextId' = nextId + 1
            /\ recovery' = recovery /\ pc' = "executing"
        BY <1>5 DEF RequestBatch, m
    <2>3. Lawful(file' \o recovery') /\ live'.pending = live.pending
        BY <1>2, <2>1, <2>2
    <2> QED BY <2>2, <2>3 DEF CallInv
<1>6. ASSUME NEW x \in CallFact, pc = "executing", pc' = pc, recovery' = recovery,
             Persist(<<x>>, TRUE),
             x.type = "accepted" => x.call \notin live.pending,
             x.type = "completed" => x.call \notin live.results
      PROVE  /\ Lawful(file' \o recovery')
             /\ x.type = "accepted" => live'.pending = live.pending \cup {x.call}
             /\ x.type = "completed" => live'.pending = live.pending \ {x.call}
    <2>1. /\ x \in Fact /\ Lawful(Append(file, x))
          /\ ReduceAll(Empty, Append(file, x)) = Reduce(live, x)
          /\ x.type = "accepted" => Reduce(live, x).pending = live.pending \cup {x.call}
          /\ x.type = "completed" => Reduce(live, x).pending = live.pending \ {x.call}
        BY <1>1, <1>6, CallGrows
    <2>2. file' = file \o <<x>> /\ live' = ReduceAll(live, <<x>>)
        BY <1>6 DEF Persist
    <2>3. <<x>> \in Seq(Fact) /\ file \o <<x>> = Append(file, x)
        BY <1>1, <1>6, <2>1
    <2>4. file' \o recovery' = Append(file, x)
        BY <1>1, <1>6, <2>1, <2>2, <2>3
    <2>5. live' = ReduceAll(Empty, Append(file, x))
        BY <1>1, <1>6, <2>2, <2>3, EmptyType, ReduceJoin
    <2> QED BY <2>1, <2>4, <2>5
<1>7. ASSUME NEW c \in Calls, AcceptCall(c)
      PROVE  CallInv'
    <2> DEFINE x == [type |-> "accepted", call |-> c]
    <2>1. x \in CallFact /\ x.type = "accepted" /\ x.call = c
        BY DEF CallFact
    <2> HIDE DEF x
    <2>2. /\ pc = "executing" /\ Persist(<<x>>, TRUE) /\ recovery' = recovery /\ pc' = pc
          /\ c \in batch /\ batch' = batch \ {c}
        BY <1>7 DEF AcceptCall, x
    <2>3. c \notin live.pending
        BY <2>2 DEF CallInv
    <2>4. Lawful(file' \o recovery') /\ live'.pending = live.pending \cup {c}
        BY <1>6, <2>1, <2>2, <2>3
    <2>5. batch' \cap live'.pending = {}
        BY <2>2, <2>4 DEF CallInv
    <2> QED BY <2>2, <2>4, <2>5 DEF CallInv
<1>8. ASSUME NEW c \in Calls, CompleteCall(c)
      PROVE  CallInv'
    <2> DEFINE x == [type |-> "completed", call |-> c]
    <2>1. x \in CallFact /\ x.type = "completed" /\ x.call = c
        BY DEF CallFact
    <2> HIDE DEF x
    <2>2. /\ pc = "executing" /\ Persist(<<x>>, TRUE) /\ recovery' = recovery /\ pc' = pc
          /\ batch' = batch /\ batch = {} /\ c \in live.pending
        BY <1>8 DEF CompleteCall, x
    <2>3. c \notin live.results
        <3>1. live.pending \cap live.results = {}
            BY <1>1, <2>2, OpenState
        <3> QED BY <2>2, <3>1
    <2>4. Lawful(file' \o recovery')
        BY <1>6, <2>1, <2>2, <2>3
    <2> QED BY <2>2, <2>4 DEF CallInv
<1>9. ASSUME NEW size \in {1, Big}, AnswerBatch(size)
      PROVE  CallInv'
    <2> DEFINE m == NewMessage("tool", Last(live.messages).calls, size)
    <2>0. pc = "executing"
        BY <1>9 DEF AnswerBatch
    <2>1. m \in Message /\ m.id = nextId
        BY <2>0, LastMessage, NewMessageType DEF Kinds
    <2> HIDE DEF m
    <2>2. /\ Persist(<<MessageFact(m)>>, FALSE) /\ nextId' = nextId + 1
          /\ recovery' = recovery /\ pc' = "ready" /\ live.pending = {}
        BY <1>9 DEF AnswerBatch, m
    <2>3. Lawful(file' \o recovery') /\ live'.pending = live.pending
        BY <1>2, <2>0, <2>1, <2>2
    <2> QED BY <2>2, <2>3 DEF CallInv
<1>10. CASE TakeSnapshot
    <2>1. LogInv' /\ live' = live
        BY <1>10, SnapshotKeeps
    <2> DEFINE x == [type |-> "snapshot", state |-> live, lastSeq |-> Len(file)]
    <2>2. /\ pc = "ready" /\ pc' = pc /\ recovery' = recovery /\ file' = file \o <<x>>
        BY <1>10 DEF TakeSnapshot, Persist
    <2>3. x \in Fact /\ x.type = "snapshot"
        BY <1>1, <2>2 DEF Fact
    <2> HIDE DEF x
    <2>4. Lawful(Append(file, x))
        <3>1. ~ Refused(live, x)
            BY <2>3 DEF Refused
        <3> QED BY <1>1, <2>2, <2>3, <3>1, LawfulGrows
    <2>5. file' \o recovery' = Append(file, x)
        BY <1>1, <2>2, <2>3
    <2> QED BY <2>1, <2>2, <2>4, <2>5 DEF CallInv
<1>11. ASSUME NEW force \in BOOLEAN, NEW answered \in BOOLEAN, PrepareContext(force, answered)
       PROVE  CallInv'
    <2>1. pc = "ready" /\ pc' = pc /\ recovery' = recovery
        BY <1>11 DEF PrepareContext
    <2>2. LogInv'
        BY <1>11, PrepareKeeps
    <2>3. PICK summarises \in BOOLEAN :
            /\ summarises => AutoCleared(MicroMessages(live.messages)) # {}
            /\ file' = file \o PreparedFacts(live.messages, summarises)
        BY <1>11, PrepareKeeps
    <2> DEFINE b == PreparedFacts(live.messages, summarises)
    <2>4. b \in Seq(Quiet)
        BY <1>0, <1>1, <2>1, <2>3, PreparedQuiet
    <2> HIDE DEF b
    <2>5. Lawful(file \o b) /\ ReduceAll(Empty, file \o b).pending = live.pending
        BY <1>1, <2>1, <2>4, QuietFacts
    <2>6. b \in Seq(Fact)
        BY <2>4 DEF Quiet
    <2>7. file' \o recovery' = file \o b
        BY <1>1, <2>1, <2>3, <2>6 DEF b
    <2>8. live' = ReduceAll(Empty, file \o b)
        BY <2>1, <2>2, <2>7 DEF LogInv
    <2> QED BY <2>1, <2>5, <2>7, <2>8 DEF CallInv
<1>12. CASE Crash
    <2>1. PICK k \in durable..Len(file) :
            file' \o recovery' = SubSeq(file \o recovery, 1, k) /\ k <= Len(file \o recovery)
        BY <1>12, CrashKeeps
    <2>2. /\ file \o recovery \in Seq(Fact) /\ durable \in Nat /\ Len(file) \in Nat
          /\ Len(file \o recovery) \in Nat
        BY DEF LogInv
    <2>3. k \in 0..Len(file \o recovery)
        BY <2>1, <2>2
    <2>4. Lawful(file' \o recovery')
        BY <2>1, <2>2, <2>3, LawfulPrefix DEF CallInv
    <2>5. pc' = "down"
        BY <1>12 DEF Crash
    <2> QED BY <2>4, <2>5 DEF CallInv
<1>13. CASE Resume
    <2>1. /\ recovery = <<>> /\ Sound(file, nextId) /\ LogInv'
        BY <1>13, ResumeKeeps
    <2>2. PICK open \in SetToSeqs(OpenCalls(file)) :
            recovery' = RecoveryFacts(file, ReduceAll(Empty, file), open)
        BY <1>13, ResumeKeeps
    <2>3. file' = file /\ pc' = "recovering"
        BY <1>13 DEF Resume
    <2>4. Lawful(file)
        <3>1. file \o recovery = file
            BY <2>1 DEF LogInv
        <3> QED BY <3>1 DEF CallInv
    <2>5. /\ Lawful(file' \o recovery') /\ ReduceAll(Empty, file' \o recovery').pending = {}
        BY <1>0, <2>1, <2>2, <2>3, <2>4, RecoveryEnds
    <2>6. live' = ReduceAll(Empty, file' \o recovery')
        BY <2>1, <2>3 DEF LogInv
    <2> QED BY <2>3, <2>5, <2>6 DEF CallInv
<1>14. CASE AppendRecovery
    <2>1. file' \o recovery' = file \o recovery
        BY <1>14, AppendKeeps
    <2>2. pc = "recovering" /\ pc' \in {"ready", "recovering"} /\ live' = live
        BY <1>14 DEF AppendRecovery
    <2> QED BY <2>1, <2>2 DEF CallInv
<1> QED BY <1>3, <1>4, <1>5, <1>7, <1>8, <1>9, <1>10, <1>11, <1>12, <1>13, <1>14 DEF Next

(* Whatever crashes, compactions and recoveries there were, a replay of the *)
(* journal never meets a fact that the reducer refuses: a crashed session   *)
(* can be resumed (app/createRuntime.ts resumeState, core/state.ts).        *)
THEOREM SessionsResume == Spec => []ReplayAccepted
<1>1. Init => CallInv
    <2> SUFFICES ASSUME Init
                 PROVE  CallInv
        OBVIOUS
    <2>1. file \o recovery = <<>> /\ Len(<<>>) = 0 /\ live.pending = {} /\ pc = "ready"
        BY DEF Init, Empty
    <2>2. Lawful(<<>>)
        BY <2>1 DEF Lawful
    <2> QED BY <2>1, <2>2 DEF CallInv
<1>2. TypeOK /\ LogInv /\ CallInv /\ [Next]_vars => CallInv'
    <2>1. UNCHANGED vars /\ CallInv => CallInv'
        BY DEF vars, CallInv
    <2> QED BY <2>1, StepCalls
<1>3. TypeOK /\ LogInv /\ CallInv => ReplayAccepted
    <2> SUFFICES ASSUME TypeOK, LogInv, CallInv
                 PROVE  ReplayAccepted
        OBVIOUS
    <2> DEFINE log == file \o recovery
    <2>1. /\ file \in Seq(Fact) /\ log \in Seq(Fact) /\ Len(file) \in 0..Len(log)
          /\ SubSeq(log, 1, Len(file)) = file
        BY DEF LogInv
    <2>2. Lawful(file)
        BY <2>1, LawfulPrefix DEF CallInv
    <2>3. DOMAIN file = 1..Len(file)
        BY <2>1
    <2> QED BY <2>2, <2>3 DEF ReplayAccepted, Lawful, At
<1> QED BY <1>1, <1>2, <1>3, LogHolds, PTL DEF Spec
-----------------------------------------------------------------------------
(* Every call is answered once. *)

Due == Last(live.messages).calls

PairInv ==
    /\ Paired(file \o recovery)
    /\ pc \in {"ready", "recovering"} =>
            Asked(file \o recovery) \subseteq Messaged(file \o recovery)
    /\ pc = "executing" =>
            /\ Asked(file) \ Messaged(file) = Due
            /\ Due \subseteq batch \cup live.pending \cup Completed(file)
            /\ batch \subseteq Due \ Completed(file)

(* A running session, and the journal and state it has after one more fact *)
LEMMA OneFact ==
    ASSUME TypeOK, LogInv, CallInv, PairInv, pc # "down", pc # "recovering", NEW x \in Fact,
           NEW flush, Persist(<<x>>, flush), recovery' = recovery
    PROVE  /\ file' = Append(file, x) /\ file' \o recovery' = file' /\ file' = file \o <<x>>
           /\ live' = ReduceAll(Empty, Append(file, x))
<1>1. file \in Seq(Fact) /\ recovery = <<>> /\ live = ReduceAll(Empty, file)
    BY Running
<1>2. file' = file \o <<x>> /\ live' = ReduceAll(live, <<x>>)
    BY DEF Persist
<1>3. <<x>> \in Seq(Fact)
    OBVIOUS
<1>4. file \o <<x>> = Append(file, x)
    BY <1>1
<1>5. live' = ReduceAll(Empty, file \o <<x>>)
    BY <1>1, <1>2, <1>3, EmptyType, ReduceJoin
<1>6. file' \o recovery' = file'
    BY <1>1, <1>2, <1>4
<1> QED BY <1>2, <1>4, <1>5, <1>6

(* Every step keeps requests and answers paired. *)
LEMMA StepPairs ==
    ASSUME ~ Reissue
    PROVE  TypeOK /\ LogInv /\ CallInv /\ PairInv /\ Next => PairInv'
<1> SUFFICES ASSUME TypeOK, LogInv, CallInv, PairInv, Next
             PROVE  PairInv'
    OBVIOUS
<1>0. nextId \in Nat /\ batch \subseteq Calls
    BY DEF TypeOK
<1>1. ASSUME pc # "down", pc # "recovering"
      PROVE  /\ file \in Seq(Fact) /\ recovery = <<>> /\ file \o recovery = file
             /\ Lawful(file) /\ live = ReduceAll(Empty, file)
             /\ live \in State /\ live.messages \in Seq(Message)
             /\ Sound(file, nextId) /\ Paired(file) /\ Matched(file, live)
    <2>1. /\ file \in Seq(Fact) /\ recovery = <<>> /\ live = ReduceAll(Empty, file)
          /\ live \in State /\ live.messages \in Seq(Message) /\ Sound(file, nextId)
        BY <1>1, Running
    <2>2. file \o recovery = file
        BY <2>1
    <2>3. Matched(file, live)
        BY <2>1, <2>2, PairedEnd DEF PairInv
    <2> QED BY <2>1, <2>2, <2>3 DEF CallInv, PairInv
<1>2. ASSUME pc # "down", pc # "recovering", NEW m \in Message, NEW flush,
             Persist(<<MessageFact(m)>>, flush), recovery' = recovery,
             Requests(m) \cap Asked(file) = {},
             Answers(m) \subseteq Completed(file) \ Messaged(file)
      PROVE  /\ file' \o recovery' = file' /\ Paired(file')
             /\ Asked(file') = Asked(file) \cup Requests(m)
             /\ Messaged(file') = Messaged(file) \cup Answers(m)
             /\ Completed(file') = Completed(file)
             /\ live'.messages = Append(live.messages, m)
    <2> DEFINE x == MessageFact(m)
    <2>1. x \in Fact
        BY DEF MessageFact, Fact
    <2> HIDE DEF x
    <2>2. /\ file' \o recovery' = file' /\ file' = file \o <<x>>
          /\ live' = ReduceAll(Empty, Append(file, x))
          /\ file' = Append(file, x)
        BY <1>2, <2>1, OneFact DEF x
    <2>3. /\ Asked(file \o <<x>>) = Asked(file) \cup Requests(m)
          /\ Messaged(file \o <<x>>) = Messaged(file) \cup Answers(m)
          /\ Completed(file \o <<x>>) = Completed(file)
          /\ Paired(file \o <<x>>)
          /\ ReduceAll(Empty, file \o <<x>>).messages = Append(live.messages, m)
        BY <1>1, <1>2, MessageGrows DEF x
    <2> QED BY <2>2, <2>3
<1>3. ASSUME AcceptHuman \/ InjectNote
      PROVE  PairInv'
    <2>1. PICK kind \in {"human", "note"} :
            /\ pc = "ready" /\ Persist(<<MessageFact(NewMessage(kind, {}, 1))>>, TRUE)
            /\ recovery' = recovery /\ pc' = pc
        BY <1>3 DEF AcceptHuman, InjectNote
    <2> DEFINE m == NewMessage(kind, {}, 1)
    <2>2. m \in Message /\ Requests(m) = {} /\ Answers(m) = {}
        <3>1. m \in Message
            BY NewMessageType DEF Kinds
        <3>2. Requests(m) = {} /\ Answers(m) = {}
            BY DEF NewMessage, Requests, Answers
        <3> QED BY <3>1, <3>2
    <2> HIDE DEF m
    <2>3. /\ file' \o recovery' = file' /\ Paired(file')
          /\ Asked(file') = Asked(file) /\ Messaged(file') = Messaged(file)
        BY <1>2, <2>1, <2>2 DEF m
    <2>4. Asked(file) \subseteq Messaged(file)
        BY <1>1, <2>1 DEF PairInv
    <2> QED BY <2>1, <2>3, <2>4 DEF PairInv
<1>4. ASSUME NEW calls \in SUBSET Calls \ {{}}, RequestBatch(calls)
      PROVE  PairInv'
    <2> DEFINE m == NewMessage("assistant", calls, 1)
    <2>1. m \in Message /\ Requests(m) = calls /\ Answers(m) = {} /\ m.calls = calls
        <3>1. m \in Message
            BY NewMessageType DEF Kinds
        <3>2. Requests(m) = calls /\ Answers(m) = {} /\ m.calls = calls
            BY DEF NewMessage, Requests, Answers
        <3> QED BY <3>1, <3>2
    <2> HIDE DEF m
    <2>2. /\ pc = "ready" /\ Persist(<<MessageFact(m)>>, FALSE)
          /\ recovery' = recovery /\ pc' = "executing" /\ batch' = calls
        BY <1>4 DEF RequestBatch, m
    <2>3. calls \cap Asked(file) = {}
        <3>1. calls \cap Used = {}
            BY <1>4 DEF RequestBatch
        <3> QED BY <3>1 DEF Used, Asked, CallFacts
    <2>4. /\ file' \o recovery' = file' /\ Paired(file')
          /\ Asked(file') = Asked(file) \cup calls /\ Messaged(file') = Messaged(file)
          /\ Completed(file') = Completed(file)
          /\ live'.messages = Append(live.messages, m)
        BY <1>2, <2>1, <2>2, <2>3
    <2>5. Due' = calls
        <3>1. Last(Append(live.messages, m)) = m
            BY <1>1, <2>1, <2>2 DEF Last
        <3> QED BY <2>1, <2>4, <3>1 DEF Due
    <2>6. Asked(file) \subseteq Messaged(file) /\ Matched(file, live)
        BY <1>1, <2>2 DEF PairInv
    <2>7. Asked(file') \ Messaged(file') = calls /\ calls \cap Completed(file') = {}
        BY <2>3, <2>4, <2>6 DEF Matched
    <2>8. /\ Asked(file') \ Messaged(file') = Due'
          /\ Due' \subseteq batch' \cup live'.pending \cup Completed(file')
          /\ batch' \subseteq Due' \ Completed(file')
        BY <2>2, <2>5, <2>7
    <2> QED BY <2>2, <2>4, <2>8 DEF PairInv
<1>5. ASSUME pc = "executing"
      PROVE  /\ Asked(file) \ Messaged(file) = Due
             /\ Due \subseteq batch \cup live.pending \cup Completed(file)
             /\ batch \subseteq Due \ Completed(file)
             /\ live.pending \subseteq Asked(file) \ Completed(file)
    <2>1. Matched(file, live)
        BY <1>1, <1>5
    <2> QED BY <1>5, <2>1 DEF PairInv, Matched
<1>6. ASSUME NEW x \in CallFact, pc = "executing", pc' = pc, recovery' = recovery,
             Persist(<<x>>, TRUE), x.call \in Asked(file),
             x.type = "accepted" => x.call \notin live.pending /\ x.call \notin Completed(file),
             x.type = "completed" => x.call \notin live.results
      PROVE  /\ file' \o recovery' = file' /\ Paired(file') /\ Due' = Due
             /\ Asked(file') = Asked(file) /\ Messaged(file') = Messaged(file)
             /\ x.type = "accepted" =>
                    /\ live'.pending = live.pending \cup {x.call}
                    /\ Completed(file') = Completed(file)
             /\ x.type = "completed" =>
                    /\ live'.pending = live.pending \ {x.call}
                    /\ Completed(file') = Completed(file) \cup {x.call}
    <2> DEFINE more == Append(file, x)
               t == ReduceAll(Empty, more)
    <2>1. /\ x \in Fact /\ t.messages = live.messages
          /\ Asked(more) = Asked(file) /\ Messaged(more) = Messaged(file)
          /\ Paired(more)
          /\ x.type = "accepted" =>
                t.pending = live.pending \cup {x.call} /\ Completed(more) = Completed(file)
          /\ x.type = "completed" =>
                t.pending = live.pending \ {x.call}
                    /\ Completed(more) = Completed(file) \cup {x.call}
        BY <1>1, <1>6, CallGrows
    <2> HIDE DEF more
    <2>2. file' \o recovery' = file' /\ file' = more /\ live' = t
        BY <1>6, <2>1, OneFact DEF more
    <2> HIDE DEF t
    <2> QED BY <2>1, <2>2 DEF Due
<1>7. ASSUME NEW c \in Calls, AcceptCall(c)
      PROVE  PairInv'
    <2> DEFINE x == [type |-> "accepted", call |-> c]
    <2>1. x \in CallFact /\ x.type = "accepted" /\ x.call = c
        BY DEF CallFact
    <2> HIDE DEF x
    <2>2. /\ pc = "executing" /\ Persist(<<x>>, TRUE) /\ recovery' = recovery /\ pc' = pc
          /\ c \in batch /\ batch' = batch \ {c}
        BY <1>7 DEF AcceptCall, x
    <2>3. c \notin live.pending
        BY <2>2 DEF CallInv
    <2>4. c \in Asked(file) /\ c \notin Completed(file)
        BY <1>5, <2>2
    <2>5. /\ file' \o recovery' = file' /\ Paired(file') /\ Due' = Due
          /\ Asked(file') = Asked(file) /\ Messaged(file') = Messaged(file)
          /\ live'.pending = live.pending \cup {c} /\ Completed(file') = Completed(file)
        BY <1>6, <2>1, <2>2, <2>3, <2>4
    <2>6. /\ Asked(file') \ Messaged(file') = Due'
          /\ Due' \subseteq batch' \cup live'.pending \cup Completed(file')
          /\ batch' \subseteq Due' \ Completed(file')
        BY <1>5, <2>2, <2>5
    <2> QED BY <2>2, <2>5, <2>6 DEF PairInv
<1>8. ASSUME NEW c \in Calls, CompleteCall(c)
      PROVE  PairInv'
    <2> DEFINE x == [type |-> "completed", call |-> c]
    <2>1. x \in CallFact /\ x.type = "completed" /\ x.call = c
        BY DEF CallFact
    <2> HIDE DEF x
    <2>2. /\ pc = "executing" /\ Persist(<<x>>, TRUE) /\ recovery' = recovery /\ pc' = pc
          /\ batch' = batch /\ batch = {} /\ c \in live.pending
        BY <1>8 DEF CompleteCall, x
    <2>3. c \notin live.results
        <3>1. live.pending \cap live.results = {}
            BY <1>1, <2>2, OpenState
        <3> QED BY <2>2, <3>1
    <2>4. c \in Asked(file)
        BY <1>5, <2>2
    <2>5. /\ file' \o recovery' = file' /\ Paired(file') /\ Due' = Due
          /\ Asked(file') = Asked(file) /\ Messaged(file') = Messaged(file)
          /\ live'.pending = live.pending \ {c} /\ Completed(file') = Completed(file) \cup {c}
        BY <1>6, <2>1, <2>2, <2>3, <2>4
    <2>6. /\ Asked(file') \ Messaged(file') = Due'
          /\ Due' \subseteq batch' \cup live'.pending \cup Completed(file')
          /\ batch' \subseteq Due' \ Completed(file')
        BY <1>5, <2>2, <2>5
    <2> QED BY <2>2, <2>5, <2>6 DEF PairInv
<1>9. ASSUME NEW size \in {1, Big}, AnswerBatch(size)
      PROVE  PairInv'
    <2> DEFINE m == NewMessage("tool", Due, size)
    <2>0. pc = "executing"
        BY <1>9 DEF AnswerBatch
    <2>1. m \in Message /\ Requests(m) = {} /\ Answers(m) = Due
        <3>1. m \in Message
            BY <2>0, LastMessage, NewMessageType DEF Kinds, Due
        <3>2. Requests(m) = {} /\ Answers(m) = Due
            BY DEF NewMessage, Requests, Answers
        <3> QED BY <3>1, <3>2
    <2> HIDE DEF m
    <2>2. /\ Persist(<<MessageFact(m)>>, FALSE) /\ recovery' = recovery /\ pc' = "ready"
          /\ batch = {} /\ live.pending = {}
        BY <1>9 DEF AnswerBatch, m, Due
    <2>3. Due \subseteq Completed(file) \ Messaged(file)
        BY <1>5, <2>0, <2>2
    <2>4. /\ file' \o recovery' = file' /\ Paired(file')
          /\ Asked(file') = Asked(file) /\ Messaged(file') = Messaged(file) \cup Due
        BY <1>2, <2>0, <2>1, <2>2, <2>3
    <2>5. Asked(file') \subseteq Messaged(file')
        BY <1>5, <2>0, <2>4
    <2> QED BY <2>2, <2>4, <2>5 DEF PairInv
<1>10. CASE TakeSnapshot
    <2> DEFINE x == [type |-> "snapshot", state |-> live, lastSeq |-> Len(file)]
    <2>1. /\ pc = "ready" /\ pc' = pc /\ recovery' = recovery /\ Persist(<<x>>, TRUE)
        BY <1>10 DEF TakeSnapshot
    <2>2. x \in Fact /\ x.type = "snapshot"
        BY <1>1, <2>1 DEF Fact
    <2> HIDE DEF x
    <2>3. file' \o recovery' = file' /\ file' = Append(file, x)
        BY <2>1, <2>2, OneFact
    <2>4. /\ Completed(Append(file, x)) = Completed(file)
          /\ Asked(Append(file, x)) = Asked(file) /\ Messaged(Append(file, x)) = Messaged(file)
        BY <1>1, <2>1, <2>2, FoundMore
    <2>5. Reduce(live, x) = live
        BY <1>1, <2>1, <2>2, CallEffect
    <2>6. Matched(Append(file, x), Reduce(ReduceAll(Empty, file), x))
        BY <1>1, <2>1, <2>4, <2>5 DEF Matched
    <2>7. Paired(Append(file, x))
        BY <1>1, <2>1, <2>2, <2>6, PairedGrows
    <2>8. Asked(file) \subseteq Messaged(file)
        BY <1>1, <2>1 DEF PairInv
    <2> QED BY <2>1, <2>3, <2>4, <2>7, <2>8 DEF PairInv
<1>11. ASSUME NEW force \in BOOLEAN, NEW answered \in BOOLEAN, PrepareContext(force, answered)
       PROVE  PairInv'
    <2>1. pc = "ready" /\ pc' = pc /\ recovery' = recovery
        BY <1>11 DEF PrepareContext
    <2>2. PICK summarises \in BOOLEAN :
            /\ summarises => AutoCleared(MicroMessages(live.messages)) # {}
            /\ file' = file \o PreparedFacts(live.messages, summarises)
        BY <1>11, PrepareKeeps
    <2> DEFINE b == PreparedFacts(live.messages, summarises)
    <2>3. b \in Seq(Quiet)
        BY <1>0, <1>1, <2>1, <2>2, PreparedQuiet
    <2> HIDE DEF b
    <2>4. Asked(file) \subseteq Messaged(file)
        BY <1>1, <2>1 DEF PairInv
    <2>5. /\ Paired(file \o b)
          /\ Asked(file \o b) = Asked(file) /\ Messaged(file \o b) = Messaged(file)
        BY <1>1, <2>1, <2>3, <2>4, QuietFacts
    <2>6. b \in Seq(Fact)
        BY <2>3 DEF Quiet
    <2>7. file' \o recovery' = file \o b
        BY <1>1, <2>1, <2>2, <2>6 DEF b
    <2> QED BY <2>1, <2>4, <2>5, <2>7 DEF PairInv
<1>12. CASE Crash
    <2>1. PICK k \in durable..Len(file) :
            file' \o recovery' = SubSeq(file \o recovery, 1, k) /\ k <= Len(file \o recovery)
        BY <1>12, CrashKeeps
    <2>2. /\ file \o recovery \in Seq(Fact) /\ durable \in Nat /\ Len(file) \in Nat
          /\ Len(file \o recovery) \in Nat
        BY DEF LogInv
    <2>3. k \in 0..Len(file \o recovery)
        BY <2>1, <2>2
    <2>4. Paired(file' \o recovery')
        BY <2>1, <2>2, <2>3, PairedPrefix DEF PairInv
    <2>5. pc' = "down"
        BY <1>12 DEF Crash
    <2> QED BY <2>4, <2>5 DEF PairInv
<1>13. CASE Resume
    <2>1. /\ recovery = <<>> /\ Sound(file, nextId)
        BY <1>13, ResumeKeeps
    <2>2. PICK open \in SetToSeqs(OpenCalls(file)) :
            recovery' = RecoveryFacts(file, ReduceAll(Empty, file), open)
        BY <1>13, ResumeKeeps
    <2>3. file' = file /\ pc' = "recovering"
        BY <1>13 DEF Resume
    <2>4. Lawful(file) /\ Paired(file)
        <3>1. file \o recovery = file
            BY <2>1 DEF LogInv
        <3> QED BY <3>1 DEF CallInv, PairInv
    <2>5. /\ Paired(file' \o recovery')
          /\ Asked(file' \o recovery') \subseteq Messaged(file' \o recovery')
        BY <1>0, <2>1, <2>2, <2>3, <2>4, RecoveryEnds
    <2> QED BY <2>3, <2>5 DEF PairInv
<1>14. CASE AppendRecovery
    <2>1. file' \o recovery' = file \o recovery
        BY <1>14, AppendKeeps
    <2>2. pc = "recovering" /\ pc' \in {"ready", "recovering"}
        BY <1>14 DEF AppendRecovery
    <2> QED BY <2>1, <2>2 DEF PairInv
<1> QED BY <1>3, <1>4, <1>7, <1>8, <1>9, <1>10, <1>11, <1>12, <1>13, <1>14 DEF Next

(* Where the gateway names its calls, each request of a call has exactly    *)
(* one answer whenever a request may go out, over any compactions, crashes  *)
(* and interrupted recoveries (session/SessionLoader.ts, app/createRuntime.ts). *)
THEOREM CallsAreAnswered ==
    ASSUME ~ Reissue
    PROVE  Spec => []EveryCallAnswered
<1>1. Init => CallInv /\ PairInv
    <2> SUFFICES ASSUME Init
                 PROVE  CallInv /\ PairInv
        OBVIOUS
    <2>1. /\ file \o recovery = <<>> /\ <<>> \in Seq(Fact) /\ Len(<<>>) = 0
          /\ live = Empty /\ pc = "ready"
        BY DEF Init
    <2>2. Lawful(<<>>)
        BY <2>1 DEF Lawful
    <2>3. Matched(<<>>, Empty)
        BY NoFacts DEF Matched, Empty, Requested
    <2>4. At(<<>>, 0) = Empty /\ SubSeq(<<>>, 1, 0) = <<>>
      <3>1. At(<<>>, 0) = Empty
          BY <2>1, AtSteps
      <3>2. SubSeq(<<>>, 1, 0) = <<>>
          OBVIOUS
      <3> QED BY <3>1, <3>2
    <2>5. Once(<<>>)
        BY DEF Once, CallFacts
    <2>6. Paired(<<>>)
        <3>1. \A i \in 0..0 : i = 0
            OBVIOUS
        <3> QED BY <2>1, <2>3, <2>4, <2>5, <3>1 DEF Paired
    <2>7. live.pending = {}
        BY <2>1 DEF Empty
    <2> QED BY <2>1, <2>2, <2>6, <2>7, NoFacts DEF CallInv, PairInv
<1>2. TypeOK /\ LogInv /\ CallInv /\ PairInv /\ [Next]_vars => (CallInv /\ PairInv)'
    <2>1. UNCHANGED vars /\ CallInv /\ PairInv => (CallInv /\ PairInv)'
        BY DEF vars, CallInv, PairInv, Due
    <2> QED BY <2>1, StepCalls, StepPairs
<1>3. TypeOK /\ LogInv /\ PairInv => EveryCallAnswered
    <2> SUFFICES ASSUME TypeOK, LogInv, PairInv, pc = "ready", NEW c \in Used
                 PROVE  LET Times(Calling(_)) ==
                                Cardinality({i \in CallFacts(file, "message") :
                                                c \in Calling(file[i].message)})
                        IN  Times(Answers) = Times(Requests)
        BY DEF EveryCallAnswered
    <2>1. file \in Seq(Fact) /\ file \o recovery = file
        BY Running
    <2>2. Once(file) /\ Asked(file) \subseteq Messaged(file) /\ c \in Asked(file)
        <3>1. c \in Asked(file)
            BY DEF Used, Asked, CallFacts
        <3> QED BY <2>1, <3>1, PairedEnd DEF PairInv
    <2> DEFINE I == CallFacts(file, "message")
    <2>3. PICK i \in I : c \in Requests(file[i].message)
        BY <2>2 DEF Asked
    <2>4. PICK j \in I : c \in Answers(file[j].message)
        BY <2>2 DEF Messaged
    <2>5. {k \in I : c \in Requests(file[k].message)} = {i}
        BY <2>2, <2>3 DEF Once
    <2>6. {k \in I : c \in Answers(file[k].message)} = {j}
        BY <2>2, <2>4 DEF Once
    <2>7. Cardinality({i}) = 1 /\ Cardinality({j}) = 1
        BY FS_Singleton
    <2> HIDE DEF I
    <2> QED BY <2>5, <2>6, <2>7 DEF I
<1> QED BY <1>1, <1>2, <1>3, LogHolds, PTL DEF Spec
=============================================================================
