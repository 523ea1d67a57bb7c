--------------------------- MODULE Viewers_proofs ---------------------------
(***************************************************************************)
(* Proofs about the viewers and about the reading progress they store, for *)
(* any book, any layouts and any bounds.                                   *)
(*                                                                         *)
(* 1. Pages.  Paginate and Top are recursive functions; that each is what  *)
(*    its equation says is proved of paths, the sequences of places that   *)
(*    lead from one argument to the last (Defined, Unfolded).  The pages   *)
(*    of a chapter are then such a path, each beginning where the one      *)
(*    before ends (PaginateIs), and its lines are cut up among them        *)
(*    (PagesAreTheChapter).                                                *)
(* 2. The EPUB viewer.  What is shown begins or ends at a block that is    *)
(*    sought, be it on the page, deferred until there are pages, or noted  *)
(*    as a chapter and a path until there are blocks (EpubInv).            *)
(* 3. The MuPDF viewer.  What its threads have still to say fits what it   *)
(*    knows of the pages, and each page that is shown has a picture or has *)
(*    asked for it (PdfInv).                                               *)
(* 4. Steps of both.  Turning follows from how pages follow each other     *)
(*    (PagesFollow), and closing from how a position is looked up          *)
(*    (ClosedAt).                                                          *)
(* 5. ReadingProgress, whose viewers these are.                            *)
(***************************************************************************)
EXTENDS Viewers, ReadingProgress, FiniteSetTheorems, TLAPS


\* A set of numbers with 0 and with the successor of each is the set of all: if n
\* were missing, adding 1 would map those before n into themselves without 0.
LEMMA NatSet ==
  ASSUME NEW P \in SUBSET Nat, 0 \in P, \A n \in P : n + 1 \in P
  PROVE  P = Nat
<1>1. SUFFICES ASSUME NEW n \in Nat, n \notin P PROVE FALSE
  OBVIOUS
<1> DEFINE Q == P \cap (0..n)
<1> DEFINE f == [x \in Q |-> x + 1]
<1>2. IsFiniteSet(Q) /\ 0 \in Q
  <2>1. IsFiniteSet(0..n)
    BY FS_Interval
  <2>2. Q \in SUBSET (0..n)
    OBVIOUS
  <2>3. IsFiniteSet(Q)
    <3> HIDE DEF Q
    <3> QED BY <2>1, <2>2, FS_Subset
  <2> QED BY <2>3
<1>4. f \in [Q -> Q \ {0}]
  BY <1>1
<1>5. \A x, y \in Q : f[x] = f[y] => x = y
  OBVIOUS
<1> HIDE DEF Q, f
<1>3. IsFiniteSet(Q \ {0}) /\ Cardinality(Q \ {0}) < Cardinality(Q)
  <2>1. IsFiniteSet(Q \ {0}) /\ Cardinality(Q \ {0}) = Cardinality(Q) - 1
    BY <1>2, FS_RemoveElement
  <2>2. Cardinality(Q) \in Nat
    BY <1>2, FS_CardinalityType
  <2> QED BY <2>1, <2>2
<1>6. \E x, y \in Q : x # y /\ f[x] = f[y]
  BY <1>2, <1>3, <1>4, FS_PigeonHole
<1> QED BY <1>5, <1>6

\* Two numbers at a time: what holds of a number when it holds of all before it.
LEMMA NatSetStrong ==
  ASSUME NEW P \in SUBSET Nat, \A n \in Nat : (\A m \in Nat : m < n => m \in P) => n \in P
  PROVE  P = Nat
<1> DEFINE Q == {n \in Nat : \A m \in Nat : m <= n => m \in P}
<1>1. 0 \in Q
  OBVIOUS
<1>2. ASSUME NEW n \in Q PROVE n + 1 \in Q
  <2>1. \A m \in Nat : m < n + 1 => m \in P
    OBVIOUS
  <2>2. n + 1 \in P
    BY <2>1
  <2> QED BY <2>1, <2>2
<1>3. Q = Nat
  <2> HIDE DEF Q
  <2>1. Q \in SUBSET Nat
    BY DEF Q
  <2> QED BY <1>1, <1>2, <2>1, NatSet
<1>4. \A n \in Nat : n \in Q => n \in P
  OBVIOUS
<1> QED BY <1>3, <1>4

\* A set of integers between two bounds has a largest and a smallest.
LEMMA HasMin ==
  ASSUME NEW S \in SUBSET Int, S # {}, NEW a \in Int, \A x \in S : a <= x
  PROVE  /\ Min(S) \in S /\ \A x \in S : Min(S) <= x
<1> SUFFICES \E x \in S : \A y \in S : x <= y
  BY Zenon DEF Min
<1>1. SUFFICES ASSUME \A x \in S : \E y \in S : y < x PROVE FALSE
  OBVIOUS
<1> DEFINE P == {n \in Nat : a + n \notin S}
<1>2. ASSUME NEW n \in Nat, \A m \in Nat : m < n => m \in P PROVE n \in P
  <2>1. SUFFICES ASSUME a + n \in S PROVE FALSE
    OBVIOUS
  <2>2. PICK y \in S : y < a + n
    BY <1>1, <2>1
  <2>3. y - a \in Nat /\ y - a < n /\ a + (y - a) = y
    BY <2>2
  <2> QED BY <1>2, <2>3
<1>3. P = Nat
  <2> HIDE DEF P
  <2>1. P \in SUBSET Nat BY DEF P
  <2> QED BY <1>2, <2>1, NatSetStrong
<1>4. PICK x \in S : TRUE
  OBVIOUS
<1>5. x - a \in Nat /\ a + (x - a) = x
  BY <1>4
<1> QED BY <1>3, <1>4, <1>5

\* So has a set of numbers with a bound a greatest member.
LEMMA HasMax ==
  ASSUME NEW S \in SUBSET Int, S # {}, NEW a \in Int, \A x \in S : x <= a
  PROVE  /\ Max(S) \in S /\ \A x \in S : x <= Max(S)
<1> SUFFICES \E x \in S : \A y \in S : x >= y
  BY DEF Max
<1> DEFINE T == {-x : x \in S}
<1>1. T \in SUBSET Int /\ T # {} /\ -a \in Int /\ \A x \in T : -a <= x
  <2>1. \A x \in S : -x \in Int /\ -a <= -x
    OBVIOUS
  <2>2. T # {}
    BY <2>1
  <2>3. T \in SUBSET Int /\ -a \in Int /\ \A x \in T : -a <= x
    BY <2>1
  <2> QED BY <2>2, <2>3
<1>2. Min(T) \in T /\ \A x \in T : Min(T) <= x
  <2> HIDE DEF T
  <2> QED BY <1>1, HasMin
<1>3. PICK x \in S : Min(T) = -x
  BY <1>2
<1>4. \A y \in S : -x <= -y
  BY <1>2, <1>3
<1> QED BY <1>4

-----------------------------------------------------------------------------
\* What a recursion goes through from path[1]: it goes on while it is in More.
IsPath(path, D, More, next) ==
    /\ path \in Seq(D) /\ path # << >>
    /\ \A k \in 1..(Len(path) - 1) : path[k] \in More /\ path[k + 1] = next[path[k]]
    /\ path[Len(path)] \notin More

\* The values of page on the way.
PagesOn(path, page) == [k \in 1..(Len(path) - 1) |-> page[path[k]]]

\* The recursion that collects them.
Recursion(f, D, More, page, next) ==
    f = [d \in D |-> IF d \in More THEN Cons(page[d], f[next[d]]) ELSE << >>]

\* One step before a path.
Longer(d, path) == <<d>> \o path

\* A path with one more step before it is a path.
LEMMA LongerPath ==
  ASSUME NEW D, NEW More \in SUBSET D, NEW page, NEW next, NEW d \in More, NEW path, IsPath(path, D, More, next), path[1] = next[d]
  PROVE  /\ IsPath(Longer(d, path), D, More, next) /\ Longer(d, path)[1] = d
         /\ PagesOn(Longer(d, path), page) = Cons(page[d], PagesOn(path, page))
<1> DEFINE q == Longer(d, path)
<1>1. path \in Seq(D) /\ Len(path) \in Nat \ {0}
  BY DEF IsPath
<1>2. /\ q \in Seq(D) /\ Len(q) = Len(path) + 1 /\ q[1] = d
      /\ \A k \in 1..Len(path) : q[k + 1] = path[k]
  BY <1>1 DEF Longer
<1>3. ASSUME NEW k \in 1..(Len(q) - 1) PROVE q[k] \in More /\ q[k + 1] = next[q[k]]
  <2>1. CASE k = 1
    BY <1>1, <1>2, <2>1
  <2>2. CASE k # 1
    <3>1. k - 1 \in 1..(Len(path) - 1) /\ (k - 1) + 1 = k
      BY <1>1, <1>2, <2>2
    <3>2. q[k] = path[k - 1] /\ q[k + 1] = path[k]
      BY <1>1, <1>2, <3>1
    <3> QED BY <3>1, <3>2 DEF IsPath
  <2> QED BY <2>1, <2>2
<1>4. q[Len(q)] \notin More
  BY <1>1, <1>2 DEF IsPath
<1>5. PagesOn(q, page) = Cons(page[d], PagesOn(path, page))
  <2>1. Len(path) - 1 \in Nat
    BY <1>1
  <2>2. PagesOn(path, page) \in Seq({page[x] : x \in D}) /\ Len(PagesOn(path, page)) = Len(path) - 1
    <3>1. \A k \in 1..(Len(path) - 1) : path[k] \in D
      BY <1>1
    <3> QED BY <2>1, <3>1 DEF PagesOn
  <2>3. /\ Cons(page[d], PagesOn(path, page)) \in Seq({page[x] : x \in D})
        /\ Len(Cons(page[d], PagesOn(path, page))) = Len(path)
        /\ Cons(page[d], PagesOn(path, page))[1] = page[d]
        /\ \A k \in 1..(Len(path) - 1) :
              Cons(page[d], PagesOn(path, page))[k + 1] = PagesOn(path, page)[k]
    BY <2>1, <2>2 DEF Cons
  <2>4. /\ PagesOn(q, page) \in Seq({page[x] : x \in D}) /\ Len(PagesOn(q, page)) = Len(path)
    <3>1. \A k \in 1..Len(path) : q[k] \in D
      BY <1>1, <1>2
    <3> QED BY <1>1, <1>2, <3>1 DEF PagesOn
  <2>5. ASSUME NEW k \in 1..Len(path)
        PROVE  PagesOn(q, page)[k] = Cons(page[d], PagesOn(path, page))[k]
    <3>1. PagesOn(q, page)[k] = page[q[k]]
      BY <1>1, <1>2 DEF PagesOn
    <3>2. CASE k = 1
      BY <1>2, <2>3, <3>1, <3>2
    <3>3. CASE k # 1
      <4>1. k - 1 \in 1..(Len(path) - 1) /\ (k - 1) + 1 = k /\ k - 1 \in 1..Len(path)
        BY <1>1, <3>3
      <4>2. PagesOn(path, page)[k - 1] = page[path[k - 1]]
        BY <4>1 DEF PagesOn
      <4>3. q[k] = path[k - 1]
        BY <1>2, <4>1
      <4> QED BY <2>3, <3>1, <4>1, <4>2, <4>3
    <3> QED BY <3>2, <3>3
  <2> HIDE DEF q
  <2> QED BY <1>1, <2>3, <2>4, <2>5
<1>6. IsPath(q, D, More, next)
  <2> HIDE DEF q
  <2> QED BY <1>1, <1>2, <1>3, <1>4 DEF IsPath
<1> QED BY <1>2, <1>5, <1>6

\* A recursion that descends comes to an end.
LEMMA PathExists ==
  ASSUME NEW D, NEW More \in SUBSET D, NEW next, NEW rank,
         \A d \in D : rank[d] \in Nat, \A d \in More : next[d] \in D /\ rank[next[d]] < rank[d]
  PROVE  \A d \in D : \E path : IsPath(path, D, More, next) /\ path[1] = d
<1> DEFINE P == {n \in Nat : \A d \in D : rank[d] = n =>
                    \E path : IsPath(path, D, More, next) /\ path[1] = d}
<1>1. ASSUME NEW n \in Nat, \A m \in Nat : m < n => m \in P PROVE n \in P
  <2>1. SUFFICES ASSUME NEW d \in D, rank[d] = n
                 PROVE  \E path : IsPath(path, D, More, next) /\ path[1] = d
    OBVIOUS
  <2>2. CASE d \notin More
    <3>1. <<d>> \in Seq(D) /\ Len(<<d>>) = 1 /\ <<d>>[1] = d
      OBVIOUS
    <3>2. IsPath(<<d>>, D, More, next)
      BY <2>2, <3>1 DEF IsPath
    <3> QED BY <3>1, <3>2
  <2>3. CASE d \in More
    <3>1. next[d] \in D /\ rank[next[d]] \in Nat /\ rank[next[d]] < n
      BY <2>1, <2>3
    <3>2. PICK path : IsPath(path, D, More, next) /\ path[1] = next[d]
      BY <1>1, <3>1
    <3>3. IsPath(Longer(d, path), D, More, next) /\ Longer(d, path)[1] = d
      BY <2>3, <3>2, LongerPath
    <3> QED BY <3>3
  <2> QED BY <2>2, <2>3
<1>2. P = Nat
  <2> HIDE DEF P
  <2>1. P \in SUBSET Nat BY DEF P
  <2> QED BY <1>1, <2>1, NatSetStrong
<1> QED BY <1>2

\* Two paths from one place go the same way, and end together.
LEMMA SameWay ==
  ASSUME NEW D, NEW More, NEW next, NEW p, IsPath(p, D, More, next),
         NEW q, IsPath(q, D, More, next), p[1] = q[1]
  PROVE  \A k \in 1..Len(p) : k <= Len(q) /\ p[k] = q[k]
<1> DEFINE P == {n \in Nat : n + 1 <= Len(p) => n + 1 <= Len(q) /\ p[n + 1] = q[n + 1]}
<1>1. Len(p) \in Nat \ {0} /\ Len(q) \in Nat \ {0}
  BY DEF IsPath
<1>2. 0 \in P
  BY <1>1
<1>3. ASSUME NEW n \in P PROVE n + 1 \in P
  <2>1. SUFFICES ASSUME n + 2 <= Len(p)
                 PROVE  n + 2 <= Len(q) /\ p[n + 2] = q[n + 2]
    BY <1>1
  <2>2. n \in Nat /\ n + 1 \in 1..(Len(p) - 1) /\ n + 1 <= Len(q) /\ p[n + 1] = q[n + 1]
    BY <1>1, <2>1
  <2>3. p[n + 1] \in More /\ p[(n + 1) + 1] = next[p[n + 1]]
    BY <2>2 DEF IsPath
  <2>4. n + 1 # Len(q)
    BY <2>2, <2>3 DEF IsPath
  <2>5. n + 1 \in 1..(Len(q) - 1) /\ (n + 1) + 1 = n + 2
    BY <1>1, <2>2, <2>4
  <2>6. q[(n + 1) + 1] = next[q[n + 1]]
    BY <2>5 DEF IsPath
  <2> QED BY <1>1, <2>2, <2>3, <2>5, <2>6
<1>4. P = Nat
  <2> HIDE DEF P
  <2>1. P \in SUBSET Nat BY DEF P
  <2> QED BY <1>2, <1>3, <2>1, NatSet
<1>5. ASSUME NEW k \in 1..Len(p) PROVE k <= Len(q) /\ p[k] = q[k]
  <2>1. k - 1 \in Nat /\ (k - 1) + 1 = k
    BY <1>1
  <2>2. k - 1 \in P
    BY <1>4, <2>1
  <2> QED BY <1>1, <2>1, <2>2
<1> QED BY <1>5

\* There is one path from a place.
LEMMA OnePath ==
  ASSUME NEW D, NEW More, NEW next, NEW p, IsPath(p, D, More, next),
         NEW q, IsPath(q, D, More, next), p[1] = q[1]
  PROVE  p = q
<1>1. p \in Seq(D) /\ q \in Seq(D) /\ Len(p) \in Nat \ {0} /\ Len(q) \in Nat \ {0}
  BY DEF IsPath
<1>2. \A k \in 1..Len(p) : k <= Len(q) /\ p[k] = q[k]
  BY SameWay
<1>3. \A k \in 1..Len(q) : k <= Len(p) /\ p[k] = q[k]
  BY SameWay
<1>4. Len(p) = Len(q)
  BY <1>1, <1>2, <1>3
<1> QED BY <1>1, <1>2, <1>4

\* A function that calls itself with a lower rank exists.
LEMMA Defined ==
  ASSUME NEW D, NEW More \in SUBSET D, NEW page, NEW next, NEW rank,
         \A d \in D : rank[d] \in Nat, \A d \in More : next[d] \in D /\ rank[next[d]] < rank[d]
  PROVE  \E f : Recursion(f, D, More, page, next)
<1> DEFINE path == [d \in D |-> CHOOSE p : IsPath(p, D, More, next) /\ p[1] = d]
<1> DEFINE f == [d \in D |-> PagesOn(path[d], page)]
<1>1. \A d \in D : IsPath(path[d], D, More, next) /\ path[d][1] = d
  <2>1. \A d \in D : \E p : IsPath(p, D, More, next) /\ p[1] = d
    BY PathExists
  <2> QED BY <2>1, Zenon
<1> HIDE DEF path
<1>2. ASSUME NEW d \in More PROVE f[d] = Cons(page[d], f[next[d]])
  <2>1. next[d] \in D /\ d \in D
    OBVIOUS
  <2> DEFINE q == Longer(d, path[next[d]])
  <2>2. /\ IsPath(q, D, More, next) /\ q[1] = d
        /\ PagesOn(q, page) = Cons(page[d], PagesOn(path[next[d]], page))
    <3>1. IsPath(path[next[d]], D, More, next) /\ path[next[d]][1] = next[d]
      BY <1>1, <2>1
    <3> QED BY <3>1, LongerPath
  <2>3. path[d] = q
    <3> QED BY <1>1, <2>1, <2>2, OnePath
  <2> QED BY <2>1, <2>2, <2>3
<1>3. ASSUME NEW d \in D, d \notin More PROVE f[d] = << >>
  <2>1. /\ path[d] \in Seq(D) /\ Len(path[d]) \in Nat \ {0}
        /\ \A k \in 1..(Len(path[d]) - 1) : path[d][k] \in More
        /\ path[d][1] = d
    <3> HIDE DEF f
    <3>1. IsPath(path[d], D, More, next) /\ path[d][1] = d
      BY <1>1
    <3> DEFINE p == path[d]
    <3>2. p \in Seq(D) /\ p # << >> => Len(p) \in Nat \ {0}
      OBVIOUS
    <3> QED BY <3>1, <3>2 DEF IsPath
  <2>2. Len(path[d]) = 1
    <3> HIDE DEF f
    <3>1. Len(path[d]) # 1 => 1 \in 1..(Len(path[d]) - 1)
      <4>1. \A n \in Nat \ {0} : n # 1 => 1 \in 1..(n - 1)
        OBVIOUS
      <4> QED BY <2>1, <4>1
    <3> QED BY <1>3, <2>1, <3>1
  <2>3. f[d] = PagesOn(path[d], page)
    OBVIOUS
  <2> HIDE DEF f
  <2>4. PagesOn(path[d], page) = [k \in 1..0 |-> page[path[d][k]]]
    BY <2>2 DEF PagesOn
  <2> QED BY <2>3, <2>4
<1>4. f = [d \in D |-> IF d \in More THEN Cons(page[d], f[next[d]]) ELSE << >>]
  <2> DEFINE g == [d \in D |-> IF d \in More THEN Cons(page[d], f[next[d]]) ELSE << >>]
  <2>1. \A d \in D : f[d] = g[d]
    <3> HIDE DEF f
    <3> QED BY <1>2, <1>3
  <2> HIDE DEF PagesOn
  <2> QED BY <2>1
<1> QED BY <1>4 DEF Recursion

\* What such a function is: the pages on the way.
LEMMA Unfolded ==
  ASSUME NEW D, NEW More \in SUBSET D, NEW page, NEW next, NEW rank,
         \A d \in D : rank[d] \in Nat, \A d \in More : next[d] \in D /\ rank[next[d]] < rank[d],
         NEW f, Recursion(f, D, More, page, next)
  PROVE  \A d \in D : \E path : /\ IsPath(path, D, More, next) /\ path[1] = d
                                /\ f[d] = PagesOn(path, page)
<1> DEFINE P == {n \in Nat : \A d \in D : rank[d] = n =>
                    \E path : IsPath(path, D, More, next) /\ path[1] = d /\ f[d] = PagesOn(path, page)}
<1>1. ASSUME NEW n \in Nat, \A m \in Nat : m < n => m \in P PROVE n \in P
  <2>1. SUFFICES ASSUME NEW d \in D, rank[d] = n
                 PROVE  \E path : IsPath(path, D, More, next) /\ path[1] = d /\ f[d] = PagesOn(path, page)
    OBVIOUS
  <2>2. CASE d \notin More
    <3>1. <<d>> \in Seq(D) /\ Len(<<d>>) = 1 /\ <<d>>[1] = d
      OBVIOUS
    <3>2. IsPath(<<d>>, D, More, next)
      BY <2>2, <3>1 DEF IsPath
    <3>3. PagesOn(<<d>>, page) = << >>
      BY <3>1 DEF PagesOn
    <3>4. f[d] = << >>
      BY <2>2 DEF Recursion
    <3> QED BY <3>1, <3>2, <3>3, <3>4
  <2>3. CASE d \in More
    <3>1. next[d] \in D /\ rank[next[d]] \in Nat /\ rank[next[d]] < n
      BY <2>1, <2>3
    <3>2. PICK path : IsPath(path, D, More, next) /\ path[1] = next[d] /\ f[next[d]] = PagesOn(path, page)
      BY <1>1, <3>1
    <3>3. f[d] = Cons(page[d], f[next[d]])
      BY <2>3 DEF Recursion
    <3>4. /\ IsPath(Longer(d, path), D, More, next) /\ Longer(d, path)[1] = d
          /\ PagesOn(Longer(d, path), page) = Cons(page[d], PagesOn(path, page))
      BY <2>3, <3>2, LongerPath
    <3> QED BY <3>2, <3>3, <3>4
  <2> QED BY <2>2, <2>3
<1>2. P = Nat
  <2> HIDE DEF P
  <2>1. P \in SUBSET Nat BY DEF P
  <2> QED BY <1>1, <2>1, NatSetStrong
<1> QED BY <1>2

\* A block's height is a number.
LEMMA HeightIs ==
  ASSUME NEW b \in Block, NEW w \in Nat \ {0}
  PROVE  Height(b, w) \in Nat /\ (Height(b, w) = 0 <=> b.lines = 0)
<1>1. b.lines \in Nat
  BY DEF Block
<1>2. \A m \in Nat : m * w \in Nat /\ (m * w = 0 <=> m = 0)
  OBVIOUS
<1> QED BY <1>1, <1>2 DEF Height

\* Sums exist.
LEMMA SumDefined ==
  ASSUME NEW n \in Nat, NEW h, \A j \in 1..n : h[j] \in Nat
  PROVE  \E t \in [1..(n + 1) -> Nat] : t[1] = 0 /\ \A j \in 1..n : t[j + 1] = t[j] + h[j]
<1> DEFINE P == {m \in Nat : m <= n =>
                  \E t \in [1..(m + 1) -> Nat] : t[1] = 0 /\ \A j \in 1..m : t[j + 1] = t[j] + h[j]}
<1>1. 0 \in P
  <2> DEFINE t == [j \in 1..1 |-> 0]
  <2>1. t \in [1..(0 + 1) -> Nat] /\ t[1] = 0 /\ \A j \in 1..0 : t[j + 1] = t[j] + h[j]
    OBVIOUS
  <2> QED BY <2>1
<1>2. ASSUME NEW m \in P PROVE m + 1 \in P
  <2>1. m \in Nat /\ m + 1 \in Nat
    OBVIOUS
  <2>2. SUFFICES ASSUME m + 1 <= n
                 PROVE  \E t \in [1..((m + 1) + 1) -> Nat] :
                           t[1] = 0 /\ \A j \in 1..(m + 1) : t[j + 1] = t[j] + h[j]
    BY <2>1
  <2>3. PICK t \in [1..(m + 1) -> Nat] : t[1] = 0 /\ \A j \in 1..m : t[j + 1] = t[j] + h[j]
    BY <2>1, <2>2
  <2>4. h[m + 1] \in Nat /\ t[m + 1] \in Nat
    BY <2>1, <2>2
  <2> DEFINE u == [j \in 1..((m + 1) + 1) |-> IF j <= m + 1 THEN t[j] ELSE t[m + 1] + h[m + 1]]
  <2>5. u \in [1..((m + 1) + 1) -> Nat]
    BY <2>1, <2>4
  <2>6. u[1] = 0
    BY <2>1, <2>3
  <2>7. ASSUME NEW j \in 1..(m + 1) PROVE u[j + 1] = u[j] + h[j]
    <3>1. CASE j = m + 1
      BY <2>1, <3>1
    <3>2. CASE j # m + 1
      <4>1. j \in 1..m /\ j + 1 <= m + 1 /\ j <= m + 1 /\ j + 1 \in 1..((m + 1) + 1)
        BY <2>1, <3>2
      <4> QED BY <2>3, <4>1
    <3> QED BY <3>1, <3>2
  <2> HIDE DEF u
  <2> QED BY <2>5, <2>6, <2>7
<1>3. P = Nat
  <2> HIDE DEF P
  <2>1. P \in SUBSET Nat BY DEF P
  <2> QED BY <1>1, <1>2, <2>1, NatSet
<1>4. n \in P
  <2> HIDE DEF P
  <2> QED BY <1>3
<1> QED BY <1>4

\* A chapter, and where its blocks begin.
IsChapter(blocks, l) == blocks \in Seq(Block) /\ blocks # << >> /\ l \in Layout

\* What the type of a chapter gives.
LEMMA ChapterIs ==
  ASSUME NEW blocks, NEW l, IsChapter(blocks, l)
  PROVE  /\ Len(blocks) \in Nat /\ 1 <= Len(blocks)
         /\ l.height \in Nat /\ 1 <= l.height /\ l.wrap \in Nat \ {0} /\ l.step \in {1, 2}
         /\ \A i \in 1..Len(blocks) : /\ blocks[i] \in Block /\ blocks[i].splits \in BOOLEAN
                                      /\ blocks[i].lines \in Nat /\ blocks[i].node \in Nat
                                      /\ Height(blocks[i], l.wrap) \in Nat
                                      /\ Height(blocks[i], l.wrap) = 0 <=> blocks[i].lines = 0
<1>1. blocks \in Seq(Block) /\ blocks # << >> /\ l \in Layout
  BY DEF IsChapter
<1>2. Len(blocks) \in Nat /\ Len(blocks) # 0 /\ \A i \in 1..Len(blocks) : blocks[i] \in Block
  BY <1>1
<1>3. l.height \in Nat /\ 1 <= l.height /\ l.wrap \in Nat \ {0} /\ l.step \in {1, 2}
  BY <1>1 DEF Layout
<1>4. \A b \in Block : b.splits \in BOOLEAN /\ b.lines \in Nat /\ b.node \in Nat
  BY DEF Block
<1>5. \A n \in Nat : n # 0 => 1 <= n
  OBVIOUS
<1>6. \A b \in Block : Height(b, l.wrap) \in Nat /\ (Height(b, l.wrap) = 0 <=> b.lines = 0)
  BY <1>3, HeightIs
<1> QED BY <1>2, <1>3, <1>4, <1>5, <1>6

\* A block begins where the one before it ends, and a gap further.
LEMMA TopIs ==
  ASSUME NEW blocks \in Seq(Block), NEW w \in Nat \ {0}
  PROVE  /\ Top(blocks, w, 1) = 0
         /\ \A i \in 1..(Len(blocks) + 1) : Top(blocks, w, i) \in Nat
         /\ \A i \in 1..Len(blocks) :
               Top(blocks, w, i + 1) = Top(blocks, w, i) + Height(blocks[i], w) + Gap
<1> DEFINE N == Len(blocks)
<1> DEFINE h == [j \in 1..N |-> Height(blocks[j], w) + Gap]
<1> DEFINE IsTop(t) == t = [j \in 1..(N + 1) |->
                               IF j = 1 THEN 0 ELSE t[j - 1] + Height(blocks[j - 1], w) + Gap]
<1>1. N \in Nat
  OBVIOUS
<1>2. \A j \in 1..N : Height(blocks[j], w) \in Nat
  BY HeightIs
<1>3. \A j \in 1..N : h[j] \in Nat /\ h[j] = Height(blocks[j], w) + Gap
  BY <1>2, GapAssumption
<1>4. PICK t \in [1..(N + 1) -> Nat] : t[1] = 0 /\ \A j \in 1..N : t[j + 1] = t[j] + h[j]
  <2> HIDE DEF h, N
  <2> QED BY <1>1, <1>3, SumDefined
<1>5. IsTop(t)
  <2>1. ASSUME NEW j \in 1..(N + 1)
        PROVE  t[j] = IF j = 1 THEN 0 ELSE t[j - 1] + Height(blocks[j - 1], w) + Gap
    <3> HIDE DEF h, N
    <3>1. CASE j = 1
      BY <1>4, <3>1
    <3>2. CASE j # 1
      <4>1. j - 1 \in 1..N /\ (j - 1) + 1 = j
        BY <1>1, <3>2
      <4>2. t[j] = t[j - 1] + h[j - 1]
        BY <1>4, <4>1
      <4>3. t[j - 1] \in Nat
        BY <1>1, <1>4, <4>1
      <4> QED BY <1>2, <1>3, <3>2, <4>1, <4>2, <4>3, GapAssumption
    <3> QED BY <3>1, <3>2
  <2> HIDE DEF h, N
  <2> QED BY <1>1, <2>1
<1>6. PICK top : IsTop(top) /\ \A i : Top(blocks, w, i) = top[i]
  <2> DEFINE top == CHOOSE x : IsTop(x)
  <2>1. \A i : Top(blocks, w, i) = top[i]
    BY DEF Top
  <2>2. IsTop(top)
    <3> HIDE DEF IsTop
    <3> QED BY <1>5
  <2> HIDE DEF top
  <2> QED BY <2>1, <2>2
<1>7. top[1] = 0
  <2> HIDE DEF h, N
  <2> QED BY <1>1, <1>6
<1>8. \A i \in 1..N : top[i + 1] = top[i] + Height(blocks[i], w) + Gap
  <2> HIDE DEF h, N
  <2>1. \A i \in 1..N : i + 1 \in 1..(N + 1) /\ i + 1 # 1 /\ (i + 1) - 1 = i
    BY <1>1
  <2> QED BY <1>6, <2>1
<1>9. \A i \in 1..(N + 1) : top[i] \in Nat
  <2> DEFINE P == {m \in Nat : m <= N => top[m + 1] \in Nat}
  <2> HIDE DEF h, N, IsTop
  <2>1. 0 \in P
    BY <1>7
  <2>2. ASSUME NEW m \in P PROVE m + 1 \in P
    <3>1. m + 1 <= N => m + 1 \in 1..N /\ top[m + 1] \in Nat
      BY <1>1
    <3> QED BY <1>2, <1>8, <3>1, GapAssumption
  <2>3. P = Nat
    <3> HIDE DEF P
    <3>1. P \in SUBSET Nat BY DEF P
    <3> QED BY <2>1, <2>2, <3>1, NatSet
  <2>4. \A i \in 1..(N + 1) : i - 1 \in Nat /\ i - 1 <= N /\ (i - 1) + 1 = i
    BY <1>1
  <2>5. \A i \in 1..(N + 1) : i - 1 \in P
    BY <2>3, <2>4
  <2> QED BY <2>4, <2>5
<1> QED BY <1>6, <1>7, <1>8, <1>9

\* Later blocks begin behind an earlier one.
LEMMA TopGrows ==
  ASSUME NEW blocks \in Seq(Block), NEW w \in Nat \ {0}, NEW i \in 1..Len(blocks)
  PROVE  \A e \in (i + 1)..(Len(blocks) + 1) :
            Top(blocks, w, e) >= Top(blocks, w, i) + Height(blocks[i], w) + Gap
<1> DEFINE N == Len(blocks)
<1> DEFINE T(e) == Top(blocks, w, e)
<1> DEFINE H(e) == Height(blocks[e], w)
<1> DEFINE P == {m \in Nat : i + 1 + m <= N + 1 => T(i + 1 + m) >= T(i) + H(i) + Gap}
<1>1. N \in Nat /\ i \in Nat /\ i <= N
  OBVIOUS
<1>2. \A e \in 1..N : T(e + 1) = T(e) + H(e) + Gap
  BY TopIs
<1>3. \A e \in 1..(N + 1) : T(e) \in Nat
  BY TopIs
<1>4. \A e \in 1..N : H(e) \in Nat
  BY HeightIs
<1> HIDE DEF N, T, H
<1>5. 0 \in P
  BY <1>1, <1>2, <1>3, <1>4, GapAssumption
<1>6. ASSUME NEW m \in P PROVE m + 1 \in P
  <2>1. i + 1 + (m + 1) <= N + 1 => /\ i + 1 + m \in 1..N /\ i + 1 + m <= N + 1
                                    /\ (i + 1 + m) + 1 = i + 1 + (m + 1)
    BY <1>1
  <2> QED BY <1>1, <1>2, <1>3, <1>4, <2>1, GapAssumption
<1>7. P = Nat
  <2> HIDE DEF P
  <2>1. P \in SUBSET Nat BY DEF P
  <2> QED BY <1>5, <1>6, <2>1, NatSet
<1>8. ASSUME NEW e \in (i + 1)..(N + 1) PROVE T(e) >= T(i) + H(i) + Gap
  <2>1. e - (i + 1) \in Nat /\ i + 1 + (e - (i + 1)) = e /\ e <= N + 1
    BY <1>1
  <2>2. e - (i + 1) \in P
    BY <1>7, <2>1
  <2> QED BY <2>1, <2>2
<1> QED BY <1>8 DEF N, T, H

\* A page that begins at line `from` of block i.
GoodPage(blocks, l, i, from, p) ==
    LET N == Len(blocks)
        H(b) == Height(blocks[b], l.wrap)
        last == p.end - 1
    IN  /\ p = [start |-> i, from |-> from, end |-> p.end, to |-> p.to]
        /\ last \in i..N /\ p.end = last + 1 /\ p.to \in Nat
        /\ p.to > 0 => blocks[last].splits /\ p.to < H(last) /\ (last = i => p.to > from)
        /\ \/ \* blocks that end with the page
              /\ p.to = 0 /\ Taken(blocks, l.wrap, i, from, p.end) <= l.height
           \/ \* a block that goes on
              /\ p.to > 0
              /\ Taken(blocks, l.wrap, i, from, last) + (IF last = i THEN 0 ELSE Gap)
                    + p.to - (IF last = i THEN from ELSE 0) <= l.height
           \/ \* a block that cannot be split
              /\ p.to = 0 /\ last = i /\ ~blocks[i].splits /\ H(i) - from > l.height

\* What blocks take on a page, block by block.
LEMMA TakenIs ==
  ASSUME NEW blocks, NEW l, IsChapter(blocks, l), NEW i \in 1..Len(blocks), NEW from \in Nat
  PROVE  LET taken(e) == Taken(blocks, l.wrap, i, from, e)
             H(b) == Height(blocks[b], l.wrap)
         IN  /\ taken(i) = 0
             /\ taken(i + 1) = H(i) - from
             /\ \A e \in (i + 1)..Len(blocks) : taken(e + 1) = taken(e) + Gap + H(e)
             /\ \A e \in i..(Len(blocks) + 1) : taken(e) \in Int
<1> DEFINE N == Len(blocks)
<1> DEFINE T(e) == Top(blocks, l.wrap, e)
<1> DEFINE H(e) == Height(blocks[e], l.wrap)
<1>1. N \in Nat /\ i \in Nat /\ 1 <= i /\ i <= N
  BY ChapterIs
<1>2. blocks \in Seq(Block) /\ l.wrap \in Nat \ {0}
  BY ChapterIs DEF IsChapter
<1>3. \A e \in 1..N : T(e + 1) = T(e) + H(e) + Gap
  BY <1>2, TopIs
<1>4. \A e \in 1..(N + 1) : T(e) \in Nat
  BY <1>2, TopIs
<1>5. \A e \in 1..N : H(e) \in Nat
  BY ChapterIs
<1>6. \A e : Taken(blocks, l.wrap, i, from, e) = IF e = i THEN 0 ELSE T(e) - T(i) - Gap - from
  BY DEF Taken
<1> HIDE DEF N, T, H
<1>7. \A e \in (i + 1)..N : e \in 1..N /\ e # i /\ e + 1 # i /\ e \in 1..(N + 1) /\ e + 1 \in 1..(N + 1)
  BY <1>1
<1>8. i \in 1..N /\ i + 1 # i /\ i \in 1..(N + 1)
  BY <1>1
<1>9. Taken(blocks, l.wrap, i, from, i) = 0
  BY <1>6
<1>10. Taken(blocks, l.wrap, i, from, i + 1) = H(i) - from
  <2>1. T(i) \in Nat /\ H(i) \in Nat /\ T(i + 1) = T(i) + H(i) + Gap
    BY <1>3, <1>4, <1>5, <1>8
  <2> QED BY <1>6, <1>8, <2>1, GapAssumption
<1>11. ASSUME NEW e \in (i + 1)..N
       PROVE  Taken(blocks, l.wrap, i, from, e + 1) = Taken(blocks, l.wrap, i, from, e) + Gap + H(e)
  <2>1. T(e) \in Nat /\ H(e) \in Nat /\ T(e + 1) = T(e) + H(e) + Gap /\ T(i) \in Nat
    BY <1>3, <1>4, <1>5, <1>7, <1>8
  <2>2. /\ Taken(blocks, l.wrap, i, from, e + 1) = T(e + 1) - T(i) - Gap - from
        /\ Taken(blocks, l.wrap, i, from, e) = T(e) - T(i) - Gap - from
    BY <1>6, <1>7
  <2> QED BY <2>1, <2>2, GapAssumption
<1>12. ASSUME NEW e \in i..(N + 1) PROVE Taken(blocks, l.wrap, i, from, e) \in Int
  <2>1. e \in 1..(N + 1)
    BY <1>1
  <2>2. T(e) \in Nat /\ T(i) \in Nat
    BY <1>4, <1>8, <2>1
  <2> QED BY <1>6, <2>2, GapAssumption
<1> QED BY <1>9, <1>10, <1>11, <1>12 DEF N, H

\* What a page is: it holds what fits, whole blocks and perhaps a part.
LEMMA PageIs ==
  ASSUME NEW blocks, NEW l, IsChapter(blocks, l), NEW i \in 1..Len(blocks), NEW from \in Nat
  PROVE  GoodPage(blocks, l, i, from, Page(blocks, l, i, from))
<1> DEFINE N == Len(blocks)
<1> DEFINE taken(e) == Taken(blocks, l.wrap, i, from, e)
<1> DEFINE H(e) == Height(blocks[e], l.wrap)
<1> DEFINE S == {e \in i..(N + 1) : taken(e) <= l.height}
<1> DEFINE e == Overflowing(blocks, l, i, from)
<1> DEFINE room == Room(blocks, l, i, from, e)
<1>1. N \in Nat /\ i \in Nat /\ 1 <= i /\ i <= N /\ l.height \in Nat /\ 1 <= l.height
  BY ChapterIs
<1>2. /\ taken(i) = 0 /\ taken(i + 1) = H(i) - from
      /\ \A b \in (i + 1)..N : taken(b + 1) = taken(b) + Gap + H(b)
      /\ \A b \in i..(N + 1) : taken(b) \in Int
  BY TakenIs
<1>3. \A b \in 1..N : H(b) \in Nat
  BY ChapterIs
<1>4. e = Max(S)
  BY DEF Overflowing
<1>5. room = l.height - taken(e) - (IF e = i THEN 0 ELSE Gap)
  BY DEF Room
<1>6. Page(blocks, l, i, from) = PageUpTo(blocks, i, from, e, room)
  BY DEF Page
<1> HIDE DEF N, taken, H, e, room
<1>7. e \in i..(N + 1) /\ taken(e) <= l.height /\ \A b \in S : b <= e
  <2>1. S \in SUBSET Int /\ i \in S /\ \A b \in S : b <= N + 1
    BY <1>1, <1>2
  <2>2. Max(S) \in S /\ \A b \in S : b <= Max(S)
    <3> HIDE DEF S
    <3>1. S # {} /\ N + 1 \in Int
      BY <1>1, <2>1
    <3> QED BY <2>1, <3>1, HasMax
  <2> QED BY <1>4, <2>2
<1>8. ASSUME e <= N PROVE taken(e + 1) > l.height
  <2>1. e + 1 \in i..(N + 1) /\ e + 1 \notin S
    BY <1>1, <1>7, <1>8
  <2> QED BY <1>1, <1>2, <2>1
<1>9. e \in Int /\ taken(e) \in Int /\ room \in Int
  BY <1>1, <1>2, <1>5, <1>7, GapAssumption
<1> DEFINE cut == e <= N /\ blocks[e].splits /\ room >= 1
<1> DEFINE p == Page(blocks, l, i, from)
<1>10. p = [start |-> i, from |-> from,
            end |-> IF e <= N /\ (cut \/ e = i) THEN e + 1 ELSE e,
            to |-> IF cut THEN room + (IF e = i THEN from ELSE 0) ELSE 0]
  BY <1>6 DEF PageUpTo, N
<1>11. /\ p.start = i /\ p.from = from
       /\ p.end = IF e <= N /\ (cut \/ e = i) THEN e + 1 ELSE e
       /\ p.to = IF cut THEN room + (IF e = i THEN from ELSE 0) ELSE 0
       /\ p = [start |-> i, from |-> from, end |-> p.end, to |-> p.to]
  BY <1>10
<1> SUFFICES GoodPage(blocks, l, i, from, p)
  OBVIOUS
<1> HIDE DEF p, S
<1>12. CASE cut
  <2>1. p.end = e + 1 /\ p.end - 1 = e /\ e \in i..N /\ e \in 1..N
    BY <1>1, <1>7, <1>9, <1>11, <1>12
  <2>2. p.to = room + (IF e = i THEN from ELSE 0)
    BY <1>11, <1>12
  <2>3. H(e) \in Nat
    BY <1>3, <2>1
  <2>4. taken(e + 1) > l.height
    BY <1>8, <1>12
  <2>5. CASE e = i
    <3>1. p.to = l.height + from /\ taken(e + 1) = H(e) - from /\ taken(e) = 0
      BY <1>1, <1>2, <1>5, <2>2, <2>5
    <3>2. p.to \in Nat /\ p.to > 0 /\ p.to < H(e) /\ p.to > from
      BY <1>1, <2>3, <2>4, <3>1
    <3>3. taken(e) + 0 + p.to - from <= l.height
      BY <1>1, <3>1
    <3> QED BY <1>11, <1>12, <2>1, <2>5, <3>2, <3>3 DEF GoodPage, N, H, taken
  <2>6. CASE e # i
    <3>1. e \in (i + 1)..N
      BY <1>1, <2>1, <2>6
    <3>2. p.to = room /\ room = l.height - taken(e) - Gap /\ taken(e + 1) = taken(e) + Gap + H(e)
      BY <1>2, <1>5, <1>9, <2>2, <2>6, <3>1
    <3>3. p.to \in Nat /\ p.to > 0 /\ p.to < H(e)
      BY <1>1, <1>9, <1>12, <2>3, <2>4, <3>2, GapAssumption
    <3>4. taken(e) + Gap + p.to - 0 <= l.height
      BY <1>1, <1>9, <3>2, GapAssumption
    <3> QED BY <1>11, <1>12, <2>1, <2>6, <3>3, <3>4 DEF GoodPage, N, H, taken
  <2> QED BY <2>5, <2>6
<1>13. CASE ~cut /\ e = i
  <2>1. e <= N /\ p.end = i + 1 /\ p.end - 1 = i /\ p.to = 0
    BY <1>1, <1>9, <1>11, <1>13
  <2>2. room = l.height /\ ~blocks[i].splits
    BY <1>1, <1>2, <1>5, <1>13, <2>1
  <2>3. H(i) - from > l.height
    BY <1>2, <1>8, <1>13, <2>1
  <2>4. i \in i..N
    BY <1>1
  <2> QED BY <1>11, <2>1, <2>2, <2>3, <2>4 DEF GoodPage, N, H, taken
<1>14. CASE ~cut /\ e # i
  <2>1. p.end = e /\ p.to = 0 /\ p.end - 1 \in i..N /\ p.end = (p.end - 1) + 1
    BY <1>1, <1>7, <1>9, <1>11, <1>14
  <2> QED BY <1>7, <1>11, <2>1 DEF GoodPage, N, H, taken
<1> QED BY <1>12, <1>13, <1>14

\* A place in a chapter, where a page may begin: a block and a line of it.
PlacesIn(blocks) == (1..(Len(blocks) + 1)) \X Nat
Inside(blocks, l, at) ==
    /\ at \in PlacesIn(blocks)
    /\ at[2] > 0 => at[1] <= Len(blocks) /\ at[2] < Height(blocks[at[1]], l.wrap)
Before(x, at) == x[1] < at[1] \/ (x[1] = at[1] /\ x[2] < at[2])

\* The next page begins inside the chapter, further on than this one.
LEMMA AfterIs ==
  ASSUME NEW blocks, NEW l, IsChapter(blocks, l), NEW i \in 1..Len(blocks), NEW from \in Nat
  PROVE  LET next == After(Page(blocks, l, i, from))
         IN  /\ next = <<next[1], next[2]>>
             /\ Inside(blocks, l, next)
             /\ next[1] \in i..(Len(blocks) + 1)
             /\ next[1] = i => next[2] > from /\ next[2] < Height(blocks[i], l.wrap)
<1> DEFINE N == Len(blocks)
<1> DEFINE H(b) == Height(blocks[b], l.wrap)
<1> DEFINE p == Page(blocks, l, i, from)
<1> DEFINE last == p.end - 1
<1>1. N \in Nat /\ i \in Nat /\ 1 <= i /\ i <= N /\ \A b \in 1..N : H(b) \in Nat
  BY ChapterIs
<1>2. /\ last \in i..N /\ p.end = last + 1 /\ p.to \in Nat
      /\ p.to > 0 => p.to < H(last) /\ (last = i => p.to > from)
  BY PageIs DEF GoodPage
<1>3. After(p) = IF p.to > 0 THEN <<last, p.to>> ELSE <<p.end, 0>>
  BY DEF After
<1> HIDE DEF p, N, H
<1>4. CASE p.to > 0
  <2>1. After(p) = <<last, p.to>> /\ last \in Nat
    BY <1>1, <1>2, <1>3, <1>4
  <2>2. last \in 1..(N + 1) /\ last <= N /\ last \in i..(N + 1)
    BY <1>1, <1>2
  <2> QED BY <1>2, <1>4, <2>1, <2>2 DEF Inside, PlacesIn, p, N, H
<1>5. CASE p.to = 0
  <2>1. After(p) = <<last + 1, 0>>
    BY <1>2, <1>3, <1>5
  <2>2. last + 1 \in 1..(N + 1) /\ last + 1 \in i..(N + 1) /\ last + 1 # i
    BY <1>1, <1>2
  <2> QED BY <2>1, <2>2 DEF Inside, PlacesIn, p, N, H
<1> QED BY <1>2, <1>4, <1>5

\* A block has a line at least.
LEMMA LinesIs ==
  ASSUME NEW blocks, NEW l, IsChapter(blocks, l), NEW b \in 1..Len(blocks)
  PROVE  Lines(blocks[b], l.wrap) = IF Height(blocks[b], l.wrap) = 0 THEN 1 ELSE Height(blocks[b], l.wrap)
<1> DEFINE h == Height(blocks[b], l.wrap)
<1>1. h \in Nat
  BY ChapterIs
<1>2. Lines(blocks[b], l.wrap) = Max({1, h})
  BY DEF Lines
<1> HIDE DEF h
<1>3. {1, h} \in SUBSET Int /\ {1, h} # {} /\ h + 1 \in Int /\ \A x \in {1, h} : x <= h + 1
  BY <1>1
<1>4. Max({1, h}) \in {1, h} /\ \A x \in {1, h} : x <= Max({1, h})
  BY <1>3, HasMax
<1>5. Max({1, h}) = IF h = 0 THEN 1 ELSE h
  BY <1>1, <1>4
<1> QED BY <1>2, <1>5 DEF h

\* The lines of a chapter, as those of its blocks.
LEMMA AllLinesAre ==
  ASSUME NEW blocks, NEW l, IsChapter(blocks, l)
  PROVE  \A x : x \in AllLines(blocks, l) <=>
            /\ x = <<x[1], x[2]>> /\ x[1] \in 1..Len(blocks) /\ x[2] \in Nat
            /\ x[2] < Lines(blocks[x[1]], l.wrap)
<1>1. \A b \in 1..Len(blocks) : Lines(blocks[b], l.wrap) \in Nat
  BY LinesIs, ChapterIs
<1>2. ASSUME NEW x, x \in AllLines(blocks, l)
      PROVE  /\ x = <<x[1], x[2]>> /\ x[1] \in 1..Len(blocks) /\ x[2] \in Nat
             /\ x[2] < Lines(blocks[x[1]], l.wrap)
  <2>1. PICK b \in 1..Len(blocks) : \E k \in 0..(Lines(blocks[b], l.wrap) - 1) : x = <<b, k>>
    BY <1>2 DEF AllLines
  <2>0. PICK k \in 0..(Lines(blocks[b], l.wrap) - 1) : x = <<b, k>>
    BY <2>1
  <2>2. k \in Nat /\ k < Lines(blocks[b], l.wrap)
    BY <1>1, <2>1
  <2> QED BY <2>0, <2>2
<1>3. ASSUME NEW x, x = <<x[1], x[2]>>, x[1] \in 1..Len(blocks), x[2] \in Nat,
             x[2] < Lines(blocks[x[1]], l.wrap)
      PROVE  x \in AllLines(blocks, l)
  <2>1. x[2] \in 0..(Lines(blocks[x[1]], l.wrap) - 1)
    BY <1>1, <1>3
  <2>2. x \in {<<x[1], k>> : k \in 0..(Lines(blocks[x[1]], l.wrap) - 1)}
    BY <1>3, <2>1
  <2> QED BY <1>3, <2>2 DEF AllLines
<1> QED BY <1>2, <1>3

\* The lines of a page are those from where it begins to where the next one does.
LEMMA LinesOfPage ==
  ASSUME NEW blocks, NEW l, IsChapter(blocks, l), NEW i \in 1..Len(blocks), NEW from \in Nat
  PROVE  LET p == Page(blocks, l, i, from)
         IN  LinesOf(blocks, l, p) =
                {x \in AllLines(blocks, l) : ~Before(x, <<i, from>>) /\ Before(x, After(p))}
<1> DEFINE N == Len(blocks)
<1> DEFINE H(b) == Height(blocks[b], l.wrap)
<1> DEFINE L(b) == Lines(blocks[b], l.wrap)
<1> DEFINE p == Page(blocks, l, i, from)
<1> DEFINE last == p.end - 1
<1> DEFINE lo(b) == IF b = p.start THEN p.from ELSE 0
<1> DEFINE hi(b) == IF b = last /\ p.to > 0 THEN p.to ELSE L(b)
<1> DEFINE good(x) == /\ x = <<x[1], x[2]>> /\ x[1] \in 1..N /\ x[2] \in Nat /\ x[2] < L(x[1])
                      /\ ~Before(x, <<i, from>>) /\ Before(x, After(p))
<1>1. N \in Nat /\ i \in Nat /\ 1 <= i /\ i <= N /\ \A b \in 1..N : H(b) \in Nat
  BY ChapterIs
<1>2. /\ last \in i..N /\ p.end = last + 1 /\ p.to \in Nat /\ p.start = i /\ p.from = from
      /\ p.to > 0 => p.to < H(last) /\ (last = i => p.to > from)
  BY PageIs DEF GoodPage
<1>3. \A b \in 1..N : L(b) = IF H(b) = 0 THEN 1 ELSE H(b)
  BY LinesIs
<1>4. After(p) = IF p.to > 0 THEN <<last, p.to>> ELSE <<p.end, 0>>
  BY DEF After
<1>5. LinesOf(blocks, l, p) = UNION {{<<b, k>> : k \in lo(b)..(hi(b) - 1)} : b \in p.start..(p.end - 1)}
  BY DEF LinesOf
<1>6. \A x : x \in LinesOf(blocks, l, p) <=>
              \E b \in i..last : \E k \in lo(b)..(hi(b) - 1) : x = <<b, k>>
  <2> HIDE DEF p, L, lo, hi
  <2> QED BY <1>2, <1>5
<1>7. last \in Nat /\ \A b \in i..last : b \in 1..N /\ b \in Nat /\ i <= b /\ b <= last
  <2> HIDE DEF p
  <2> QED BY <1>1, <1>2
<1>8. \A b \in i..last : lo(b) = (IF b = i THEN from ELSE 0) /\ hi(b) = IF b = last /\ p.to > 0 THEN p.to ELSE L(b)
  <2> HIDE DEF p
  <2> QED BY <1>2
<1>9. \A b \in 1..N : L(b) \in Nat /\ H(b) <= L(b)
  <2> HIDE DEF p, L, H, N
  <2> QED BY <1>1, <1>3
<1>10. ASSUME NEW b \in i..last PROVE hi(b) \in Nat /\ hi(b) <= L(b)
  <2> HIDE DEF p, L, H, N, lo
  <2>1. L(b) \in Nat /\ H(b) <= L(b) /\ H(b) \in Nat
    BY <1>1, <1>7, <1>9
  <2>2. CASE b = last /\ p.to > 0
    BY <1>2, <1>8, <2>1, <2>2
  <2>3. CASE ~(b = last /\ p.to > 0)
    BY <1>8, <2>1, <2>3
  <2> QED BY <2>2, <2>3
<1> HIDE DEF p, L, H, N, lo, hi
<1>11. ASSUME NEW x, x \in LinesOf(blocks, l, p) PROVE good(x)
  <2>1. PICK b \in i..last : \E k \in lo(b)..(hi(b) - 1) : x = <<b, k>>
    BY <1>6, <1>11
  <2>0. PICK k \in lo(b)..(hi(b) - 1) : x = <<b, k>>
    BY <2>1
  <2>2. lo(b) \in Nat /\ (b = i => lo(b) = from) /\ hi(b) \in Nat /\ hi(b) <= L(b) /\ L(b) \in Nat
    BY <1>7, <1>8, <1>9, <1>10
  <2>3. k \in Nat /\ k < hi(b) /\ k < L(b) /\ lo(b) <= k
    BY <2>2
  <2>4. x[1] = b /\ x[2] = k /\ b \in 1..N /\ i <= b /\ b <= last /\ b \in Nat
    BY <1>7, <2>0
  <2>5. ~Before(x, <<i, from>>)
    BY <1>1, <2>2, <2>3, <2>4 DEF Before
  <2>6. Before(x, After(p))
    <3>1. CASE p.to > 0
      <4>1. After(p)[1] = last /\ After(p)[2] = p.to
        BY <1>4, <3>1
      <4>2. b = last => k < p.to
        BY <1>8, <2>3, <3>1
      <4> QED BY <1>7, <2>4, <4>1, <4>2 DEF Before
    <3>2. CASE p.to = 0
      <4>1. After(p)[1] = last + 1
        BY <1>2, <1>4, <3>2
      <4> QED BY <1>7, <2>4, <4>1 DEF Before
    <3> QED BY <1>2, <3>1, <3>2
  <2> QED BY <2>0, <2>3, <2>4, <2>5, <2>6
<1>12. ASSUME NEW x, good(x) PROVE x \in LinesOf(blocks, l, p)
  <2> DEFINE b == x[1]
  <2> DEFINE k == x[2]
  <2>1. b \in 1..N /\ k \in Nat /\ k < L(b) /\ x = <<b, k>>
    BY <1>12
  <2>2. i <= b /\ (b = i => from <= k)
    BY <1>1, <1>12, <2>1 DEF Before
  <2>3. b <= last /\ (b = last /\ p.to > 0 => k < p.to)
    <3>1. CASE p.to > 0
      <4>1. After(p)[1] = last /\ After(p)[2] = p.to
        BY <1>4, <3>1
      <4> QED BY <1>7, <1>12, <2>1, <4>1 DEF Before
    <3>2. CASE p.to = 0
      <4>1. After(p)[1] = last + 1 /\ After(p)[2] = 0
        BY <1>2, <1>4, <3>2
      <4> QED BY <1>7, <1>12, <2>1, <3>2, <4>1 DEF Before
    <3> QED BY <1>2, <3>1, <3>2
  <2>4. b \in i..last
    BY <1>1, <1>7, <2>1, <2>2, <2>3
  <2>5. lo(b) <= k /\ k < hi(b) /\ lo(b) \in Nat /\ hi(b) \in Nat
    BY <1>8, <1>10, <2>1, <2>2, <2>3, <2>4
  <2>6. k \in lo(b)..(hi(b) - 1)
    BY <2>1, <2>5
  <2> QED BY <1>6, <2>1, <2>4, <2>6
<1>13. \A x : x \in AllLines(blocks, l) <=>
            x = <<x[1], x[2]>> /\ x[1] \in 1..N /\ x[2] \in Nat /\ x[2] < L(x[1])
  BY AllLinesAre DEF N, L
<1>14. LinesOf(blocks, l, p) = {x \in AllLines(blocks, l) : ~Before(x, <<i, from>>) /\ Before(x, After(p))}
  BY <1>11, <1>12, <1>13
<1> QED BY <1>14 DEF p

\* How much of a chapter is left at a place; enough to see that pages come to an end.
LeftAt(blocks, l, at) ==
    LET N == Len(blocks)
        T(i) == Top(blocks, l.wrap, i)
        H == Height(blocks[at[1]], l.wrap)
    IN  IF at[1] > N THEN 0
        ELSE T(N + 1) - T(at[1] + 1) + (N - at[1]) + 1 + (IF at[2] < H THEN H - at[2] ELSE 0)

\* What is left of a chapter is less after a page: cutting pages ends.
LEMMA LeftIs ==
  ASSUME NEW blocks, NEW l, IsChapter(blocks, l), NEW i \in 1..Len(blocks), NEW from \in Nat
  PROVE  /\ LeftAt(blocks, l, <<i, from>>) \in Nat
         /\ LeftAt(blocks, l, After(Page(blocks, l, i, from))) < LeftAt(blocks, l, <<i, from>>)
<1> DEFINE N == Len(blocks)
<1> DEFINE H(b) == Height(blocks[b], l.wrap)
<1> DEFINE T(b) == Top(blocks, l.wrap, b)
<1> DEFINE next == After(Page(blocks, l, i, from))
<1> DEFINE j == next[1]
<1>1. N \in Nat /\ i \in Nat /\ 1 <= i /\ i <= N /\ \A b \in 1..N : H(b) \in Nat
  BY ChapterIs
<1>2. blocks \in Seq(Block) /\ l.wrap \in Nat \ {0}
  BY ChapterIs DEF IsChapter
<1>3. \A e \in 1..N : T(e + 1) = T(e) + H(e) + Gap
  BY <1>2, TopIs
<1>4. \A e \in 1..(N + 1) : T(e) \in Nat
  BY <1>2, TopIs
<1>5. \A e \in 1..N : \A f \in (e + 1)..(N + 1) : T(f) >= T(e) + H(e) + Gap
  BY <1>2, TopGrows
<1>6. /\ next = <<j, next[2]>> /\ j \in i..(N + 1) /\ next[2] \in Nat
      /\ j = i => next[2] > from /\ next[2] < H(i)
  BY AfterIs DEF Inside, PlacesIn
<1>7. ASSUME NEW a \in 1..N, NEW k \in Nat
      PROVE  LeftAt(blocks, l, <<a, k>>) =
                T(N + 1) - T(a + 1) + (N - a) + 1 + (IF k < H(a) THEN H(a) - k ELSE 0)
  <2>1. ~(a > N)
    BY <1>1
  <2> QED BY <2>1 DEF LeftAt
<1>8. \A k : LeftAt(blocks, l, <<N + 1, k>>) = 0
  BY <1>1 DEF LeftAt
<1> HIDE DEF N, H, T, next
<1> DEFINE rest(a, k) == IF k < H(a) THEN H(a) - k ELSE 0
<1>9. ASSUME NEW a \in 1..N, NEW k \in Nat PROVE rest(a, k) \in Nat /\ rest(a, k) <= H(a)
  <2>1. H(a) \in Nat
    BY <1>1
  <2> QED BY <2>1
<1>10. ASSUME NEW a \in 1..N
       PROVE  T(a + 1) \in Nat /\ T(N + 1) \in Nat /\ T(N + 1) >= T(a + 1)
  <2>1. a + 1 \in 1..(N + 1) /\ N + 1 \in 1..(N + 1) /\ N + 1 \in (a + 1)..(N + 1)
    BY <1>1
  <2>2. T(a + 1) = T(a) + H(a) + Gap /\ T(N + 1) >= T(a) + H(a) + Gap
    BY <1>3, <1>5, <2>1
  <2> QED BY <1>4, <2>1, <2>2
<1>11. i \in 1..N
  BY <1>1
<1>12. LeftAt(blocks, l, <<i, from>>) \in Nat /\ LeftAt(blocks, l, <<i, from>>) >= 1
  <2>1. LeftAt(blocks, l, <<i, from>>) = T(N + 1) - T(i + 1) + (N - i) + 1 + rest(i, from)
    BY <1>7, <1>11
  <2>2. /\ rest(i, from) \in Nat /\ T(i + 1) \in Nat /\ T(N + 1) \in Nat /\ T(N + 1) >= T(i + 1)
    BY <1>9, <1>10, <1>11
  <2> HIDE DEF rest
  <2> QED BY <1>1, <2>1, <2>2
<1>13. CASE j = i
  <2>1. rest(i, next[2]) < rest(i, from)
    BY <1>1, <1>6, <1>11, <1>13
  <2>2. /\ LeftAt(blocks, l, next) = T(N + 1) - T(i + 1) + (N - i) + 1 + rest(i, next[2])
        /\ LeftAt(blocks, l, <<i, from>>) = T(N + 1) - T(i + 1) + (N - i) + 1 + rest(i, from)
    BY <1>6, <1>7, <1>11, <1>13
  <2>3. rest(i, next[2]) \in Nat /\ rest(i, from) \in Nat /\ T(N + 1) \in Nat /\ T(i + 1) \in Nat
    BY <1>6, <1>9, <1>10, <1>11
  <2> HIDE DEF rest
  <2>4. LeftAt(blocks, l, next) < LeftAt(blocks, l, <<i, from>>)
    BY <1>1, <2>1, <2>2, <2>3
  <2> QED BY <1>12, <2>4 DEF next
<1>14. CASE j = N + 1
  <2>1. LeftAt(blocks, l, next) = 0
    BY <1>6, <1>8, <1>14
  <2> QED BY <1>12, <2>1 DEF next
<1>15. CASE j # i /\ j # N + 1
  <2>1. j \in 1..N /\ j \in (i + 1)..(N + 1) /\ j \in Nat /\ i + 1 <= j
    BY <1>1, <1>6, <1>15
  <2>2. T(j) >= T(i + 1) /\ T(j + 1) = T(j) + H(j) + Gap
    BY <1>3, <1>5, <1>11, <2>1
  <2>3. /\ LeftAt(blocks, l, next) = T(N + 1) - T(j + 1) + (N - j) + 1 + rest(j, next[2])
        /\ LeftAt(blocks, l, <<i, from>>) = T(N + 1) - T(i + 1) + (N - i) + 1 + rest(i, from)
    BY <1>6, <1>7, <1>11, <2>1
  <2>4. /\ rest(j, next[2]) \in Nat /\ rest(i, from) \in Nat /\ rest(j, next[2]) <= H(j)
    BY <1>6, <1>9, <1>11, <2>1
  <2>5. T(N + 1) \in Nat /\ T(i + 1) \in Nat /\ T(j + 1) \in Nat /\ T(j) \in Nat /\ H(j) \in Nat
    BY <1>1, <1>4, <1>10, <1>11, <2>1
  <2> HIDE DEF rest
  <2>6. LeftAt(blocks, l, next) < LeftAt(blocks, l, <<i, from>>)
    <3>1. T(j + 1) >= T(i + 1) + rest(j, next[2])
      BY <2>2, <2>4, <2>5, GapAssumption
    <3>2. N - j < N - i
      BY <1>1, <2>1
    <3>3. N \in Nat /\ i \in Nat
      BY <1>1
    <3> DEFINE r == rest(j, next[2])
    <3> DEFINE s == rest(i, from)
    <3>4. r \in Nat /\ s \in Nat /\ T(j + 1) >= T(i + 1) + r
      BY <2>4, <3>1
    <3>5. j \in Nat
      BY <2>1
    <3> HIDE DEF r, s, j
    <3>6. T(N + 1) - T(j + 1) + (N - j) + 1 + r < T(N + 1) - T(i + 1) + (N - i) + 1 + s
      <4> DEFINE tn == T(N + 1)
      <4> DEFINE ti == T(i + 1)
      <4> DEFINE tj == T(j + 1)
      <4>1. tn \in Nat /\ ti \in Nat /\ tj \in Nat /\ tj >= ti + r
        BY <2>5, <3>4 DEF j
      <4> HIDE DEF tn, ti, tj
      <4>2. tn - tj + r <= tn - ti
        BY <3>4, <4>1
      <4>3. (N - j) + 1 < (N - i) + 1 + s
        BY <3>2, <3>3, <3>4, <3>5 DEF j
      <4>4. tn - tj + (N - j) + 1 + r < tn - ti + (N - i) + 1 + s
        BY <3>3, <3>4, <3>5, <4>1, <4>2, <4>3
      <4> QED BY <4>4 DEF tn, ti, tj
    <3> QED BY <2>3, <3>6 DEF r, s, j
  <2> QED BY <1>12, <2>6 DEF next
<1>16. next = After(Page(blocks, l, i, from))
  BY DEF next
<1> QED BY <1>6, <1>13, <1>14, <1>15, <1>12

\* The places where the pages of a chapter begin, and at last its end.
Begins(blocks, l, path) ==
    /\ Len(path) \in Nat /\ Len(path) > 1
    /\ path[1] = <<1, 0>>
    /\ path[Len(path)][1] = Len(blocks) + 1
    /\ \A k \in 1..Len(path) : path[k] = <<path[k][1], path[k][2]>> /\ Inside(blocks, l, path[k])
    /\ \A k \in 1..(Len(path) - 1) :
          path[k][1] \in 1..Len(blocks) /\ path[k + 1] = After(Page(blocks, l, path[k][1], path[k][2]))

\* Paginate goes from place to place, from the first line to the end.
LEMMA PaginateIs ==
  ASSUME NEW blocks, NEW l, IsChapter(blocks, l)
  PROVE  \E path : /\ Begins(blocks, l, path)
                   /\ Paginate(blocks, l) =
                         [k \in 1..(Len(path) - 1) |-> Page(blocks, l, path[k][1], path[k][2])]
<1> DEFINE N == Len(blocks)
<1> DEFINE D == PlacesIn(blocks)
<1> DEFINE More == {d \in D : d[1] <= N}
<1> DEFINE page == [d \in D |-> Page(blocks, l, d[1], d[2])]
<1> DEFINE next == [d \in D |-> After(Page(blocks, l, d[1], d[2]))]
<1> DEFINE rank == [d \in D |-> LeftAt(blocks, l, d)]
<1> DEFINE Rec(f) == f = [at \in (1..(Len(blocks) + 1)) \X Nat |->
                             IF at[1] > Len(blocks) THEN << >>
                             ELSE Cons(Page(blocks, l, at[1], at[2]), f[After(Page(blocks, l, at[1], at[2]))])]
<1>1. N \in Nat /\ 1 <= N
  BY ChapterIs
<1>2. \A d \in D : d = <<d[1], d[2]>> /\ d[1] \in 1..(N + 1) /\ d[2] \in Nat /\ (d[1] > N <=> d \notin More)
  BY <1>1 DEF PlacesIn
<1>3. \A d \in More : d[1] \in 1..N
  BY <1>1, <1>2
<1>4. \A d \in More : next[d] \in D /\ rank[next[d]] < rank[d] /\ rank[d] \in Nat
  <2>1. SUFFICES ASSUME NEW d \in More
                 PROVE  next[d] \in D /\ rank[next[d]] < rank[d] /\ rank[d] \in Nat
    OBVIOUS
  <2>2. d[1] \in 1..N /\ d[2] \in Nat /\ d = <<d[1], d[2]>>
    BY <1>2, <1>3
  <2>3. After(Page(blocks, l, d[1], d[2])) \in D
    BY <2>2, AfterIs DEF Inside
  <2>4. /\ LeftAt(blocks, l, <<d[1], d[2]>>) \in Nat
        /\ LeftAt(blocks, l, After(Page(blocks, l, d[1], d[2]))) < LeftAt(blocks, l, <<d[1], d[2]>>)
    BY <2>2, LeftIs
  <2> HIDE DEF D
  <2> QED BY <2>2, <2>3, <2>4
<1>5. \A d \in D : rank[d] \in Nat
  <2>1. SUFFICES ASSUME NEW d \in D, d \notin More PROVE rank[d] \in Nat
    BY <1>4
  <2>2. LeftAt(blocks, l, d) = 0
    BY <1>2, <2>1 DEF LeftAt
  <2> QED BY <2>2
<1>6. \A f : Rec(f) <=> Recursion(f, D, More, page, next)
  <2>1. SUFFICES ASSUME NEW f
                 PROVE  [at \in (1..(Len(blocks) + 1)) \X Nat |->
                             IF at[1] > Len(blocks) THEN << >>
                             ELSE Cons(Page(blocks, l, at[1], at[2]), f[After(Page(blocks, l, at[1], at[2]))])]
                        = [d \in D |-> IF d \in More THEN Cons(page[d], f[next[d]]) ELSE << >>]
    BY DEF Recursion
  <2>2. ASSUME NEW d \in D
        PROVE  (IF d[1] > Len(blocks) THEN << >>
                ELSE Cons(Page(blocks, l, d[1], d[2]), f[After(Page(blocks, l, d[1], d[2]))]))
               = IF d \in More THEN Cons(page[d], f[next[d]]) ELSE << >>
    <3>1. d[1] > Len(blocks) <=> d \notin More
      BY <1>2
    <3>2. page[d] = Page(blocks, l, d[1], d[2]) /\ next[d] = After(Page(blocks, l, d[1], d[2]))
      OBVIOUS
    <3> HIDE DEF D, More, page, next
    <3> QED BY <3>1, <3>2
  <2>3. D = (1..(Len(blocks) + 1)) \X Nat
    BY DEF PlacesIn
  <2> HIDE DEF D, More, page, next
  <2> QED BY <2>2, <2>3
<1> HIDE DEF D, More, page, next, rank
<1>7. More \in SUBSET D
  BY DEF More
<1>8. \E f : Rec(f)
  <2>1. \E f : Recursion(f, D, More, page, next)
    BY <1>4, <1>5, <1>7, Defined
  <2> QED BY <1>6, <2>1
<1>9. PICK f : Rec(f) /\ Paginate(blocks, l) = f[<<1, 0>>]
  <2> DEFINE f == CHOOSE x : Rec(x)
  <2>1. Paginate(blocks, l) = f[<<1, 0>>]
    BY DEF Paginate, IsChapter
  <2>2. Rec(f)
    <3> HIDE DEF Rec
    <3> QED BY <1>8
  <2> HIDE DEF f
  <2> QED BY <2>1, <2>2
<1> HIDE DEF Rec
<1>10. <<1, 0>> \in D
  BY <1>1 DEF D, PlacesIn
<1>11. PICK path : /\ IsPath(path, D, More, next) /\ path[1] = <<1, 0>>
                   /\ f[<<1, 0>>] = PagesOn(path, page)
  <2>1. Recursion(f, D, More, page, next)
    BY <1>6, <1>9
  <2>2. \A d \in D : \E path : /\ IsPath(path, D, More, next) /\ path[1] = d
                               /\ f[d] = PagesOn(path, page)
    BY <1>4, <1>5, <1>7, <2>1, Unfolded
  <2> QED BY <1>10, <2>2
<1>12. /\ path \in Seq(D) /\ Len(path) \in Nat
       /\ \A k \in 1..Len(path) : path[k] \in D
       /\ \A k \in 1..(Len(path) - 1) : path[k] \in More /\ path[k + 1] = next[path[k]]
       /\ path[Len(path)] \notin More /\ Len(path) # 0
  BY <1>11 DEF IsPath
<1>13. Len(path) # 1
  BY <1>1, <1>2, <1>10, <1>11, <1>12 DEF More
<1>14. Len(path) > 1 /\ Len(path) \in 1..Len(path)
  <2>1. \A n \in Nat : n # 0 /\ n # 1 => n > 1 /\ n \in 1..n
    OBVIOUS
  <2> QED BY <1>12, <1>13, <2>1
<1>15. path[Len(path)][1] = N + 1
  BY <1>1, <1>2, <1>12, <1>14
<1>16. ASSUME NEW k \in 1..(Len(path) - 1)
       PROVE  /\ path[k][1] \in 1..N /\ path[k + 1] = After(Page(blocks, l, path[k][1], path[k][2]))
              /\ Inside(blocks, l, path[k + 1])
  <2>1. path[k] \in More /\ path[k] \in D /\ path[k + 1] = next[path[k]]
    BY <1>7, <1>12
  <2>2. path[k][1] \in 1..N /\ path[k][2] \in Nat
    BY <1>2, <1>3, <2>1
  <2>3. next[path[k]] = After(Page(blocks, l, path[k][1], path[k][2]))
    BY <2>1 DEF next
  <2> QED BY <2>1, <2>2, <2>3, AfterIs
<1>17. ASSUME NEW k \in 1..Len(path) PROVE path[k] = <<path[k][1], path[k][2]>> /\ Inside(blocks, l, path[k])
  <2>1. CASE k = 1
    <3>1. Inside(blocks, l, <<1, 0>>)
      BY <1>10 DEF Inside, D
    <3> QED BY <1>11, <2>1, <3>1
  <2>2. CASE k # 1
    <3>1. k - 1 \in 1..(Len(path) - 1) /\ (k - 1) + 1 = k
      BY <1>12, <2>2
    <3>2. path[k] = <<path[k][1], path[k][2]>>
      BY <1>2, <1>12
    <3>3. Inside(blocks, l, path[(k - 1) + 1])
      BY <1>16, <3>1
    <3> QED BY <3>1, <3>2, <3>3
  <2> QED BY <2>1, <2>2
<1>18. Begins(blocks, l, path)
  BY <1>11, <1>12, <1>14, <1>15, <1>16, <1>17 DEF Begins
<1>19. PagesOn(path, page) = [k \in 1..(Len(path) - 1) |-> Page(blocks, l, path[k][1], path[k][2])]
  <2>1. \A k \in 1..(Len(path) - 1) : page[path[k]] = Page(blocks, l, path[k][1], path[k][2])
    BY <1>7, <1>12 DEF page
  <2> QED BY <2>1 DEF PagesOn
<1> QED BY <1>9, <1>11, <1>18, <1>19

\* What is before a place is before where later pages begin.
LEMMA Later ==
  ASSUME NEW blocks, NEW l, IsChapter(blocks, l), NEW path, Begins(blocks, l, path),
         NEW x, x[1] \in Int, x[2] \in Int, NEW j \in 1..Len(path), Before(x, path[j])
  PROVE  \A k \in j..Len(path) : Before(x, path[k])
<1>1. /\ Len(path) \in Nat
      /\ \A k \in 1..(Len(path) - 1) :
            /\ path[k][1] \in 1..Len(blocks) /\ path[k][2] \in Nat
            /\ path[k + 1] = After(Page(blocks, l, path[k][1], path[k][2]))
  BY DEF Begins, Inside, PlacesIn
<1> DEFINE P == {m \in Nat : j + m <= Len(path) => Before(x, path[j + m])}
<1>2. 0 \in P
  OBVIOUS
<1>3. ASSUME NEW m \in P PROVE m + 1 \in P
  <2>1. SUFFICES ASSUME j + (m + 1) <= Len(path) PROVE Before(x, path[j + (m + 1)])
    OBVIOUS
  <2> DEFINE k == j + m
  <2>2. k \in 1..(Len(path) - 1) /\ k + 1 = j + (m + 1) /\ Before(x, path[k])
    BY <1>1, <2>1
  <2> HIDE DEF k
  <2> DEFINE i == path[k][1]
  <2> DEFINE next == path[k + 1]
  <2>3. i \in 1..Len(blocks) /\ path[k][2] \in Nat /\ next = After(Page(blocks, l, i, path[k][2]))
    BY <1>1, <2>2
  <2>4. /\ next[1] \in i..(Len(blocks) + 1) /\ next[2] \in Nat
        /\ next[1] = i => next[2] > path[k][2]
    <3> DEFINE a == After(Page(blocks, l, i, path[k][2]))
    <3>1. a[1] \in i..(Len(blocks) + 1) /\ a[2] \in Nat /\ (a[1] = i => a[2] > path[k][2])
      BY <2>3, AfterIs DEF Inside, PlacesIn
    <3> HIDE DEF a
    <3> QED BY <2>3, <3>1 DEF a
  <2>5. Before(x, next)
    <3>1. Len(blocks) \in Nat
      BY ChapterIs
    <3>2. i \in Int /\ next[1] \in Int /\ i <= next[1]
      BY <2>3, <2>4, <3>1
    <3>3. x[1] < i \/ (x[1] = i /\ x[2] < path[k][2])
      BY <2>2 DEF Before
    <3>4. next[1] = i => path[k][2] < next[2] /\ path[k][2] \in Int /\ next[2] \in Int
      BY <2>3, <2>4
    <3> HIDE DEF next, i
    <3>5. x[1] < next[1] \/ (x[1] = next[1] /\ x[2] < next[2])
      BY <3>2, <3>3, <3>4
    <3> QED BY <3>5 DEF Before
  <2> QED BY <2>2, <2>5
<1>4. P = Nat
  <2> HIDE DEF P
  <2>1. P \in SUBSET Nat BY DEF P
  <2> QED BY <1>2, <1>3, <2>1, NatSet
<1>5. ASSUME NEW k \in j..Len(path) PROVE Before(x, path[k])
  <2>1. k - j \in Nat /\ j + (k - j) = k /\ k <= Len(path)
    BY <1>1
  <2>2. k - j \in P
    BY <1>4, <2>1
  <2> QED BY <2>1, <2>2
<1> QED BY <1>5

\* The lines of blocks i..e-1 from line `from` on, those without lines left out.
LinesFrom(blocks, l, i, from, e) ==
    {x \in (i..(e - 1)) \X Nat : (x[1] = i => from <= x[2]) /\ x[2] < Height(blocks[x[1]], l.wrap)}

LineSet(b, lo, hi) == {b} \X (lo..(hi - 1))

\* How many lines there are from one to another.
LEMMA LinesOfBlock ==
  ASSUME NEW b, NEW lo \in Nat, NEW hi \in Nat, lo <= hi
  PROVE  IsFiniteSet(LineSet(b, lo, hi)) /\ Cardinality(LineSet(b, lo, hi)) = hi - lo
<1>1. IsFiniteSet(lo..(hi - 1)) /\ Cardinality(lo..(hi - 1)) = hi - lo
  <2>1. lo \in Int /\ hi - 1 \in Int
    OBVIOUS
  <2>2. IsFiniteSet(lo..(hi - 1)) /\ Cardinality(lo..(hi - 1)) = IF lo > hi - 1 THEN 0 ELSE (hi - 1) - lo + 1
    BY <2>1, FS_Interval
  <2> QED BY <2>2
<1>2. IsFiniteSet({b}) /\ Cardinality({b}) = 1
  BY FS_Singleton
<1>3. /\ IsFiniteSet(LineSet(b, lo, hi))
      /\ Cardinality(LineSet(b, lo, hi)) = Cardinality({b}) * Cardinality(lo..(hi - 1))
  BY <1>1, <1>2, FS_Product DEF LineSet
<1> QED BY <1>1, <1>2, <1>3

\* Two sets of lines of different blocks.
LEMMA LinesOfMore ==
  ASSUME NEW S, IsFiniteSet(S), NEW e, \A x \in S : x[1] # e,
         NEW lo \in Nat, NEW hi \in Nat, lo <= hi
  PROVE  /\ IsFiniteSet(S \cup LineSet(e, lo, hi))
         /\ Cardinality(S \cup LineSet(e, lo, hi)) = Cardinality(S) + (hi - lo)
<1> DEFINE B == LineSet(e, lo, hi)
<1>1. IsFiniteSet(B) /\ Cardinality(B) = hi - lo
  BY LinesOfBlock
<1>2. \A x \in B : x[1] = e
  BY DEF LineSet
<1> HIDE DEF B
<1>3. S \cap B = {}
  BY <1>2
<1>4. Cardinality(S \cap B) = 0
  BY <1>3, FS_EmptySet
<1>5. Cardinality(S) \in Nat
  BY FS_CardinalityType
<1>6. /\ IsFiniteSet(S \cup B)
      /\ Cardinality(S \cup B) = Cardinality(S) + Cardinality(B) - Cardinality(S \cap B)
  BY <1>1, FS_Union
<1>7. Cardinality(S \cup B) = Cardinality(S) + (hi - lo)
  BY <1>1, <1>4, <1>5, <1>6
<1> QED BY <1>6, <1>7 DEF B

\* The lines and gaps on a page are what its blocks take.
LEMMA LinesTaken ==
  ASSUME NEW blocks, NEW l, IsChapter(blocks, l), NEW i \in 1..Len(blocks), NEW from \in Nat,
         from <= Height(blocks[i], l.wrap)
  PROVE  \A e \in (i + 1)..(Len(blocks) + 1) :
            /\ IsFiniteSet(LinesFrom(blocks, l, i, from, e))
            /\ Cardinality(LinesFrom(blocks, l, i, from, e)) + Gap * (e - i - 1)
                  = Taken(blocks, l.wrap, i, from, e)
<1> DEFINE N == Len(blocks)
<1> DEFINE H(b) == Height(blocks[b], l.wrap)
<1> DEFINE S(e) == LinesFrom(blocks, l, i, from, e)
<1> DEFINE taken(e) == Taken(blocks, l.wrap, i, from, e)
<1> DEFINE P == {m \in Nat : i + 1 + m <= N + 1 =>
                    /\ IsFiniteSet(S(i + 1 + m))
                    /\ Cardinality(S(i + 1 + m)) + Gap * m = taken(i + 1 + m)}
<1>1. N \in Nat /\ i \in Nat /\ 1 <= i /\ i <= N /\ \A b \in 1..N : H(b) \in Nat
  BY ChapterIs
<1>2. /\ taken(i + 1) = H(i) - from
      /\ \A e \in (i + 1)..N : taken(e + 1) = taken(e) + Gap + H(e)
  BY TakenIs
<1>3. S(i + 1) = LineSet(i, from, H(i))
  <2>1. H(i) \in Nat
    BY <1>1
  <2>2. S(i + 1) = {x \in (i..i) \X Nat : (x[1] = i => from <= x[2]) /\ x[2] < H(x[1])}
    <3>1. (i + 1) - 1 = i
      BY <1>1
    <3> QED BY <3>1 DEF LinesFrom
  <2>3. i..i = {i}
    BY <1>1
  <2> HIDE DEF H, S
  <2> QED BY <2>1, <2>2, <2>3 DEF LineSet
<1>4. ASSUME NEW e \in (i + 1)..N PROVE S(e + 1) = S(e) \cup LineSet(e, 0, H(e))
  <2>1. H(e) \in Nat /\ e # i /\ (e + 1) - 1 = e /\ i..e = (i..(e - 1)) \cup {e} /\ e \in Nat
    BY <1>1
  <2>2. /\ S(e + 1) = {x \in (i..e) \X Nat : (x[1] = i => from <= x[2]) /\ x[2] < H(x[1])}
        /\ S(e) = {x \in (i..(e - 1)) \X Nat : (x[1] = i => from <= x[2]) /\ x[2] < H(x[1])}
    BY <2>1 DEF LinesFrom
  <2>3. LineSet(e, 0, H(e)) = {x \in {e} \X Nat : x[2] < H(e)}
    BY <2>1 DEF LineSet
  <2> HIDE DEF H, S
  <2>4. (i..e) \X Nat = ((i..(e - 1)) \X Nat) \cup ({e} \X Nat)
    BY <2>1
  <2> QED BY <2>1, <2>2, <2>3, <2>4
<1>5. ASSUME NEW e \in (i + 1)..N PROVE \A x \in S(e) : x[1] # e
  <2>1. \A x \in S(e) : x[1] \in i..(e - 1)
    BY DEF LinesFrom
  <2> QED BY <1>1, <2>1
<1>6. \A b \in 1..N : H(b) \in Nat
  BY <1>1
<1>7. from <= H(i)
  OBVIOUS
<1> HIDE DEF N, H, S, taken
<1>8. 0 \in P
  <2>1. i \in 1..N /\ i + 1 + 0 = i + 1
    BY <1>1
  <2>2. H(i) \in Nat
    BY <1>6, <2>1
  <2>3. IsFiniteSet(S(i + 1)) /\ Cardinality(S(i + 1)) = H(i) - from
    <3>1. IsFiniteSet(LineSet(i, from, H(i))) /\ Cardinality(LineSet(i, from, H(i))) = H(i) - from
      BY <1>7, <2>2, LinesOfBlock
    <3> QED BY <1>3, <3>1
  <2> QED BY <1>2, <2>1, <2>2, <2>3, GapAssumption
<1>9. ASSUME NEW m \in P PROVE m + 1 \in P
  <2>1. m \in Nat /\ (i + 1 + m <= N + 1 =>
                    /\ IsFiniteSet(S(i + 1 + m))
                    /\ Cardinality(S(i + 1 + m)) + Gap * m = taken(i + 1 + m))
    OBVIOUS
  <2> HIDE DEF P
  <2>2. SUFFICES ASSUME i + 1 + (m + 1) <= N + 1
                 PROVE  /\ IsFiniteSet(S(i + 1 + (m + 1)))
                        /\ Cardinality(S(i + 1 + (m + 1))) + Gap * (m + 1) = taken(i + 1 + (m + 1))
    BY <2>1 DEF P
  <2> DEFINE e == i + 1 + m
  <2>3. e \in (i + 1)..N /\ e \in 1..N /\ e + 1 = i + 1 + (m + 1) /\ e <= N + 1
    BY <1>1, <2>1, <2>2
  <2>4. IsFiniteSet(S(e)) /\ Cardinality(S(e)) + Gap * m = taken(e)
    BY <2>1, <2>3
  <2> HIDE DEF e
  <2>5. H(e) \in Nat
    BY <1>6, <2>3
  <2>6. \A x \in S(e) : x[1] # e
    BY <1>5, <2>3
  <2>7. /\ IsFiniteSet(S(e) \cup LineSet(e, 0, H(e)))
        /\ Cardinality(S(e) \cup LineSet(e, 0, H(e))) = Cardinality(S(e)) + (H(e) - 0)
    <3>1. 0 \in Nat /\ 0 <= H(e)
      BY <2>5
    <3> QED BY <2>4, <2>5, <2>6, <3>1, LinesOfMore
  <2>8. taken(e + 1) = taken(e) + Gap + H(e)
    BY <1>2, <2>3
  <2>9. Cardinality(S(e)) \in Nat
    BY <2>4, FS_CardinalityType
  <2>10. Gap * (m + 1) = Gap * m + Gap /\ Gap * m \in Nat
    BY <2>1, GapAssumption
  <2>11. Cardinality(S(e + 1)) + Gap * (m + 1) = taken(e + 1)
    <3>1. Cardinality(S(e + 1)) = Cardinality(S(e)) + H(e)
      <4>1. S(e + 1) = S(e) \cup LineSet(e, 0, H(e))
        BY <1>4, <2>3
      <4>2. Cardinality(S(e + 1)) = Cardinality(S(e)) + (H(e) - 0)
        BY <2>7, <4>1
      <4> QED BY <2>5, <2>9, <4>2
    <3> QED BY <2>4, <2>5, <2>8, <2>9, <2>10, <3>1, GapAssumption
  <2>12. IsFiniteSet(S(e + 1))
    BY <1>4, <2>3, <2>7
  <2> QED BY <2>3, <2>11, <2>12
<1>10. P = Nat
  <2> HIDE DEF P
  <2>1. P \in SUBSET Nat BY DEF P
  <2> QED BY <1>8, <1>9, <2>1, NatSet
<1>11. ASSUME NEW e \in (i + 1)..(N + 1)
       PROVE  IsFiniteSet(S(e)) /\ Cardinality(S(e)) + Gap * (e - i - 1) = taken(e)
  <2>1. e - i - 1 \in Nat /\ i + 1 + (e - i - 1) = e /\ e <= N + 1
    BY <1>1
  <2>2. e - i - 1 \in P
    BY <1>10, <2>1
  <2> DEFINE m == e - i - 1
  <2> HIDE DEF m
  <2>3. i + 1 + m <= N + 1 => /\ IsFiniteSet(S(i + 1 + m))
                              /\ Cardinality(S(i + 1 + m)) + Gap * m = taken(i + 1 + m)
    BY <2>2 DEF m
  <2> QED BY <2>1, <2>3 DEF m
<1> QED BY <1>11 DEF N, S, taken

\* A page is not longer than it may be, unless it is a block that cannot be split.
LEMMA PageFits ==
  ASSUME NEW blocks, NEW l, IsChapter(blocks, l), NEW i \in 1..Len(blocks), NEW from \in Nat,
         from <= Height(blocks[i], l.wrap)
  PROVE  LET p == Page(blocks, l, i, from)
         IN  \/ Cardinality({x \in LinesOf(blocks, l, p) : blocks[x[1]].lines > 0})
                  + Gap * (p.end - p.start - 1) <= l.height
             \/ p.end = p.start + 1 /\ ~blocks[p.start].splits
<1> DEFINE N == Len(blocks)
<1> DEFINE H(b) == Height(blocks[b], l.wrap)
<1> DEFINE L(b) == Lines(blocks[b], l.wrap)
<1> DEFINE p == Page(blocks, l, i, from)
<1> DEFINE last == p.end - 1
<1> DEFINE taken(e) == Taken(blocks, l.wrap, i, from, e)
<1> DEFINE S(e) == LinesFrom(blocks, l, i, from, e)
<1> DEFINE X == {x \in LinesOf(blocks, l, p) : blocks[x[1]].lines > 0}
<1>1. /\ N \in Nat /\ i \in Nat /\ 1 <= i /\ i <= N /\ l.height \in Nat
      /\ \A b \in 1..N : H(b) \in Nat /\ blocks[b].lines \in Nat /\ (H(b) = 0 <=> blocks[b].lines = 0)
  BY ChapterIs
<1>2. /\ last \in i..N /\ p.end = last + 1 /\ p.to \in Nat /\ p.start = i /\ p.from = from
      /\ p.to > 0 => p.to < H(last) /\ (last = i => p.to > from)
      /\ \/ p.to = 0 /\ taken(p.end) <= l.height
         \/ /\ p.to > 0
            /\ taken(last) + (IF last = i THEN 0 ELSE Gap) + p.to - (IF last = i THEN from ELSE 0) <= l.height
         \/ p.to = 0 /\ last = i /\ ~blocks[i].splits
  BY PageIs DEF GoodPage
<1>3. \A b \in 1..N : L(b) = IF H(b) = 0 THEN 1 ELSE H(b)
  BY LinesIs
<1>4. After(p) = IF p.to > 0 THEN <<last, p.to>> ELSE <<p.end, 0>>
  BY DEF After
<1>5. LinesOf(blocks, l, p) = {x \in AllLines(blocks, l) : ~Before(x, <<i, from>>) /\ Before(x, After(p))}
  BY LinesOfPage
<1>6. \A x : x \in AllLines(blocks, l) <=>
            x = <<x[1], x[2]>> /\ x[1] \in 1..N /\ x[2] \in Nat /\ x[2] < L(x[1])
  BY AllLinesAre
<1>7. /\ taken(i) = 0
      /\ \A e \in (i + 1)..(N + 1) : /\ IsFiniteSet(S(e))
                                     /\ Cardinality(S(e)) + Gap * (e - i - 1) = taken(e)
  BY TakenIs, LinesTaken
<1>8. \A e : \A x : x \in S(e) <=>
         /\ x = <<x[1], x[2]>> /\ x[1] \in i..(e - 1) /\ x[2] \in Nat
         /\ (x[1] = i => from <= x[2]) /\ x[2] < H(x[1])
  BY DEF LinesFrom
<1> HIDE DEF N, H, L, p, taken, S
<1>9. ASSUME NEW x
      PROVE  x \in X <=> /\ x = <<x[1], x[2]>> /\ x[1] \in 1..N /\ x[2] \in Nat /\ x[2] < H(x[1])
                         /\ ~Before(x, <<i, from>>) /\ Before(x, After(p))
  <2>1. ASSUME x[1] \in 1..N, x[2] \in Nat
        PROVE  (x[2] < L(x[1]) /\ blocks[x[1]].lines > 0) <=> x[2] < H(x[1])
    <3>1. H(x[1]) \in Nat /\ blocks[x[1]].lines \in Nat /\ (H(x[1]) = 0 <=> blocks[x[1]].lines = 0)
      BY <1>1, <2>1
    <3>2. L(x[1]) = IF H(x[1]) = 0 THEN 1 ELSE H(x[1])
      BY <1>3, <2>1
    <3> QED BY <2>1, <3>1, <3>2
  <2> QED BY <1>5, <1>6, <2>1
<1>10. last \in Nat /\ i <= last /\ last <= N
  BY <1>1, <1>2
<1> SUFFICES \/ Cardinality(X) + Gap * (p.end - p.start - 1) <= l.height
             \/ p.end = p.start + 1 /\ ~blocks[p.start].splits
  BY DEF p
<1> HIDE DEF X
<1>11. CASE p.to = 0 /\ taken(p.end) <= l.height
  <2>1. After(p)[1] = last + 1 /\ After(p)[2] = 0 /\ p.end = last + 1
    BY <1>2, <1>4, <1>11
  <2>2. ASSUME NEW x PROVE x \in X <=> x \in S(last + 1)
    <3>1. ASSUME x \in X PROVE x \in S(last + 1)
      <4>1. x = <<x[1], x[2]>> /\ x[1] \in 1..N /\ x[2] \in Nat /\ x[2] < H(x[1])
        BY <1>9, <3>1
      <4>2. i <= x[1] /\ (x[1] = i => from <= x[2])
        BY <1>1, <1>9, <3>1, <4>1 DEF Before
      <4>3. x[1] <= last
        BY <1>9, <1>10, <2>1, <3>1, <4>1 DEF Before
      <4>4. x[1] \in i..((last + 1) - 1)
        BY <1>1, <1>10, <4>1, <4>2, <4>3
      <4> QED BY <1>8, <4>1, <4>2, <4>4
    <3>2. ASSUME x \in S(last + 1) PROVE x \in X
      <4>1. /\ x = <<x[1], x[2]>> /\ x[1] \in i..((last + 1) - 1) /\ x[2] \in Nat
            /\ (x[1] = i => from <= x[2]) /\ x[2] < H(x[1])
        BY <1>8, <3>2
      <4>2. x[1] \in 1..N /\ x[1] \in Nat /\ i <= x[1] /\ x[1] < last + 1
        BY <1>1, <1>10, <4>1
      <4>3. ~Before(x, <<i, from>>)
        BY <1>1, <4>1, <4>2 DEF Before
      <4>4. Before(x, After(p))
        BY <2>1, <4>2 DEF Before
      <4> QED BY <1>9, <4>1, <4>2, <4>3, <4>4
    <3> QED BY <3>1, <3>2
  <2>3. X = S(last + 1)
    BY <2>2
  <2>4. last + 1 \in (i + 1)..(N + 1) /\ p.end - p.start - 1 = (last + 1) - i - 1
    BY <1>1, <1>2, <1>10
  <2>5. Cardinality(S(last + 1)) + Gap * ((last + 1) - i - 1) = taken(last + 1)
    BY <1>7, <2>4
  <2> QED BY <1>11, <2>1, <2>3, <2>4, <2>5
<1>12. CASE p.to = 0 /\ last = i /\ ~blocks[i].splits
  BY <1>2, <1>12
<1>13. CASE /\ p.to > 0
            /\ taken(last) + (IF last = i THEN 0 ELSE Gap) + p.to - (IF last = i THEN from ELSE 0) <= l.height
  <2> DEFINE lo == IF last = i THEN from ELSE 0
  <2>1. After(p)[1] = last /\ After(p)[2] = p.to
    BY <1>4, <1>13
  <2>2. lo \in Nat /\ lo <= p.to /\ p.to < H(last)
    BY <1>2, <1>13
  <2>3. \A x : x \in LineSet(last, lo, p.to) <=>
                  x = <<x[1], x[2]>> /\ x[1] = last /\ x[2] \in Nat /\ lo <= x[2] /\ x[2] < p.to
    <3> HIDE DEF lo
    <3>1. \A k : k \in lo..(p.to - 1) <=> k \in Nat /\ lo <= k /\ k < p.to
      BY <1>2, <2>2
    <3> QED BY <3>1 DEF LineSet
  <2>4. ASSUME NEW x PROVE x \in X <=> x \in S(last) \cup LineSet(last, lo, p.to)
    <3>1. ASSUME x \in X PROVE x \in S(last) \cup LineSet(last, lo, p.to)
      <4>1. x = <<x[1], x[2]>> /\ x[1] \in 1..N /\ x[2] \in Nat /\ x[2] < H(x[1])
        BY <1>9, <3>1
      <4>2. i <= x[1] /\ (x[1] = i => from <= x[2])
        BY <1>1, <1>9, <3>1, <4>1 DEF Before
      <4>3. x[1] < last \/ (x[1] = last /\ x[2] < p.to)
        BY <1>9, <2>1, <3>1 DEF Before
      <4>4. CASE x[1] < last
        <5>1. x[1] \in i..(last - 1)
          BY <1>1, <1>10, <4>1, <4>2, <4>4
        <5> QED BY <1>8, <4>1, <4>2, <5>1
      <4>5. CASE x[1] = last /\ x[2] < p.to
        <5>1. lo <= x[2]
          BY <4>1, <4>2, <4>5
        <5> QED BY <2>3, <4>1, <4>5, <5>1
      <4> QED BY <4>3, <4>4, <4>5
    <3>2. ASSUME x \in S(last) PROVE x \in X
      <4>1. /\ x = <<x[1], x[2]>> /\ x[1] \in i..(last - 1) /\ x[2] \in Nat
            /\ (x[1] = i => from <= x[2]) /\ x[2] < H(x[1])
        BY <1>8, <3>2
      <4>2. x[1] \in 1..N /\ x[1] \in Nat /\ i <= x[1] /\ x[1] < last
        BY <1>1, <1>10, <4>1
      <4>3. ~Before(x, <<i, from>>)
        BY <1>1, <4>1, <4>2 DEF Before
      <4>4. Before(x, After(p))
        BY <2>1, <4>2 DEF Before
      <4> QED BY <1>9, <4>1, <4>2, <4>3, <4>4
    <3>3. ASSUME x \in LineSet(last, lo, p.to) PROVE x \in X
      <4>1. x = <<x[1], x[2]>> /\ x[1] = last /\ x[2] \in Nat /\ lo <= x[2] /\ x[2] < p.to
        BY <2>3, <3>3
      <4>2. x[1] \in 1..N /\ x[1] \in Nat /\ i <= x[1] /\ x[2] < H(x[1])
        <5>1. last \in 1..N /\ H(last) \in Nat
          BY <1>1, <1>10
        <5>2. x[2] < H(last)
          BY <1>2, <2>2, <4>1, <5>1
        <5> QED BY <1>10, <4>1, <5>1, <5>2
      <4>3. ~Before(x, <<i, from>>)
        BY <1>1, <4>1, <4>2 DEF Before
      <4>4. Before(x, After(p))
        BY <2>1, <4>1 DEF Before
      <4> QED BY <1>9, <4>1, <4>2, <4>3, <4>4
    <3> QED BY <3>1, <3>2, <3>3
  <2>5. X = S(last) \cup LineSet(last, lo, p.to)
    BY <2>4
  <2>6. \A x \in S(last) : x[1] # last
    BY <1>1, <1>8, <1>10
  <2>7. CASE last = i
    <3>1. S(last) = {}
      <4>1. i..(last - 1) = {}
        BY <1>1, <2>7
      <4> QED BY <1>8, <4>1
    <3>2. IsFiniteSet(S(last)) /\ Cardinality(S(last)) = 0
      BY <3>1, FS_EmptySet
    <3>3. Cardinality(X) = p.to - from
      <4>1. from <= p.to
        BY <2>2, <2>7
      <4>2. Cardinality(S(last) \cup LineSet(last, from, p.to)) = Cardinality(S(last)) + (p.to - from)
        BY <1>2, <2>6, <3>2, <4>1, LinesOfMore
      <4> QED BY <1>2, <2>5, <2>7, <3>2, <4>2
    <3>4. Gap * (p.end - p.start - 1) = 0
      <4>1. p.end - p.start - 1 = 0
        BY <1>1, <1>2, <2>7
      <4> QED BY <4>1, GapAssumption
    <3>5. p.to - from <= l.height
      BY <1>1, <1>2, <1>7, <1>13, <2>7
    <3> QED BY <1>1, <1>2, <3>3, <3>4, <3>5
  <2>8. CASE last # i
    <3>1. last \in (i + 1)..(N + 1)
      BY <1>1, <1>10, <2>8
    <3>2. IsFiniteSet(S(last)) /\ Cardinality(S(last)) + Gap * (last - i - 1) = taken(last)
      BY <1>7, <3>1
    <3>3. Cardinality(S(last)) \in Nat
      BY <3>2, FS_CardinalityType
    <3>4. Cardinality(X) = Cardinality(S(last)) + p.to
      <4>1. 0 <= p.to
        BY <1>2
      <4>2. Cardinality(S(last) \cup LineSet(last, 0, p.to)) = Cardinality(S(last)) + (p.to - 0)
        <5>1. 0 \in Nat /\ p.to \in Nat
          BY <1>2
        <5> QED BY <2>6, <3>2, <4>1, <5>1, LinesOfMore
      <4> QED BY <1>2, <2>5, <2>8, <3>3, <4>2
    <3>5. p.end - p.start - 1 = (last - i - 1) + 1 /\ last - i - 1 \in Nat
      <4>1. last - i - 1 \in Nat
        BY <1>1, <1>10, <2>8
      <4>2. p.end - p.start - 1 = last + 1 - i - 1
        BY <1>2
      <4> HIDE DEF last
      <4> QED BY <1>1, <1>10, <4>1, <4>2
    <3>6. Gap * (p.end - p.start - 1) = Gap * (last - i - 1) + Gap /\ Gap * (last - i - 1) \in Nat
      <4>1. \A n \in Nat : Gap * (n + 1) = Gap * n + Gap /\ Gap * n \in Nat
        BY GapAssumption
      <4> QED BY <3>5, <4>1
    <3>7. taken(last) + Gap + p.to <= l.height
      <4>1. taken(last) \in Int
        BY <3>2, <3>3, <3>6
      <4> QED BY <1>1, <1>2, <1>13, <2>8, <4>1, GapAssumption
    <3>8. Cardinality(X) + Gap * (p.end - p.start - 1) <= l.height
      <4> DEFINE g == Gap * (last - i - 1)
      <4> DEFINE c == Cardinality(S(last))
      <4>1. g \in Nat /\ c \in Nat /\ c + g = taken(last)
        BY <3>2, <3>3, <3>6
      <4>2. Cardinality(X) = c + p.to /\ Gap * (p.end - p.start - 1) = g + Gap
        BY <3>4, <3>6
      <4> HIDE DEF g, c
      <4> QED BY <1>1, <1>2, <3>7, <4>1, <4>2, GapAssumption
    <3> QED BY <3>8
  <2> QED BY <2>7, <2>8
<1> QED BY <1>2, <1>11, <1>12, <1>13

\* The pages paginate_blocks makes of any chapter, for any layout, are the
\* chapter: each line is on one page, no page is empty, and only a block that
\* cannot be split is longer than its page.
THEOREM PagesAreTheChapter ==
  ASSUME NEW blocks, NEW l, IsChapter(blocks, l)
  PROVE  ReadsAsWhole(blocks, l, Paginate(blocks, l))
<1> DEFINE pages == Paginate(blocks, l)
<1>1. PICK path : /\ Begins(blocks, l, path)
                  /\ pages = [k \in 1..(Len(path) - 1) |-> Page(blocks, l, path[k][1], path[k][2])]
  BY PaginateIs
<1> DEFINE n == Len(path) - 1
<1>2. /\ Len(path) \in Nat /\ Len(path) > 1
      /\ path[1] = <<1, 0>> /\ path[Len(path)][1] = Len(blocks) + 1
      /\ \A k \in 1..Len(path) : path[k] = <<path[k][1], path[k][2]>> /\ Inside(blocks, l, path[k])
      /\ \A k \in 1..n : /\ path[k][1] \in 1..Len(blocks)
                         /\ path[k + 1] = After(Page(blocks, l, path[k][1], path[k][2]))
  BY <1>1 DEF Begins
<1>3. n \in Nat /\ 1 <= n /\ n + 1 = Len(path)
  BY <1>2
<1>4. Len(pages) = n /\ \A k \in 1..n : pages[k] = Page(blocks, l, path[k][1], path[k][2])
  BY <1>1, <1>3
<1>5. ASSUME NEW k \in 1..n
      PROVE  LinesOf(blocks, l, pages[k]) =
                {x \in AllLines(blocks, l) : ~Before(x, path[k]) /\ Before(x, path[k + 1])}
  <2>1. k \in 1..Len(path)
    BY <1>2, <1>3
  <2>2. path[k][1] \in 1..Len(blocks) /\ path[k][2] \in Nat /\ path[k] = <<path[k][1], path[k][2]>>
    BY <1>2, <2>1 DEF Inside, PlacesIn
  <2>3. LinesOf(blocks, l, Page(blocks, l, path[k][1], path[k][2])) =
           {x \in AllLines(blocks, l) : /\ ~Before(x, <<path[k][1], path[k][2]>>)
                                        /\ Before(x, After(Page(blocks, l, path[k][1], path[k][2])))}
    BY <2>2, LinesOfPage
  <2> QED BY <1>2, <1>4, <2>2, <2>3
<1>6. \A x \in AllLines(blocks, l) : /\ x[1] \in 1..Len(blocks) /\ x[2] \in Nat /\ x[1] \in Int /\ x[2] \in Int
                                     /\ x = <<x[1], x[2]>>
  BY AllLinesAre
<1>7. Len(blocks) \in Nat
  BY ChapterIs
<1> HIDE DEF pages
<1>8. ASSUME NEW x \in AllLines(blocks, l) PROVE \E k \in 1..n : x \in LinesOf(blocks, l, pages[k])
  <2> DEFINE K == {k \in 1..(n + 1) : ~Before(x, path[k])}
  <2>1. x[1] \in 1..Len(blocks) /\ x[2] \in Nat
    BY <1>6
  <2>2. ~Before(x, path[1])
    BY <1>2, <2>1 DEF Before
  <2>3. Before(x, path[n + 1])
    BY <1>2, <1>3, <1>7, <2>1 DEF Before
  <2>4. K \in SUBSET Int /\ 1 \in K /\ n + 1 \in Int /\ \A k \in K : k <= n + 1
    BY <1>3, <2>2
  <2>5. Max(K) \in K /\ \A k \in K : k <= Max(K)
    <3> HIDE DEF K
    <3>1. K # {}
      BY <2>4
    <3> QED BY <2>4, <3>1, HasMax
  <2> DEFINE m == Max(K)
  <2>6. m \in 1..(n + 1) /\ ~Before(x, path[m]) /\ m # n + 1
    BY <2>3, <2>5
  <2>7. m \in 1..n /\ m + 1 \in 1..(n + 1) /\ m + 1 \notin K
    <3> HIDE DEF m, K
    <3>1. n \in Nat /\ m \in Nat /\ 1 <= m /\ m <= n + 1 /\ m # n + 1
      <4> HIDE DEF n
      <4> QED BY <1>3, <2>6
    <3>2. m \in 1..n /\ m + 1 \in 1..(n + 1) /\ ~(m + 1 <= m)
      <4> HIDE DEF n
      <4> QED BY <3>1
    <3> QED BY <2>5, <3>2 DEF m
  <2>8. Before(x, path[m + 1])
    BY <2>7
  <2> HIDE DEF m
  <2> QED BY <1>5, <2>6, <2>7, <2>8
<1>9. UNION {LinesOf(blocks, l, pages[k]) : k \in 1..n} = AllLines(blocks, l)
  BY <1>5, <1>8
<1>10. ASSUME NEW j \in 1..n, NEW k \in 1..n, j < k
       PROVE  LinesOf(blocks, l, pages[j]) \cap LinesOf(blocks, l, pages[k]) = {}
  <2>1. SUFFICES ASSUME NEW x, x \in LinesOf(blocks, l, pages[j]), x \in LinesOf(blocks, l, pages[k])
                 PROVE  FALSE
    OBVIOUS
  <2>2. x \in AllLines(blocks, l) /\ Before(x, path[j + 1]) /\ ~Before(x, path[k])
    BY <1>5, <2>1
  <2>3. j + 1 \in 1..Len(path) /\ k \in (j + 1)..Len(path)
    BY <1>3, <1>10
  <2> QED BY <1>1, <1>6, <2>2, <2>3, Later
<1>11. ASSUME NEW k \in 1..n PROVE LinesOf(blocks, l, pages[k]) # {}
  <2> DEFINE i == path[k][1]
  <2> DEFINE from == path[k][2]
  <2>1. k \in 1..Len(path)
    BY <1>2, <1>3
  <2>2. i \in 1..Len(blocks) /\ from \in Nat /\ path[k] = <<i, from>> /\ (from > 0 => from < Height(blocks[i], l.wrap))
    BY <1>2, <2>1 DEF Inside, PlacesIn
  <2>3. <<i, from>> \in AllLines(blocks, l)
    <3>1. Height(blocks[i], l.wrap) \in Nat
      BY <2>2, ChapterIs
    <3>2. from < Lines(blocks[i], l.wrap)
      BY <2>2, <3>1, LinesIs
    <3> DEFINE x == <<i, from>>
    <3>3. x = <<x[1], x[2]>> /\ x[1] \in 1..Len(blocks) /\ x[2] \in Nat /\ x[2] < Lines(blocks[x[1]], l.wrap)
      BY <2>2, <3>2
    <3> QED BY <3>3, AllLinesAre
  <2>4. ~Before(<<i, from>>, path[k])
    BY <1>7, <2>2 DEF Before
  <2>5. Before(<<i, from>>, path[k + 1])
    <3>1. path[k + 1] = After(Page(blocks, l, i, from))
      BY <1>2
    <3> DEFINE a == After(Page(blocks, l, i, from))
    <3>2. a[1] \in i..(Len(blocks) + 1) /\ (a[1] = i => a[2] > from)
      BY <2>2, AfterIs
    <3> HIDE DEF a, i, from
    <3>3. i < a[1] \/ (i = a[1] /\ from < a[2])
      <4>1. i \in Int
        BY <1>7, <2>2
      <4>2. a[1] \in Int /\ i <= a[1]
        BY <1>7, <3>2, <4>1
      <4> QED BY <2>2, <3>2, <4>1, <4>2
    <3> QED BY <3>1, <3>3 DEF Before, a
  <2> QED BY <1>5, <2>3, <2>4, <2>5
<1>12. ASSUME NEW k \in 1..n
       PROVE  \/ Cardinality({x \in LinesOf(blocks, l, pages[k]) : blocks[x[1]].lines > 0})
                    + Gap * (pages[k].end - pages[k].start - 1) <= l.height
              \/ pages[k].end = pages[k].start + 1 /\ ~blocks[pages[k].start].splits
  <2>1. k \in 1..Len(path)
    BY <1>2, <1>3
  <2>2. /\ path[k][1] \in 1..Len(blocks) /\ path[k][2] \in Nat
        /\ path[k][2] > 0 => path[k][2] < Height(blocks[path[k][1]], l.wrap)
    BY <1>2, <2>1 DEF Inside, PlacesIn
  <2>3. Height(blocks[path[k][1]], l.wrap) \in Nat
    BY <2>2, ChapterIs
  <2>4. path[k][2] <= Height(blocks[path[k][1]], l.wrap)
    BY <2>2, <2>3
  <2> DEFINE p == Page(blocks, l, path[k][1], path[k][2])
  <2>5. \/ Cardinality({x \in LinesOf(blocks, l, p) : blocks[x[1]].lines > 0})
              + Gap * (p.end - p.start - 1) <= l.height
        \/ p.end = p.start + 1 /\ ~blocks[p.start].splits
    BY <2>2, <2>4, PageFits
  <2>6. pages[k] = p
    BY <1>4
  <2> HIDE DEF p
  <2> QED BY <2>5, <2>6
<1> QED BY <1>4, <1>9, <1>10, <1>11, <1>12 DEF ReadsAsWhole, pages

\* The index of a page with block b is the first of those that hold it.
LEMMA PageWithIs ==
  ASSUME NEW pages, Len(pages) \in Nat, NEW b
  PROVE  LET I == {k \in 1..Len(pages) : Holds(pages[k], b)}
         IN  /\ PageWith(pages, b) = IF I = {} THEN 0 ELSE Min(I) - 1
             /\ I # {} => Min(I) \in I /\ \A k \in I : Min(I) <= k
<1> DEFINE I == {k \in 1..Len(pages) : Holds(pages[k], b)}
<1>1. SelectInSeq(pages, LAMBDA p : Holds(p, b)) = IF I # {} THEN Min(I) ELSE 0
  BY DEF SelectInSeq
<1>2. ASSUME I # {} PROVE Min(I) \in I /\ \A k \in I : Min(I) <= k
  <2> HIDE DEF I
  <2>1. I \in SUBSET Int /\ \A k \in I : 1 <= k
    BY DEF I
  <2> QED BY <1>2, <2>1, HasMin
<1>3. I # {} => Min(I) \in Nat \ {0}
  <2>1. ASSUME I # {} PROVE Min(I) \in 1..Len(pages)
    BY <1>2, <2>1
  <2> HIDE DEF I
  <2> QED BY <2>1
<1> HIDE DEF I
<1>4. PageWith(pages, b) = IF I = {} THEN 0 ELSE Min(I) - 1
  <2> DEFINE n == SelectInSeq(pages, LAMBDA p : Holds(p, b))
  <2>1. PageWith(pages, b) = IF n = 0 THEN 0 ELSE n - 1
    BY DEF PageWith
  <2> HIDE DEF n
  <2>2. n = IF I # {} THEN Min(I) ELSE 0
    BY <1>1 DEF n
  <2> QED BY <1>3, <2>1, <2>2
<1> QED BY <1>2, <1>4 DEF I

\* The pages of a chapter: there is one, every block is on one of them, and
\* each of them begins and ends with blocks of the chapter.
LEMMA PagesAre ==
  ASSUME NEW blocks, NEW l, IsChapter(blocks, l)
  PROVE  LET pages == Paginate(blocks, l)
         IN  /\ Len(pages) \in Nat /\ Len(pages) >= 1
             /\ \A k \in 1..Len(pages) : /\ pages[k].start \in 1..Len(blocks)
                                         /\ pages[k].end \in 2..(Len(blocks) + 1)
                                         /\ pages[k].start < pages[k].end
             /\ pages[1].start = 1
             /\ \A b \in 1..Len(blocks) :
                   /\ PageWith(pages, b) \in Nat /\ PageWith(pages, b) < Len(pages)
                   /\ Holds(pages[PageWith(pages, b) + 1], b)
             /\ PageWith(pages, 1) = 0
<1> DEFINE N == Len(blocks)
<1> DEFINE pages == Paginate(blocks, l)
<1>1. PICK path : /\ Begins(blocks, l, path)
                  /\ pages = [k \in 1..(Len(path) - 1) |-> Page(blocks, l, path[k][1], path[k][2])]
  BY PaginateIs
<1> DEFINE n == Len(path) - 1
<1>2. /\ Len(path) \in Nat /\ Len(path) > 1 /\ path[1] = <<1, 0>>
      /\ \A k \in 1..Len(path) : Inside(blocks, l, path[k])
      /\ \A k \in 1..n : path[k][1] \in 1..N
  BY <1>1 DEF Begins
<1>3. n \in Nat /\ 1 <= n
  BY <1>2
<1>4. Len(pages) = n /\ \A k \in 1..n : pages[k] = Page(blocks, l, path[k][1], path[k][2])
  BY <1>1, <1>3
<1>5. N \in Nat /\ 1 <= N
  BY ChapterIs
<1>6. ASSUME NEW k \in 1..n
      PROVE  /\ pages[k].start = path[k][1] /\ pages[k].start \in 1..N
             /\ pages[k].end \in 2..(N + 1) /\ pages[k].start < pages[k].end
  <2>1. k \in 1..Len(path)
    BY <1>2, <1>3
  <2>2. path[k][1] \in 1..N /\ path[k][2] \in Nat
    BY <1>2, <2>1 DEF Inside, PlacesIn
  <2> DEFINE p == Page(blocks, l, path[k][1], path[k][2])
  <2>3. GoodPage(blocks, l, path[k][1], path[k][2], p)
    BY <2>2, PageIs
  <2> HIDE DEF p
  <2>4. /\ p = [start |-> path[k][1], from |-> path[k][2], end |-> p.end, to |-> p.to]
        /\ p.end - 1 \in path[k][1]..N /\ p.end = (p.end - 1) + 1
    BY <2>3 DEF GoodPage
  <2>5. p.start = path[k][1]
    BY <2>4
  <2> DEFINE i == path[k][1]
  <2> DEFINE e == p.end - 1
  <2>6. i \in 1..N /\ e \in i..N /\ p.end = e + 1
    BY <2>2, <2>4
  <2> HIDE DEF i, e
  <2>7. p.end \in 2..(N + 1) /\ i < p.end
    BY <1>5, <2>6
  <2>8. pages[k] = p
    BY <1>4 DEF p
  <2> QED BY <2>2, <2>5, <2>7, <2>8 DEF i
<1>7. ReadsAsWhole(blocks, l, pages)
  BY PagesAreTheChapter
<1> HIDE DEF pages
<1>8. pages[1].start = 1
  BY <1>2, <1>3, <1>6
<1>9. ASSUME NEW b \in 1..N PROVE \E k \in 1..n : Holds(pages[k], b)
  <2> DEFINE x == <<b, 0>>
  <2>1. x \in AllLines(blocks, l)
    <3>1. Lines(blocks[b], l.wrap) \in Nat \ {0}
      BY LinesIs, ChapterIs
    <3>2. x = <<x[1], x[2]>> /\ x[1] \in 1..N /\ x[2] \in Nat /\ x[2] < Lines(blocks[x[1]], l.wrap)
      BY <3>1
    <3> QED BY <3>2, AllLinesAre
  <2>2. PICK k \in 1..n : x \in LinesOf(blocks, l, pages[k])
    BY <1>4, <1>7, <2>1 DEF ReadsAsWhole
  <2>3. b \in pages[k].start..(pages[k].end - 1)
    BY <2>2 DEF LinesOf
  <2> QED BY <1>5, <1>6, <2>3 DEF Holds
<1>10. ASSUME NEW b \in 1..N
       PROVE  /\ PageWith(pages, b) \in Nat /\ PageWith(pages, b) < n
              /\ Holds(pages[PageWith(pages, b) + 1], b)
              /\ \A k \in 1..n : Holds(pages[k], b) => PageWith(pages, b) + 1 <= k
  <2> DEFINE I == {k \in 1..n : Holds(pages[k], b)}
  <2>1. I # {}
    BY <1>9
  <2>2. PageWith(pages, b) = Min(I) - 1 /\ Min(I) \in I /\ \A k \in I : Min(I) <= k
    BY <1>3, <1>4, <2>1, PageWithIs
  <2> DEFINE m == Min(I)
  <2>3. m \in 1..n /\ Holds(pages[m], b) /\ \A k \in 1..n : Holds(pages[k], b) => m <= k
    BY <2>2
  <2>4. PageWith(pages, b) = m - 1
    BY <2>2
  <2> HIDE DEF m
  <2>5. (m - 1) + 1 = m /\ m - 1 \in Nat /\ m - 1 < n
    BY <1>3, <2>3
  <2> QED BY <2>3, <2>4, <2>5
<1>11. PageWith(pages, 1) = 0
  <2>1. Holds(pages[1], 1)
    BY <1>3, <1>5, <1>6, <1>8 DEF Holds
  <2> QED BY <1>3, <1>5, <1>10, <2>1
<1> QED BY <1>3, <1>4, <1>6, <1>8, <1>10, <1>11 DEF pages

(***************************************************************************)
(* The EPUB viewer.                                                        *)
(***************************************************************************)
Matches == {m \in [chapter : Chapters, at : Nat] : m.at \in 1..Len(Hits[m.chapter])}

Viewer ==
    [mode : Modes, loaded : 0..Len(Book), active : Chapters, initial : Chapters \cup {None},
     path : Nodes, pending : Nat, page : Nat, y : Nat, layout : Layouts \cup {None},
     cache : [Chapters -> Layouts \cup {None}], search : Matches \cup {None}]

\* There are pages only when the window has been drawn.
Typed(v) ==
    /\ v \in Viewer
    /\ v.loaded > 0 => v.active <= v.loaded /\ Spine <= v.loaded
    /\ \A c \in Chapters : v.cache[c] # None => v.layout # None

\* The page is one of the active chapter's.
Sound(v) ==
    /\ Typed(v)
    /\ v.mode = "paginated" /\ Cached(v, v.active) /\ v.pending = 0 => v.page < Len(Pages(v))

\* Nothing has happened to a viewer without chapters but what the position
\* brought.
Blank(v) ==
    /\ v.active = 1 /\ v.page = 0 /\ v.y = 0 /\ v.pending = 0
    /\ v.layout = None /\ v.search = None

\* Block b of the active chapter is going to be shown: it is deferred, or
\* the page is the one with it.
Heads(v, b) ==
    \/ v.pending = b
    \/ /\ v.pending = 0
       /\ \/ b = 1 /\ v.page = 0
          \/ /\ Cached(v, v.active) /\ v.cache[v.active] = v.layout
             /\ v.page = PageWith(Pages(v), b)

AtTarget(v, t) ==
    t # None /\ t.sure /\ v.mode = "paginated" =>
        /\ v.loaded > 0 /\ v.active = t.chapter /\ t.block \in BlocksOf(t.chapter)
        /\ Heads(v, t.block)

AtOrigin(v, pos) ==
    pos # None /\ pos.chapter <= Spine =>
        LET b == Resolve(Book[pos.chapter], pos.node)
        IN  /\ v.active = pos.chapter
            /\ IF v.mode = "paginated" THEN Heads(v, b) ELSE v.y = Top(Book[pos.chapter], 1, b)

\* What the messages that have come have left in a viewer without chapters.
Noted(v) ==
    /\ "epub" \in awaited => v.loaded = 0
    /\ "progress" \in awaited => origin = None
    /\ v.loaded = 0 => /\ Blank(v)
                       /\ v.initial = IF origin = None THEN None ELSE origin.chapter
                       /\ v.path = IF origin = None THEN 0 ELSE origin.node

EpubInv ==
    /\ awaited \subseteq {"epub", "progress"}
    /\ stored \in Positions \cup {None} /\ origin \in Positions \cup {None}
    /\ mode \in Modes /\ opens \in 0..MaxOpens /\ acts \in 0..MaxActs /\ touched \in BOOLEAN
    /\ viewer # None =>
          /\ Sound(viewer)
          /\ Noted(viewer)
          /\ AtTarget(viewer, target)
          /\ ~touched /\ awaited = {} /\ viewer.loaded > 0 => AtOrigin(viewer, origin)

\* Min of two numbers.
LEMMA LessOfTwo ==
  ASSUME NEW a \in Int, NEW b \in Int
  PROVE  Min({a, b}) = IF a <= b THEN a ELSE b
<1> DEFINE S == {a, b}
<1> DEFINE low == IF a <= b THEN a ELSE b
<1>1. S \in SUBSET Int /\ S # {} /\ low \in Int /\ \A x \in S : low <= x
  OBVIOUS
<1>2. Min(S) \in S /\ \A x \in S : Min(S) <= x
  <2> HIDE DEF S, low
  <2> QED BY <1>1, HasMin
<1> QED BY <1>2

\* Max of two numbers.
LEMMA MoreOfTwo ==
  ASSUME NEW a \in Int, NEW b \in Int
  PROVE  Max({a, b}) = IF a <= b THEN b ELSE a
<1> DEFINE S == {a, b}
<1> DEFINE high == IF a <= b THEN b ELSE a
<1>1. S \in SUBSET Int /\ S # {} /\ high \in Int /\ \A x \in S : x <= high
  OBVIOUS
<1>2. Max(S) \in S /\ \A x \in S : x <= Max(S)
  <2> HIDE DEF S, high
  <2> QED BY <1>1, HasMax
<1> QED BY <1>2

\* What the assumptions say of chapters.
LEMMA BookIs ==
  /\ Len(Book) \in Nat /\ Chapters = 1..Len(Book) /\ 1 \in Chapters
  /\ Spine \in Chapters /\ Len(Book) <= Spine + 1
  /\ \A c \in Chapters : /\ Book[c] \in Seq(Block) /\ Book[c] # << >>
                         /\ Len(Book[c]) \in Nat /\ 1 \in BlocksOf(c)
                         /\ \A b \in BlocksOf(c) : Book[c][b] \in Block /\ Book[c][b].node \in Nodes
                         /\ Hits[c] \in Seq(BlocksOf(c))
                         /\ \A l \in Layouts : IsChapter(Book[c], l)
<1>1. Book \in Seq(Seq(Block)) /\ Len(Book) \in Nat /\ Chapters = 1..Len(Book)
  BY BookAssumption DEF Chapters
<1>2. Spine \in Chapters /\ Len(Book) <= Spine + 1 /\ 1 \in Chapters
  BY <1>1, BookAssumption
<1>3. ASSUME NEW c \in Chapters
      PROVE  Book[c] \in Seq(Block) /\ Book[c] # << >> /\ Hits[c] \in Seq(BlocksOf(c))
  BY <1>1, BookAssumption
<1>4. ASSUME NEW c \in Chapters PROVE Len(Book[c]) \in Nat /\ Len(Book[c]) >= 1
  BY <1>3
<1>5. ASSUME NEW c \in Chapters, NEW b \in BlocksOf(c)
      PROVE  Book[c][b] \in Block /\ Book[c][b].node \in Nodes
  BY <1>3 DEF BlocksOf, Nodes
<1>6. ASSUME NEW c \in Chapters, NEW l \in Layouts PROVE IsChapter(Book[c], l)
  BY <1>3, BookAssumption DEF IsChapter
<1> QED BY <1>1, <1>2, <1>3, <1>4, <1>5, <1>6 DEF BlocksOf

\* The pages of a chapter in a layout.
LEMMA TableIs ==
  ASSUME NEW c \in Chapters, NEW l \in Layouts
  PROVE  LET pages == PageTable[c][l]
         IN  /\ pages = Paginate(Book[c], l)
             /\ Len(pages) \in Nat /\ Len(pages) >= 1
             /\ \A k \in 1..Len(pages) : pages[k].start \in BlocksOf(c)
             /\ \A b : PageWith(pages, b) \in Nat /\ PageWith(pages, b) < Len(pages)
             /\ \A b \in BlocksOf(c) : Holds(pages[PageWith(pages, b) + 1], b)
             /\ PageWith(pages, 1) = 0
<1> DEFINE pages == PageTable[c][l]
<1>1. pages = Paginate(Book[c], l)
  BY DEF PageTable
<1>2. IsChapter(Book[c], l)
  BY BookIs
<1> HIDE DEF pages
<1>3. /\ Len(pages) \in Nat /\ Len(pages) >= 1
      /\ \A k \in 1..Len(pages) : pages[k].start \in 1..Len(Book[c])
      /\ \A b \in 1..Len(Book[c]) : Holds(pages[PageWith(pages, b) + 1], b)
      /\ PageWith(pages, 1) = 0
  BY <1>1, <1>2, PagesAre
<1>4. ASSUME NEW b PROVE PageWith(pages, b) \in Nat /\ PageWith(pages, b) < Len(pages)
  <2> DEFINE I == {k \in 1..Len(pages) : Holds(pages[k], b)}
  <2>1. /\ PageWith(pages, b) = IF I = {} THEN 0 ELSE Min(I) - 1
        /\ I # {} => Min(I) \in I
    BY <1>3, PageWithIs
  <2>2. I # {} => Min(I) \in 1..Len(pages)
    BY <2>1
  <2> HIDE DEF I
  <2> QED BY <1>3, <2>1, <2>2
<1> QED BY <1>1, <1>3, <1>4 DEF pages, BlocksOf

\* A path leads to a block of the chapter.
LEMMA ResolveIs ==
  ASSUME NEW blocks \in Seq(Block), blocks # << >>, NEW node
  PROVE  Resolve(blocks, node) \in 1..Len(blocks) /\ Resolve(blocks, 0) = 1
<1> DEFINE found(n) == {i \in 1..Len(blocks) : n # 0 /\ blocks[i].node = n}
<1>1. Len(blocks) \in Nat /\ Len(blocks) >= 1
  OBVIOUS
<1>2. \A n : Resolve(blocks, n) = IF found(n) = {} THEN 1 ELSE Max(found(n))
  BY DEF Resolve
<1>3. \A n : found(n) \in SUBSET (1..Len(blocks))
  OBVIOUS
<1>4. found(0) = {}
  OBVIOUS
<1> HIDE DEF found
<1>5. found(node) # {} => Max(found(node)) \in found(node)
  <2> DEFINE S == found(node)
  <2>1. S \in SUBSET Int /\ \A x \in S : x <= Len(blocks)
    BY <1>1, <1>3
  <2>2. Len(blocks) \in Int
    BY <1>1
  <2> HIDE DEF S
  <2>3. S # {} => Max(S) \in S
    BY <2>1, <2>2, HasMax
  <2> QED BY <2>3 DEF S
<1> QED BY <1>1, <1>2, <1>3, <1>4, <1>5

\* So does an offset.
LEMMA BlockAtIs ==
  ASSUME NEW blocks \in Seq(Block), blocks # << >>, NEW w, NEW y
  PROVE  BlockAt(blocks, w, y) \in 1..Len(blocks)
<1> DEFINE below == {i \in 1..Len(blocks) : Top(blocks, w, i) + Height(blocks[i], w) > y}
<1>1. Len(blocks) \in Nat /\ Len(blocks) >= 1
  OBVIOUS
<1>2. BlockAt(blocks, w, y) = IF below # {} THEN Min(below) ELSE Max({1, Len(blocks)})
  BY DEF BlockAt
<1>3. below \in SUBSET (1..Len(blocks))
  OBVIOUS
<1> HIDE DEF below
<1>4. below # {} => Min(below) \in below
  <2>1. \A x \in below : x \in Int /\ 1 <= x
    BY <1>1, <1>3
  <2> QED BY <2>1, HasMin
<1>5. Max({1, Len(blocks)}) = Len(blocks)
  BY <1>1, MoreOfTwo
<1>6. CASE below = {}
  BY <1>1, <1>2, <1>5, <1>6
<1>7. CASE below # {}
  BY <1>2, <1>3, <1>4, <1>7
<1> QED BY <1>6, <1>7

\* Whether an update computes the pages of the active chapter.
Paginates(v) == v.mode = "paginated" /\ v.layout # None /\ v.loaded > 0

\* The parts of a typed viewer.
LEMMA TypedIs ==
  ASSUME NEW v, Typed(v)
  PROVE  /\ v \in Viewer
         /\ v.mode \in Modes /\ v.loaded \in Nat /\ v.active \in Chapters /\ v.active \in Nat /\ v.active >= 1
         /\ v.pending \in Nat /\ v.page \in Nat /\ v.y \in Nat
         /\ v.layout \in Layouts \cup {None}
         /\ \A c \in Chapters : v.cache[c] \in Layouts \cup {None}
         /\ Blocks(v) = Book[v.active]
         /\ v.loaded > 0 => v.active <= v.loaded
<1>1. v \in Viewer /\ (v.loaded > 0 => v.active <= v.loaded)
  BY DEF Typed
<1>2. Len(Book) \in Nat /\ Chapters = 1..Len(Book)
  BY BookIs
<1> QED BY <1>1, <1>2 DEF Viewer, Blocks

\* What an update does before it looks at the message.
LEMMA RepaginatedAs ==
  ASSUME NEW v, Typed(v)
  PROVE  LET c == v.active
             pages == PageTable[c][v.layout]
         IN  Repaginated(v) =
                IF Paginates(v)
                THEN [v EXCEPT !.cache[c] = v.layout,
                               !.pending = 0,
                               !.page = IF v.pending # 0 THEN PageWith(pages, v.pending)
                                        ELSE IF v.cache[c] = v.layout THEN v.page
                                        ELSE Min({v.page, Len(pages) - 1})]
                ELSE v
<1> DEFINE c == v.active
<1> DEFINE u == [v EXCEPT !.cache[c] = v.layout,
                          !.page = IF v.cache[c] = v.layout THEN v.page
                                   ELSE Min({v.page, Len(PageTable[c][v.layout]) - 1})]
<1>1. v \in Viewer /\ c \in Chapters /\ v.mode \in Modes /\ v.loaded \in Nat /\ c \in Nat /\ c >= 1
      /\ (v.loaded > 0 => c <= v.loaded)
  BY TypedIs
<1>2. Repaginated(v) = IF v.mode = "scroll" \/ v.layout = None \/ c > v.loaded THEN v ELSE LookedUp(u)
  BY DEF Repaginated
<1>3. (v.mode = "scroll" \/ v.layout = None \/ c > v.loaded) <=> ~Paginates(v)
  BY <1>1 DEF Paginates, Modes
<1>4. u.active = c /\ u.cache[c] = v.layout /\ u.pending = v.pending
  BY <1>1 DEF Viewer
<1>5. Pages(u) = PageTable[c][v.layout]
  BY <1>4 DEF Pages
<1>6. CASE v.pending = 0
  <2>1. LookedUp(u) = u
    BY <1>4, <1>6 DEF LookedUp
  <2>2. u = [v EXCEPT !.cache[c] = v.layout, !.pending = 0, !.page = u.page]
    BY <1>1, <1>6 DEF Viewer
  <2> QED BY <1>1, <1>2, <1>3, <1>6, <2>1, <2>2 DEF Viewer
<1>7. CASE v.pending # 0
  <2>1. LookedUp(u) = [u EXCEPT !.pending = 0, !.page = PageWith(PageTable[c][v.layout], v.pending)]
    BY <1>4, <1>5, <1>7 DEF LookedUp
  <2>2. LookedUp(u) = [v EXCEPT !.cache[c] = v.layout, !.pending = 0,
                                !.page = PageWith(PageTable[c][v.layout], v.pending)]
    BY <1>1, <2>1 DEF Viewer
  <2> QED BY <1>2, <1>3, <1>7, <2>2
<1> QED BY <1>6, <1>7

\* maybe_repaginate keeps a viewer sound, gives it pages, if it is to have
\* any, and goes on heading for what it headed for.
LEMMA RepaginatedIs ==
  ASSUME NEW v, Typed(v)
  PROVE  LET r == Repaginated(v)
         IN  /\ Typed(r) /\ (Sound(v) => Sound(r))
             /\ r.mode = v.mode /\ r.loaded = v.loaded /\ r.active = v.active /\ r.initial = v.initial
             /\ r.path = v.path /\ r.y = v.y /\ r.layout = v.layout /\ r.search = v.search
             /\ ~Paginates(v) => r = v
             /\ Paginates(v) => r.pending = 0 /\ Cached(r, r.active) /\ r.cache[r.active] = r.layout
             /\ \A b \in BlocksOf(v.active) : v.mode = "paginated" /\ Heads(v, b) => Heads(r, b)
<1> DEFINE c == v.active
<1> DEFINE r == Repaginated(v)
<1> DEFINE pages == PageTable[c][v.layout]
<1> DEFINE page == IF v.pending # 0 THEN PageWith(pages, v.pending)
                   ELSE IF v.cache[c] = v.layout THEN v.page ELSE Min({v.page, Len(pages) - 1})
<1>1. v \in Viewer /\ c \in Chapters /\ v.page \in Nat /\ v.pending \in Nat
  BY TypedIs
<1>2. CASE ~Paginates(v)
  <2>1. r = v
    BY <1>2, RepaginatedAs
  <2> QED BY <1>2, <2>1
<1>3. CASE Paginates(v)
  <2>1. r = [v EXCEPT !.cache[c] = v.layout, !.pending = 0, !.page = page]
    BY <1>3, RepaginatedAs
  <2>2. v.layout \in Layouts /\ v.layout # None /\ v.mode = "paginated" /\ v.loaded > 0
    BY <1>1, <1>3 DEF Paginates, Viewer
  <2>3. /\ Len(pages) \in Nat /\ Len(pages) >= 1
        /\ \A b : PageWith(pages, b) \in Nat /\ PageWith(pages, b) < Len(pages)
        /\ PageWith(pages, 1) = 0
    BY <1>1, <2>2, TableIs
  <2>4. Min({v.page, Len(pages) - 1}) = IF v.page <= Len(pages) - 1 THEN v.page ELSE Len(pages) - 1
    <3> HIDE DEF pages
    <3> QED BY <1>1, <2>3, LessOfTwo
  <2>5. Sound(v) /\ v.pending = 0 /\ v.cache[c] = v.layout => v.page < Len(pages)
    BY <2>2 DEF Sound, Typed, Cached, Pages
  <2>6. page \in Nat /\ (Sound(v) => page < Len(pages))
    <3> HIDE DEF pages
    <3> QED BY <1>1, <2>3, <2>4, <2>5
  <2> HIDE DEF r, pages, page
  <2>7. /\ r.mode = v.mode /\ r.loaded = v.loaded /\ r.active = v.active /\ r.initial = v.initial
        /\ r.path = v.path /\ r.y = v.y /\ r.layout = v.layout /\ r.search = v.search
        /\ r.pending = 0 /\ r.cache = [v.cache EXCEPT ![c] = v.layout] /\ r.page = page
    BY <1>1, <2>1 DEF Viewer
  <2>8. r \in Viewer
    BY <1>1, <2>1, <2>2, <2>6 DEF Viewer
  <2>9. v.cache \in [Chapters -> Layouts \cup {None}]
    BY <1>1 DEF Viewer
  <2>10. r.cache[c] = v.layout /\ \A d \in Chapters : r.cache[d] # None => r.layout # None
    BY <1>1, <2>2, <2>7, <2>9 DEF Typed
  <2>11. Pages(r) = pages /\ Cached(r, r.active)
    BY <2>2, <2>7, <2>10 DEF Pages, Cached, pages
  <2>12. Typed(r) /\ (Sound(v) => Sound(r))
    <3>1. Typed(r)
      BY <2>7, <2>8, <2>10 DEF Typed
    <3> QED BY <2>6, <2>7, <2>11, <3>1 DEF Sound
  <2>13. ASSUME NEW b \in BlocksOf(c), Heads(v, b) PROVE Heads(r, b)
    <3>1. CASE v.pending = b
      <4>1. v.pending # 0
        BY <1>1, <3>1, BookIs DEF BlocksOf
      <4>2. r.page = PageWith(Pages(r), b)
        BY <2>7, <2>11, <3>1, <4>1 DEF page
      <4> QED BY <2>7, <2>10, <2>11, <4>2 DEF Heads
    <3>2. CASE v.pending = 0 /\ b = 1 /\ v.page = 0
      <4>1. page = 0
        BY <2>3, <2>4, <3>2 DEF page
      <4> QED BY <2>7, <3>2, <4>1 DEF Heads
    <3>3. CASE v.pending = 0 /\ Cached(v, c) /\ v.cache[c] = v.layout /\ v.page = PageWith(Pages(v), b)
      <4>1. Pages(v) = pages /\ page = v.page
        BY <3>3 DEF Pages, pages, page
      <4> QED BY <2>7, <2>10, <2>11, <3>3, <4>1 DEF Heads
    <3> QED BY <2>13, <3>1, <3>2, <3>3 DEF Heads
  <2> QED BY <1>3, <2>7, <2>10, <2>11, <2>12, <2>13 DEF r
<1> QED BY <1>2, <1>3

\* A block the viewer heads for is on the screen, whenever something is.
LEMMA HeadsShows ==
  ASSUME NEW v, Sound(v), Drawn(v), NEW b \in BlocksOf(v.active), Heads(v, b)
  PROVE  Shows(v, b)
<1> DEFINE pages == ShownTable(v)
<1> DEFINE first == FirstShown(v)
<1> DEFINE last == LastShown(v)
<1>1. /\ v \in Viewer /\ v.active \in Chapters /\ v.page \in Nat /\ v.pending \in Nat
      /\ v.layout \in Layouts /\ v.layout # None
      /\ v.cache[v.active] \in Layouts \cup {None}
  BY TypedIs DEF Drawn, Sound
<1>2. ShownLayout(v) \in Layouts
  BY <1>1 DEF ShownLayout, Cached
<1>3. /\ Len(pages) \in Nat /\ Len(pages) >= 1
      /\ \A d : PageWith(pages, d) \in Nat /\ PageWith(pages, d) < Len(pages)
      /\ \A d \in BlocksOf(v.active) : Holds(pages[PageWith(pages, d) + 1], d)
      /\ PageWith(pages, 1) = 0
  BY <1>1, <1>2, TableIs DEF ShownTable
<1>4. first = 1 + (IF v.pending # 0 THEN PageWith(pages, v.pending) ELSE Min({v.page, Len(pages) - 1}))
  BY DEF FirstShown
<1>5. b # 0
  BY <1>1, BookIs DEF BlocksOf
<1>6. v.layout.step \in Nat /\ v.layout.step >= 1
  <2>1. v.layout \in Layout
    BY <1>1, BookAssumption
  <2>2. v.layout.step \in {1, 2}
    BY <2>1 DEF Layout
  <2> QED BY <2>2
<1> HIDE DEF pages
<1>7. first = 1 + PageWith(pages, b)
  <2>1. CASE v.pending = b
    BY <1>4, <1>5, <2>1
  <2>2. CASE v.pending = 0 /\ v.page = PageWith(pages, b)
    <3>1. Min({v.page, Len(pages) - 1}) = v.page
      BY <1>1, <1>3, <2>2, LessOfTwo
    <3> QED BY <1>4, <2>2, <3>1
  <2>3. CASE v.pending = 0 /\ b = 1 /\ v.page = 0
    BY <1>3, <2>2, <2>3
  <2>4. CASE v.pending = 0 /\ Cached(v, v.active) /\ v.cache[v.active] = v.layout /\ v.page = PageWith(Pages(v), b)
    <3>1. Pages(v) = pages
      BY <2>4 DEF Pages, ShownTable, ShownLayout, pages
    <3> QED BY <2>2, <2>4, <3>1
  <2> QED BY <2>1, <2>3, <2>4 DEF Heads
<1>8. first \in 1..Len(pages) /\ Holds(pages[first], b)
  <2> DEFINE n == PageWith(pages, b)
  <2>1. n \in Nat /\ n < Len(pages) /\ Holds(pages[n + 1], b)
    BY <1>3
  <2>2. first = n + 1
    BY <1>7, <2>1
  <2> HIDE DEF n
  <2> QED BY <1>3, <2>1, <2>2
<1>9. first <= last /\ last \in Int
  <2>1. last = Min({first + v.layout.step - 1, Len(pages)})
    BY DEF LastShown, pages
  <2> HIDE DEF first, last
  <2>2. first \in Nat /\ first + v.layout.step - 1 \in Int /\ first <= first + v.layout.step - 1 /\ first <= Len(pages)
    BY <1>3, <1>6, <1>8
  <2>3. last = IF first + v.layout.step - 1 <= Len(pages) THEN first + v.layout.step - 1 ELSE Len(pages)
    BY <1>3, <2>1, <2>2, LessOfTwo
  <2> QED BY <1>3, <2>2, <2>3
<1>10. first \in first..last
  <2> HIDE DEF first, last
  <2> QED BY <1>8, <1>9
<1> QED BY <1>8, <1>10 DEF Shows, ShownPages, pages

\* Offsets of blocks in the book.
LEMMA TopOfBook ==
  ASSUME NEW c \in Chapters, NEW w \in Nat \ {0}, NEW i \in 1..(Len(Book[c]) + 1)
  PROVE  Top(Book[c], w, i) \in Nat /\ Top(Book[c], w, 1) = 0
BY BookIs, TopIs

\* Paths in the book.
LEMMA ResolveInBook ==
  ASSUME NEW c \in Chapters, NEW node
  PROVE  /\ Resolve(Book[c], node) \in BlocksOf(c) /\ Resolve(Book[c], node) \in Nat \ {0}
         /\ Resolve(Book[c], 0) = 1 /\ Resolve(Book[c], node) \in 1..(Len(Book[c]) + 1)
<1>1. Book[c] \in Seq(Block) /\ Book[c] # << >> /\ Len(Book[c]) \in Nat
  BY BookIs
<1>2. Resolve(Book[c], node) \in 1..Len(Book[c]) /\ Resolve(Book[c], 0) = 1
  BY <1>1, ResolveIs
<1> QED BY <1>1, <1>2 DEF BlocksOf

\* The chapters come: at the position that has come before.
LEMMA EpubLoadedIs ==
  ASSUME NEW v, Sound(v), v.loaded = 0, Blank(v), NEW pos \in Positions \cup {None},
         v.initial = (IF pos = None THEN None ELSE pos.chapter),
         v.path = (IF pos = None THEN 0 ELSE pos.node)
  PROVE  LET w == EpubLoadedIn(v)
         IN  Sound(w) /\ w.loaded = Spine /\ w.mode = v.mode /\ AtOrigin(w, pos)
<1> DEFINE c == IF v.initial = None THEN 1 ELSE Min({v.initial, Spine})
<1> DEFINE pending == IF v.path # 0 THEN Resolve(Book[c], v.path) ELSE 0
<1> DEFINE u == [v EXCEPT !.loaded = Spine, !.active = c, !.pending = pending, !.path = 0]
<1> DEFINE w == EpubLoadedIn(v)
<1>1. v \in Viewer /\ v.pending = 0 /\ v.page = 0 /\ v.y = 0 /\ v.layout = None
  BY TypedIs DEF Blank, Sound
<1>2. Len(Book) \in Nat /\ Chapters = 1..Len(Book) /\ 1 \in Chapters /\ Spine \in Chapters
  BY BookIs
<1>3. pos # None => pos.chapter \in Chapters /\ pos.node \in Nodes
  BY DEF Positions
<1>4. c \in Chapters /\ c <= Spine /\ (pos # None /\ pos.chapter <= Spine => c = pos.chapter)
  <2>1. CASE pos = None
    BY <1>2, <2>1
  <2>2. CASE pos # None
    <3>1. v.initial = pos.chapter /\ v.initial # None
      <4> HIDE DEF c, pending, u, w
      <4>1. pos.chapter \in Nat
        BY <1>2, <1>3, <2>2
      <4> QED BY <2>2, <4>1, BoundAssumption
    <3>2. Min({pos.chapter, Spine}) = IF pos.chapter <= Spine THEN pos.chapter ELSE Spine
      BY <1>2, <1>3, <2>2, LessOfTwo
    <3> QED BY <1>2, <1>3, <2>2, <3>1, <3>2
  <2> QED BY <2>1, <2>2
<1>5. w = IF v.mode = "scroll" /\ pending # 0
          THEN [u EXCEPT !.y = Top(Book[c], 1, pending), !.pending = 0] ELSE u
  <2>1. u.mode = v.mode /\ u.pending = pending
    BY <1>1 DEF Viewer
  <2> HIDE DEF c
  <2> QED BY <1>1, <2>1 DEF EpubLoadedIn, c
<1> HIDE DEF c
<1>6. pending \in Nat /\ (pending # 0 => pending \in 1..(Len(Book[c]) + 1) /\ pending \in BlocksOf(c))
  BY <1>4, ResolveInBook
<1>7. pos # None => Resolve(Book[c], pos.node) = IF pending # 0 THEN pending ELSE 1
  BY <1>4, ResolveInBook
<1>8. Top(Book[c], 1, 1) = 0 /\ (pending # 0 => Top(Book[c], 1, pending) \in Nat)
  BY <1>4, <1>6, TopOfBook, BookIs
<1>9. 0 \in Nodes
  BY DEF Nodes
<1> HIDE DEF pending, w
<1>10. u \in Viewer /\ u.y = 0 /\ u.page = 0 /\ u.pending = pending /\ u.active = c /\ u.loaded = Spine
       /\ u.mode = v.mode /\ u.cache = v.cache /\ u.layout = None
  <2>1. Spine \in 0..Len(Book)
    BY <1>2
  <2>2. u \in Viewer
    BY <1>1, <1>4, <1>6, <1>9, <2>1 DEF Viewer
  <2> QED BY <1>1, <2>2 DEF Viewer
<1> HIDE DEF u
<1>11. /\ w \in Viewer /\ w.page = 0 /\ w.active = c /\ w.loaded = Spine
       /\ w.mode = v.mode /\ w.cache = v.cache /\ w.layout = None
  BY <1>5, <1>8, <1>10 DEF Viewer
<1>12. ~Cached(w, w.active) /\ \A d \in Chapters : w.cache[d] = None
  BY <1>1, <1>4, <1>11 DEF Sound, Typed, Cached
<1>13. Sound(w)
  <2>1. Spine <= Spine
    BY <1>2
  <2> QED BY <1>4, <1>11, <1>12, <2>1 DEF Sound, Typed
<1>14. ASSUME pos # None, pos.chapter <= Spine
       PROVE  /\ w.active = pos.chapter
              /\ IF w.mode = "paginated" THEN Heads(w, Resolve(Book[pos.chapter], pos.node))
                 ELSE w.y = Top(Book[pos.chapter], 1, Resolve(Book[pos.chapter], pos.node))
  <2>1. c = pos.chapter
    BY <1>4, <1>14
  <2>2. v.mode \in {"scroll", "paginated"}
    BY <1>1 DEF Viewer, Modes
  <2>3. CASE v.mode = "paginated"
    <3>1. w.pending = pending
      BY <1>5, <1>10, <2>3
    <3> QED BY <1>7, <1>11, <1>14, <2>1, <2>3, <3>1 DEF Heads
  <2>4. CASE v.mode = "scroll"
    <3>1. w.y = IF pending # 0 THEN Top(Book[c], 1, pending) ELSE 0
      BY <1>5, <1>10, <2>4 DEF Viewer
    <3> QED BY <1>7, <1>8, <1>11, <1>14, <2>1, <2>4, <3>1
  <2> QED BY <2>2, <2>3, <2>4
<1> QED BY <1>11, <1>13, <1>14 DEF w, AtOrigin

\* The position comes: at once when its chapter is there.
LEMMA ProgressLoadedIs ==
  ASSUME NEW v, Sound(v), NEW pos \in Positions \cup {None}
  PROVE  LET w == ProgressLoadedIn(v, pos)
         IN  /\ Sound(w) /\ w.loaded = v.loaded /\ w.mode = v.mode
             /\ v.loaded = 0 => w = [v EXCEPT !.initial = IF pos = None THEN None ELSE pos.chapter,
                                              !.path = IF pos = None THEN 0 ELSE pos.node]
             /\ v.loaded > 0 => AtOrigin(w, pos)
             /\ pos = None => /\ w.active = v.active /\ w.page = v.page /\ w.pending = v.pending
                              /\ w.cache = v.cache /\ w.layout = v.layout
<1> DEFINE u == [v EXCEPT !.initial = IF pos = None THEN None ELSE pos.chapter]
<1> DEFINE w == ProgressLoadedIn(v, pos)
<1>1. v \in Viewer /\ v.loaded \in Nat /\ v.mode \in Modes /\ (v.loaded > 0 => Spine <= v.loaded)
  BY TypedIs DEF Sound, Typed
<1>2. pos # None => pos.chapter \in Chapters /\ pos.chapter \in Nat /\ pos.chapter >= 1 /\ pos.node \in Nodes
  BY BookIs DEF Positions
<1>3. 0 \in Nodes /\ Spine \in Nat
  BY BookIs DEF Nodes
<1>4. u \in Viewer /\ u.mode = v.mode
  BY <1>1, <1>2 DEF Viewer
<1>5. CASE pos # None /\ pos.chapter <= v.loaded
  <2> DEFINE c == pos.chapter
  <2> DEFINE b == Resolve(Book[c], pos.node)
  <2>1. w = [u EXCEPT !.active = c, !.pending = b, !.y = IF v.mode = "scroll" THEN Top(Book[c], 1, b) ELSE v.y]
    BY <1>1, <1>4, <1>5 DEF ProgressLoadedIn, Viewer
  <2>2. b \in Nat \ {0} /\ Top(Book[c], 1, b) \in Nat
    BY <1>2, <1>5, ResolveInBook, TopOfBook
  <2> HIDE DEF b, w
  <2>3. /\ w \in Viewer /\ w.active = c /\ w.pending = b /\ w.loaded = v.loaded /\ w.mode = v.mode
        /\ w.cache = v.cache /\ w.layout = v.layout
        /\ (v.mode = "scroll" => w.y = Top(Book[c], 1, b))
    BY <1>1, <1>2, <1>5, <2>1, <2>2 DEF Viewer
  <2>4. Sound(w)
    BY <1>1, <1>5, <2>2, <2>3 DEF Sound, Typed
  <2>5. AtOrigin(w, pos)
    BY <1>1, <2>3 DEF AtOrigin, Heads, Modes, b
  <2>6. v.loaded > 0
    BY <1>1, <1>2, <1>5
  <2> QED BY <1>5, <2>3, <2>4, <2>5, <2>6 DEF w
<1>6. CASE ~(pos # None /\ pos.chapter <= v.loaded)
  <2>1. w = [u EXCEPT !.path = IF pos = None THEN 0 ELSE pos.node]
    BY <1>6 DEF ProgressLoadedIn
  <2> HIDE DEF w
  <2>2. w = [v EXCEPT !.initial = IF pos = None THEN None ELSE pos.chapter,
                      !.path = IF pos = None THEN 0 ELSE pos.node]
    BY <1>1, <2>1 DEF Viewer
  <2>3. /\ w \in Viewer /\ w.active = v.active /\ w.pending = v.pending /\ w.page = v.page
        /\ w.loaded = v.loaded /\ w.mode = v.mode /\ w.cache = v.cache /\ w.layout = v.layout
    BY <1>1, <1>2, <1>3, <2>2 DEF Viewer
  <2>4. Sound(w)
    BY <2>3 DEF Sound, Typed, Cached, Pages
  <2>5. v.loaded > 0 => AtOrigin(w, pos)
    BY <1>1, <1>2, <1>3, <1>6 DEF AtOrigin
  <2> QED BY <2>2, <2>3, <2>4, <2>5 DEF w
<1> QED BY <1>5, <1>6

(***************************************************************************)
(* What the handlers keep and where they lead.                             *)
(***************************************************************************)
\* w differs from v only in the page, the offset and what is deferred.
Alike(w, v) ==
    /\ w.mode = v.mode /\ w.loaded = v.loaded /\ w.active = v.active /\ w.initial = v.initial
    /\ w.path = v.path /\ w.layout = v.layout /\ w.cache = v.cache

\* Every block of the active chapter is on one of its pages.
LEMMA PagesOfSound ==
  ASSUME NEW v, Typed(v), Cached(v, v.active)
  PROVE  /\ Pages(v) = PageTable[v.active][v.cache[v.active]]
         /\ Len(Pages(v)) \in Nat /\ Len(Pages(v)) >= 1
         /\ \A k \in 1..Len(Pages(v)) : Pages(v)[k].start \in BlocksOf(v.active)
         /\ \A b : PageWith(Pages(v), b) \in Nat /\ PageWith(Pages(v), b) < Len(Pages(v))
         /\ \A b \in BlocksOf(v.active) : Holds(Pages(v)[PageWith(Pages(v), b) + 1], b)
         /\ PageWith(Pages(v), 1) = 0
         /\ v.layout \in Layouts /\ v.layout # None
<1>1. v.active \in Chapters /\ v.cache[v.active] \in Layouts
  BY TypedIs DEF Cached
<1>2. v.layout \in Layouts /\ v.layout # None
  BY <1>1, TypedIs DEF Typed, Cached
<1> DEFINE pages == PageTable[v.active][v.cache[v.active]]
<1>3. Pages(v) = pages
  BY DEF Pages
<1>4. /\ Len(pages) \in Nat /\ Len(pages) >= 1
      /\ \A k \in 1..Len(pages) : pages[k].start \in BlocksOf(v.active)
      /\ \A b : PageWith(pages, b) \in Nat /\ PageWith(pages, b) < Len(pages)
      /\ \A b \in BlocksOf(v.active) : Holds(pages[PageWith(pages, b) + 1], b)
      /\ PageWith(pages, 1) = 0
  BY <1>1, TableIs
<1> HIDE DEF pages
<1> QED BY <1>2, <1>3, <1>4 DEF pages

\* Handlers that change one field: to another page,
LEMMA OnPage ==
  ASSUME NEW v, Typed(v), NEW n \in Nat,
         v.mode = "paginated" /\ Cached(v, v.active) /\ v.pending = 0 => n < Len(Pages(v))
  PROVE  LET w == [v EXCEPT !.page = n]
         IN  /\ Sound(w) /\ Alike(w, v) /\ w.page = n /\ w.pending = v.pending /\ w.y = v.y /\ w.search = v.search
             /\ Pages(w) = Pages(v)
<1> DEFINE w == [v EXCEPT !.page = n]
<1>1. v \in Viewer
  BY TypedIs
<1>2. /\ w \in Viewer /\ Alike(w, v) /\ w.page = n /\ w.pending = v.pending /\ w.y = v.y /\ w.search = v.search
  BY <1>1 DEF Viewer, Alike
<1> HIDE DEF w
<1>3. Pages(w) = Pages(v) /\ (Cached(w, w.active) <=> Cached(v, v.active))
  BY <1>2 DEF Pages, Cached, Alike
<1> QED BY <1>2, <1>3 DEF Sound, Typed, Alike, w

\* to another offset,
LEMMA AtOffset ==
  ASSUME NEW v, Sound(v), NEW n \in Nat
  PROVE  LET w == [v EXCEPT !.y = n]
         IN  Sound(w) /\ Alike(w, v) /\ w.page = v.page /\ w.pending = v.pending /\ w.y = n /\ w.search = v.search
<1> DEFINE w == [v EXCEPT !.y = n]
<1>1. v \in Viewer
  BY TypedIs DEF Sound
<1>2. w \in Viewer /\ Alike(w, v) /\ w.page = v.page /\ w.pending = v.pending /\ w.y = n /\ w.search = v.search
  BY <1>1 DEF Viewer, Alike
<1> HIDE DEF w
<1>3. Pages(w) = Pages(v) /\ (Cached(w, w.active) <=> Cached(v, v.active))
  BY <1>2 DEF Pages, Cached, Alike
<1> QED BY <1>2, <1>3 DEF Sound, Typed, Alike, w

\* to a block that has to wait for the pages,
LEMMA Deferred ==
  ASSUME NEW v, Typed(v), NEW b \in Nat \ {0}
  PROVE  LET w == [v EXCEPT !.pending = b]
         IN  Sound(w) /\ Alike(w, v) /\ w.page = v.page /\ w.y = v.y /\ w.search = v.search /\ Heads(w, b)
<1> DEFINE w == [v EXCEPT !.pending = b]
<1>1. v \in Viewer
  BY TypedIs
<1>2. w \in Viewer /\ Alike(w, v) /\ w.page = v.page /\ w.pending = b /\ w.y = v.y /\ w.search = v.search
  BY <1>1 DEF Viewer, Alike
<1> HIDE DEF w
<1> QED BY <1>2 DEF Sound, Typed, Alike, Heads, w

\* to another match of the search.
LEMMA Sought ==
  ASSUME NEW v, Sound(v), NEW s \in Matches \cup {None}
  PROVE  LET w == [v EXCEPT !.search = s]
         IN  /\ Sound(w) /\ Alike(w, v) /\ w.page = v.page /\ w.pending = v.pending /\ w.y = v.y /\ w.search = s
             /\ \A b : Heads(v, b) <=> Heads(w, b)
<1> DEFINE w == [v EXCEPT !.search = s]
<1>1. v \in Viewer
  BY TypedIs DEF Sound
<1>2. w \in Viewer /\ Alike(w, v) /\ w.page = v.page /\ w.pending = v.pending /\ w.y = v.y /\ w.search = s
  BY <1>1 DEF Viewer, Alike
<1> HIDE DEF w
<1>3. Pages(w) = Pages(v) /\ (Cached(w, w.active) <=> Cached(v, v.active))
  BY <1>2 DEF Pages, Cached, Alike
<1> QED BY <1>2, <1>3 DEF Sound, Typed, Alike, Heads, w

\* To the beginning of a chapter.
LEMMA MovedTo ==
  ASSUME NEW v, Typed(v), NEW c \in Chapters, c <= v.loaded, NEW y \in Nat
  PROVE  LET w == [v EXCEPT !.active = c, !.page = 0, !.y = y]
         IN  /\ Sound(w) /\ w.mode = v.mode /\ w.loaded = v.loaded /\ w.active = c /\ w.page = 0
             /\ w.pending = v.pending /\ w.layout = v.layout /\ w.cache = v.cache
             /\ w.pending = 0 => Heads(w, 1)
<1> DEFINE w == [v EXCEPT !.active = c, !.page = 0, !.y = y]
<1>1. v \in Viewer /\ (v.loaded > 0 => Spine <= v.loaded)
  BY TypedIs DEF Typed
<1>2. /\ w \in Viewer /\ w.mode = v.mode /\ w.loaded = v.loaded /\ w.active = c /\ w.page = 0
      /\ w.pending = v.pending /\ w.layout = v.layout /\ w.cache = v.cache
  BY <1>1 DEF Viewer
<1> HIDE DEF w
<1>3. Typed(w)
  BY <1>1, <1>2, TypedIs DEF Typed
<1>4. Cached(w, w.active) => 0 < Len(Pages(w))
  BY <1>3, PagesOfSound
<1> QED BY <1>2, <1>3, <1>4 DEF Sound, Heads, w

LEMMA ChapterSelectedIs ==
  ASSUME NEW v, Typed(v), NEW c \in Chapters, c <= v.loaded
  PROVE  LET w == ChapterSelected(v, c)
         IN  /\ Sound(w) /\ w.mode = v.mode /\ w.loaded = v.loaded /\ w.active = c /\ w.page = 0
             /\ w.pending = v.pending /\ w.layout = v.layout /\ w.cache = v.cache
             /\ w.pending = 0 => Heads(w, 1)
<1> DEFINE u == [v EXCEPT !.active = c, !.page = 0, !.y = 0]
<1> DEFINE w == ChapterSelected(v, c)
<1>1. /\ Sound(u) /\ u.mode = v.mode /\ u.loaded = v.loaded /\ u.active = c /\ u.page = 0
      /\ u.pending = v.pending /\ u.layout = v.layout /\ u.cache = v.cache
      /\ u.pending = 0 => Heads(u, 1)
  BY MovedTo
<1>2. w = [u EXCEPT !.search = None]
  BY DEF ChapterSelected, AtStart
<1> HIDE DEF u, w
<1>3. Sound(w) /\ Alike(w, u) /\ w.page = u.page /\ w.pending = u.pending /\ \A b : Heads(u, b) <=> Heads(w, b)
  BY <1>1, <1>2, Sought
<1> QED BY <1>1, <1>3 DEF Alike, w

LEMMA NavEntrySelectedIs ==
  ASSUME NEW v, Typed(v), NEW c \in Chapters, c <= v.loaded, NEW b \in BlocksOf(c),
         Paginates(v) => v.pending = 0
  PROVE  LET w == NavEntrySelected(v, c, b)
         IN  /\ Sound(w) /\ w.mode = v.mode /\ w.loaded = v.loaded /\ w.active = c
             /\ v.mode = "paginated" /\ v.cache[c] \in {None, v.layout} => Heads(w, b)
<1> DEFINE u == ChapterSelected(v, c)
<1> DEFINE w == NavEntrySelected(v, c, b)
<1>1. /\ Sound(u) /\ u.mode = v.mode /\ u.loaded = v.loaded /\ u.active = c /\ u.page = 0
      /\ u.pending = v.pending /\ u.layout = v.layout /\ u.cache = v.cache
      /\ Typed(u)
  BY ChapterSelectedIs DEF Sound
<1>2. w = IF v.mode = "scroll" THEN [u EXCEPT !.y = Top(Book[c], 1, b)]
          ELSE IF Cached(u, c) THEN [u EXCEPT !.page = PageWith(Pages(u), b)]
          ELSE [u EXCEPT !.pending = b]
  BY DEF NavEntrySelected
<1>3. b \in Nat \ {0} /\ b \in 1..(Len(Book[c]) + 1)
  BY BookIs DEF BlocksOf
<1> HIDE DEF u, w
<1>4. CASE v.mode = "scroll"
  <2>1. Top(Book[c], 1, b) \in Nat
    BY <1>3, TopOfBook
  <2>2. w = [u EXCEPT !.y = Top(Book[c], 1, b)]
    BY <1>2, <1>4
  <2>3. Sound(w) /\ Alike(w, u)
    BY <1>1, <2>1, <2>2, AtOffset
  <2> QED BY <1>1, <1>4, <2>3 DEF Alike, w
<1>5. CASE v.mode # "scroll" /\ Cached(u, c)
  <2>1. w = [u EXCEPT !.page = PageWith(Pages(u), b)]
    BY <1>2, <1>5
  <2>2. PageWith(Pages(u), b) \in Nat /\ PageWith(Pages(u), b) < Len(Pages(u)) /\ u.layout # None
    BY <1>1, <1>5, PagesOfSound
  <2>3. /\ Sound(w) /\ Alike(w, u) /\ w.page = PageWith(Pages(u), b) /\ w.pending = u.pending
        /\ Pages(w) = Pages(u)
    BY <1>1, <2>1, <2>2, OnPage
  <2>4. v.mode = "paginated" /\ v.loaded > 0
    BY <1>5, TypedIs, BookIs DEF Modes
  <2>5. w.pending = 0
    BY <1>1, <2>2, <2>3, <2>4 DEF Paginates
  <2>6. v.cache[c] \in {None, v.layout} => Heads(w, b)
    BY <1>1, <1>5, <2>3, <2>5 DEF Heads, Alike, Cached
  <2> QED BY <1>1, <2>3, <2>6 DEF Alike, w
<1>6. CASE v.mode # "scroll" /\ ~Cached(u, c)
  <2>1. w = [u EXCEPT !.pending = b]
    BY <1>2, <1>6
  <2>2. Sound(w) /\ Alike(w, u) /\ Heads(w, b)
    BY <1>1, <1>3, <2>1, Deferred
  <2> QED BY <1>1, <2>2 DEF Alike, w
<1> QED BY <1>4, <1>5, <1>6

LEMMA FragmentFollowedIs ==
  ASSUME NEW v, Sound(v), NEW b \in BlocksOf(v.active),
         Paginates(v) => v.pending = 0 /\ Cached(v, v.active) /\ v.cache[v.active] = v.layout
  PROVE  LET w == FragmentFollowed(v, b)
         IN  /\ Sound(w) /\ Alike(w, v)
             /\ Paginates(v) => Heads(w, b)
<1> DEFINE w == FragmentFollowed(v, b)
<1>1. Typed(v)
  BY DEF Sound
<1>2. CASE v.mode = "paginated" /\ Cached(v, v.active)
  <2>1. w = [v EXCEPT !.page = PageWith(Pages(v), b)]
    BY <1>2 DEF FragmentFollowed
  <2> HIDE DEF w
  <2>2. PageWith(Pages(v), b) \in Nat /\ PageWith(Pages(v), b) < Len(Pages(v))
    BY <1>1, <1>2, PagesOfSound
  <2>3. /\ Sound(w) /\ Alike(w, v) /\ w.page = PageWith(Pages(v), b) /\ w.pending = v.pending
        /\ Pages(w) = Pages(v)
    BY <1>1, <2>1, <2>2, OnPage
  <2>4. Paginates(v) => Heads(w, b)
    BY <1>2, <2>3 DEF Heads, Alike, Cached
  <2> QED BY <2>3, <2>4 DEF w
<1>3. CASE ~(v.mode = "paginated" /\ Cached(v, v.active))
  <2>1. w = v
    BY <1>3 DEF FragmentFollowed
  <2> QED BY <1>3, <2>1 DEF Paginates, Alike
<1> QED BY <1>2, <1>3

LEMMA LinkFollowedIs ==
  ASSUME NEW v, Typed(v), v.loaded > 0, NEW c \in Chapters
  PROVE  LET w == LinkFollowed(v, c)
         IN  /\ Sound(w) /\ w.mode = v.mode /\ w.loaded > 0 /\ w.active = c
             /\ v.pending = 0 => Heads(w, 1)
<1> DEFINE n == Max({v.loaded, c})
<1> DEFINE u == [v EXCEPT !.loaded = n]
<1> DEFINE w == LinkFollowed(v, c)
<1>1. v \in Viewer /\ v.loaded \in Nat /\ c \in Nat /\ Len(Book) \in Nat /\ Chapters = 1..Len(Book) /\ Spine \in Nat
  BY TypedIs, BookIs
<1>2. n = IF v.loaded <= c THEN c ELSE v.loaded
  BY <1>1, MoreOfTwo
<1>3. v.loaded \in 0..Len(Book) /\ v.active <= v.loaded /\ Spine <= v.loaded /\ v.active \in Nat
  BY TypedIs DEF Typed, Viewer
<1>4. n \in 0..Len(Book) /\ c <= n /\ v.loaded <= n /\ n > 0 /\ v.active <= n /\ Spine <= n
  BY <1>1, <1>2, <1>3
<1> HIDE DEF n
<1>5. /\ u \in Viewer /\ u.loaded = n /\ u.mode = v.mode /\ u.active = v.active /\ u.pending = v.pending
      /\ u.cache = v.cache /\ u.layout = v.layout
  BY <1>1, <1>4 DEF Viewer
<1>6. w = [u EXCEPT !.active = c, !.page = 0, !.y = 0]
  <2>1. LinkFollowed(v, c) = [v EXCEPT !.active = c, !.page = 0, !.y = 0, !.loaded = n]
    BY <1>1 DEF LinkFollowed, AtStart, Viewer, n
  <2> QED BY <1>1, <2>1 DEF Viewer
<1> HIDE DEF u
<1>7. Typed(u)
  BY <1>4, <1>5 DEF Typed
<1>8. c <= u.loaded
  BY <1>4, <1>5
<1> HIDE DEF w
<1>9. /\ Sound(w) /\ w.mode = u.mode /\ w.loaded = u.loaded /\ w.active = c
      /\ w.pending = u.pending /\ (w.pending = 0 => Heads(w, 1))
  <2> DEFINE m == [u EXCEPT !.active = c, !.page = 0, !.y = 0]
  <2>1. /\ Sound(m) /\ m.mode = u.mode /\ m.loaded = u.loaded /\ m.active = c /\ m.page = 0
        /\ m.pending = u.pending /\ m.layout = u.layout /\ m.cache = u.cache
        /\ m.pending = 0 => Heads(m, 1)
    BY <1>7, <1>8, MovedTo
  <2> QED BY <1>6, <2>1
<1> QED BY <1>4, <1>5, <1>9 DEF w

LEMMA PageStepIs ==
  ASSUME NEW v, Typed(v)
  PROVE  PageStep(v) \in {1, 2}
<1>1. v.layout \in Layouts \cup {None}
  BY TypedIs
<1>2. v.layout # None => v.layout \in Layout
  BY <1>1, BookAssumption
<1> QED BY <1>2 DEF PageStep, Layout

LEMMA TotalPagesIs ==
  ASSUME NEW v, Typed(v)
  PROVE  /\ TotalPages(v) \in Nat
         /\ Cached(v, v.active) => TotalPages(v) = Len(Pages(v)) /\ TotalPages(v) >= 1
<1>1. CASE Cached(v, v.active)
  BY <1>1, PagesOfSound DEF TotalPages
<1>2. CASE ~Cached(v, v.active)
  BY <1>2 DEF TotalPages
<1> QED BY <1>1, <1>2

LEMMA LastSpreadIs ==
  ASSUME NEW v, Typed(v)
  PROVE  LastSpread(v) \in Nat /\ (Cached(v, v.active) => LastSpread(v) < Len(Pages(v)))
<1> DEFINE n == TotalPages(v)
<1> DEFINE m == Max({1, n})
<1> DEFINE s == PageStep(v)
<1>1. n \in Nat /\ (Cached(v, v.active) => n = Len(Pages(v)) /\ n >= 1) /\ s \in {1, 2}
  BY TotalPagesIs, PageStepIs
<1>2. m = IF 1 <= n THEN n ELSE 1
  BY <1>1, MoreOfTwo
<1>3. LastSpread(v) = ((m - 1) \div s) * s
  BY DEF LastSpread
<1> HIDE DEF n, m, s
<1>4. m \in Nat /\ m >= 1 /\ (Cached(v, v.active) => m = n)
  BY <1>1, <1>2
<1> DEFINE k == m - 1
<1>5. k \in Nat /\ m = k + 1
  BY <1>4
<1> HIDE DEF k
<1>6. (k \div s) * s \in Nat /\ (k \div s) * s <= k
  <2>1. CASE s = 1
    BY <1>5, <2>1
  <2>2. CASE s = 2
    BY <1>5, <2>2
  <2> QED BY <1>1, <2>1, <2>2
<1>7. LastSpread(v) = (k \div s) * s
  BY <1>3 DEF k
<1> QED BY <1>1, <1>4, <1>5, <1>6, <1>7

LEMMA ViewModeSetIs ==
  ASSUME NEW v, Sound(v), NEW m \in Modes
  PROVE  LET w == ViewModeSet(v, m) IN Sound(w) /\ w.loaded = v.loaded /\ w.mode = m
<1> DEFINE u == [v EXCEPT !.mode = m]
<1> DEFINE r == Repaginated(u)
<1> DEFINE w == ViewModeSet(v, m)
<1>1. v \in Viewer /\ Typed(v)
  BY TypedIs DEF Sound
<1>2. u \in Viewer /\ u.mode = m /\ u.loaded = v.loaded /\ u.active = v.active /\ u.cache = v.cache /\ u.layout = v.layout
  BY <1>1 DEF Viewer
<1>3. w = IF m = "scroll" THEN [u EXCEPT !.y = PageToScroll(u)]
          ELSE IF Cached(r, r.active) THEN [r EXCEPT !.page = ScrollToPage(r)]
          ELSE IF r.y > 0 /\ r.loaded > 0
          THEN [r EXCEPT !.pending = BlockAt(Blocks(r), 1, r.y)]
          ELSE r
  BY DEF ViewModeSet
<1> HIDE DEF u
<1>4. Typed(u)
  BY <1>1, <1>2 DEF Typed
<1>5. Typed(r) /\ r.mode = m /\ r.loaded = v.loaded /\ r.active \in Chapters
  BY <1>2, <1>4, RepaginatedIs, TypedIs
<1>6. CASE m = "scroll"
  <2>1. Sound(u)
    BY <1>2, <1>4, <1>6 DEF Sound
  <2>2. PageToScroll(u) \in Nat
    <3>1. CASE Cached(u, u.active) /\ u.page < Len(Pages(u))
      <4> DEFINE i == Pages(u)[u.page + 1].start
      <4>1. PageToScroll(u) = Top(Blocks(u), u.cache[u.active].wrap, i)
        BY <3>1 DEF PageToScroll
      <4>2. u.page \in Nat /\ u.active \in Chapters /\ Blocks(u) = Book[u.active]
            /\ u.cache[u.active] \in Layouts
        BY <1>4, <3>1, TypedIs DEF Cached
      <4>3. i \in BlocksOf(u.active)
        <5>1. u.page + 1 \in 1..Len(Pages(u))
          BY <1>4, <3>1, <4>2, PagesOfSound
        <5> QED BY <1>4, <3>1, <5>1, PagesOfSound
      <4>4. i \in 1..(Len(Book[u.active]) + 1)
        BY <4>2, <4>3, BookIs DEF BlocksOf
      <4>5. u.cache[u.active].wrap \in Nat \ {0}
        <5>1. u.cache[u.active] \in Layout
          BY <4>2, BookAssumption
        <5> QED BY <5>1 DEF Layout
      <4> HIDE DEF i
      <4> QED BY <4>1, <4>2, <4>4, <4>5, TopOfBook
    <3>2. CASE ~(Cached(u, u.active) /\ u.page < Len(Pages(u)))
      BY <3>2 DEF PageToScroll
    <3> QED BY <3>1, <3>2
  <2>3. Sound(w) /\ Alike(w, u)
    BY <1>3, <1>6, <2>1, <2>2, AtOffset
  <2> QED BY <1>2, <2>3 DEF Alike
<1>7. CASE m # "scroll" /\ Cached(r, r.active)
  <2>1. w = [r EXCEPT !.page = ScrollToPage(r)]
    BY <1>3, <1>7
  <2>2. ScrollToPage(r) \in Nat /\ ScrollToPage(r) < Len(Pages(r))
    <3> HIDE DEF r
    <3>1. /\ \A b : PageWith(Pages(r), b) \in Nat /\ PageWith(Pages(r), b) < Len(Pages(r))
          /\ Len(Pages(r)) \in Nat /\ Len(Pages(r)) >= 1
      BY <1>5, <1>7, PagesOfSound
    <3>2. ScrollToPage(r) = 0 \/ \E b : ScrollToPage(r) = PageWith(Pages(r), b)
      BY DEF ScrollToPage
    <3> QED BY <3>1, <3>2
  <2> HIDE DEF r, w
  <2>3. Sound(w) /\ Alike(w, r)
    BY <1>5, <2>1, <2>2, OnPage
  <2> QED BY <1>5, <2>3 DEF Alike, w
<1>8. CASE m # "scroll" /\ ~Cached(r, r.active)
  <2> DEFINE b == BlockAt(Blocks(r), 1, r.y)
  <2>1. w = r \/ w = [r EXCEPT !.pending = b]
    BY <1>3, <1>8
  <2>2. Sound(r)
    BY <1>5, <1>8 DEF Sound
  <2>3. b \in Nat \ {0}
    <3>1. Book[r.active] \in Seq(Block) /\ Book[r.active] # << >> /\ Blocks(r) = Book[r.active]
          /\ Len(Book[r.active]) \in Nat
      BY <1>5, BookIs DEF Blocks
    <3>2. b \in 1..Len(Book[r.active])
      BY <3>1, BlockAtIs
    <3> QED BY <3>1, <3>2
  <2> HIDE DEF r, w, b
  <2>4. CASE w = [r EXCEPT !.pending = b]
    <3>1. Sound(w) /\ Alike(w, r)
      BY <1>5, <2>3, <2>4, Deferred
    <3> QED BY <1>5, <3>1 DEF Alike, w
  <2> QED BY <1>5, <2>1, <2>2, <2>4 DEF w
<1> QED BY <1>6, <1>7, <1>8

LEMMA NextPageIs ==
  ASSUME NEW v, Sound(v)
  PROVE  LET w == NextPageOf(v)
         IN  /\ Sound(w) /\ w.loaded = v.loaded /\ w.mode = v.mode
             /\ v.loaded = 0 /\ v.layout = None => w = v
<1> DEFINE r == Repaginated(v)
<1> DEFINE w == NextPageOf(v)
<1>1. Sound(r) /\ r.loaded = v.loaded /\ r.mode = v.mode /\ Typed(r) /\ (v.loaded = 0 => r = v)
      /\ r.layout = v.layout
  <2>1. Typed(v)
    BY DEF Sound
  <2>2. v.loaded = 0 => ~Paginates(v)
    BY DEF Paginates
  <2> QED BY <2>1, <2>2, RepaginatedIs
<1> DEFINE n == r.page + PageStep(r)
<1> DEFINE u == [r EXCEPT !.active = r.active + 1, !.page = 0]
<1>2. w = IF n < TotalPages(r) THEN [r EXCEPT !.page = n]
          ELSE IF r.active + 1 <= r.loaded THEN Repaginated(u) ELSE r
  <2>1. r \in Viewer
    BY <1>1, TypedIs
  <2> HIDE DEF r
  <2> QED BY <2>1 DEF NextPageOf, Viewer, r
<1> HIDE DEF r
<1>3. r \in Viewer /\ r.page \in Nat /\ r.active \in Nat /\ r.active \in Chapters /\ r.loaded \in Nat /\ PageStep(r) \in {1, 2}
  BY <1>1, TypedIs, PageStepIs
<1>4. CASE n < TotalPages(r)
  <2>1. n \in Nat /\ (Cached(r, r.active) => n < Len(Pages(r)))
    BY <1>1, <1>3, <1>4, TotalPagesIs
  <2>2. w = [r EXCEPT !.page = n]
    BY <1>2, <1>4
  <2>3. Sound(w) /\ Alike(w, r)
    <3> HIDE DEF n, w
    <3> QED BY <1>1, <2>1, <2>2, OnPage
  <2>4. v.layout # None
    <3>1. Cached(r, r.active)
      BY <1>3, <1>4 DEF TotalPages
    <3> QED BY <1>1, <1>3, <3>1 DEF Typed, Cached
  <2> QED BY <1>1, <2>3, <2>4 DEF Alike
<1>5. CASE ~(n < TotalPages(r)) /\ r.active + 1 <= r.loaded
  <2>1. r.active + 1 \in Chapters /\ r.loaded # 0
    BY <1>3, <1>5, BookIs DEF Viewer
  <2>2. w = Repaginated(u)
    BY <1>2, <1>5
  <2>3. u = [r EXCEPT !.active = r.active + 1, !.page = 0, !.y = r.y]
    BY <1>3 DEF Viewer
  <2>4. r.y \in Nat
    BY <1>3 DEF Viewer
  <2> DEFINE c == r.active + 1
  <2>5. c \in Chapters /\ c <= r.loaded
    BY <1>5, <2>1
  <2> HIDE DEF c
  <2> DEFINE x == [r EXCEPT !.active = c, !.page = 0, !.y = r.y]
  <2>6. /\ Sound(x) /\ x.mode = r.mode /\ x.loaded = r.loaded /\ x.active = c /\ x.page = 0
        /\ x.pending = r.pending /\ x.layout = r.layout /\ x.cache = r.cache
        /\ x.pending = 0 => Heads(x, 1)
    BY <1>1, <2>4, <2>5, MovedTo
  <2>7. u = x
    BY <2>3 DEF c
  <2> HIDE DEF u, x
  <2>8. Sound(u) /\ u.mode = r.mode /\ u.loaded = r.loaded /\ Typed(u)
    BY <2>6, <2>7 DEF Sound
  <2>9. Sound(w) /\ w.mode = u.mode /\ w.loaded = u.loaded
    BY <2>2, <2>8, RepaginatedIs
  <2> QED BY <1>1, <2>1, <2>8, <2>9
<1>6. CASE ~(n < TotalPages(r)) /\ ~(r.active + 1 <= r.loaded)
  BY <1>1, <1>2, <1>6
<1> QED BY <1>4, <1>5, <1>6

LEMMA PreviousPageIs ==
  ASSUME NEW v, Sound(v), v.loaded = 0 => Blank(v)
  PROVE  LET w == PreviousPageOf(v)
         IN  /\ Sound(w) /\ w.loaded = v.loaded /\ w.mode = v.mode
             /\ v.loaded = 0 => w = v
<1> DEFINE r == Repaginated(v)
<1> DEFINE w == PreviousPageOf(v)
<1>1. Sound(r) /\ r.loaded = v.loaded /\ r.mode = v.mode /\ Typed(r) /\ (v.loaded = 0 => r = v)
  <2>1. Typed(v)
    BY DEF Sound
  <2>2. v.loaded = 0 => ~Paginates(v)
    BY DEF Paginates
  <2> QED BY <2>1, <2>2, RepaginatedIs
<1> DEFINE n == r.page - PageStep(r)
<1> DEFINE u == [r EXCEPT !.active = r.active - 1]
<1> DEFINE q == Repaginated(u)
<1>2. w = IF r.page >= PageStep(r) THEN [r EXCEPT !.page = n]
          ELSE IF r.page > 0 THEN [r EXCEPT !.page = 0]
          ELSE IF r.active > 1 THEN [q EXCEPT !.page = LastSpread(q)]
          ELSE r
  <2>1. r \in Viewer
    BY <1>1, TypedIs
  <2> HIDE DEF r
  <2> QED BY <2>1 DEF PreviousPageOf, Viewer, r
<1> HIDE DEF r
<1>3. /\ r \in Viewer /\ r.page \in Nat /\ r.active \in Nat /\ r.active >= 1 /\ r.active \in Chapters
      /\ r.loaded \in Nat /\ PageStep(r) \in {1, 2} /\ r.y \in Nat
  BY <1>1, TypedIs, PageStepIs
<1>4. r.page > 0 => v.loaded # 0
  BY <1>1 DEF Blank
<1>5. r.mode = "paginated" /\ Cached(r, r.active) /\ r.pending = 0 => r.page < Len(Pages(r)) /\ Len(Pages(r)) \in Nat
  BY <1>1, PagesOfSound DEF Sound
<1>6. CASE r.page >= PageStep(r)
  <2>1. n \in Nat /\ n < r.page /\ r.page > 0
    BY <1>3, <1>6
  <2>2. w = [r EXCEPT !.page = n]
    BY <1>2, <1>6
  <2>3. r.mode = "paginated" /\ Cached(r, r.active) /\ r.pending = 0 => n < Len(Pages(r))
    <3> HIDE DEF n
    <3> QED BY <1>3, <1>5, <2>1
  <2> HIDE DEF n, w
  <2>4. Sound(w) /\ Alike(w, r)
    BY <1>1, <2>1, <2>2, <2>3, OnPage
  <2> QED BY <1>1, <1>4, <2>1, <2>4 DEF Alike, w
<1>7. CASE ~(r.page >= PageStep(r)) /\ r.page > 0
  <2>1. w = [r EXCEPT !.page = 0]
    BY <1>2, <1>7
  <2>2. r.mode = "paginated" /\ Cached(r, r.active) /\ r.pending = 0 => 0 < Len(Pages(r))
    BY <1>3, <1>5, <1>7
  <2> HIDE DEF w
  <2>3. Sound(w) /\ Alike(w, r)
    BY <1>1, <2>1, <2>2, OnPage
  <2> QED BY <1>1, <1>4, <1>7, <2>3 DEF Alike, w
<1>8. CASE r.page = 0 /\ r.active > 1
  <2>1. w = [q EXCEPT !.page = LastSpread(q)]
    BY <1>2, <1>3, <1>8
  <2> DEFINE c == r.active - 1
  <2> DEFINE x == [r EXCEPT !.active = c, !.page = 0, !.y = r.y]
  <2>2. c \in Chapters
    BY <1>3, <1>8, BookIs DEF Viewer
  <2>3. CASE v.loaded > 0
    <3>1. c <= r.loaded
      BY <1>1, <1>3, <2>3, TypedIs
    <3>2. u = x
      BY <1>3, <1>8 DEF Viewer
    <3> HIDE DEF c
    <3>3. /\ Sound(x) /\ x.mode = r.mode /\ x.loaded = r.loaded /\ x.active = c /\ x.page = 0
          /\ x.pending = r.pending /\ x.layout = r.layout /\ x.cache = r.cache
          /\ x.pending = 0 => Heads(x, 1)
      BY <1>1, <1>3, <2>2, <3>1, MovedTo
    <3> HIDE DEF u, x
    <3>4. Sound(u) /\ u.mode = r.mode /\ u.loaded = r.loaded /\ Typed(u)
      BY <3>2, <3>3 DEF Sound
    <3>5. Typed(q) /\ q.mode = u.mode /\ q.loaded = u.loaded
      BY <3>4, RepaginatedIs
    <3>6. LastSpread(q) \in Nat /\ (Cached(q, q.active) => LastSpread(q) < Len(Pages(q)))
      BY <3>5, LastSpreadIs
    <3> HIDE DEF q, w
    <3>7. Sound(w) /\ Alike(w, q)
      BY <2>1, <3>5, <3>6, OnPage
    <3> QED BY <1>1, <2>3, <3>4, <3>5, <3>7 DEF Alike, w
  <2>4. CASE ~(v.loaded > 0)
    <3>1. v.loaded = 0 /\ r = v
      BY <1>1, <1>3, <2>4
    <3> QED BY <1>8, <3>1 DEF Blank
  <2> QED BY <2>3, <2>4
<1>9. CASE r.page = 0 /\ ~(r.active > 1)
  <2>1. w = r
    BY <1>2, <1>3, <1>9
  <2> QED BY <1>1, <2>1
<1> QED BY <1>3, <1>6, <1>7, <1>8, <1>9

\* Another layout forgets all pages; those of the chapter are computed anew.
LEMMA LayoutSetIs ==
  ASSUME NEW v, Sound(v), NEW l \in Layouts, v.layout # None
  PROVE  LET w == LayoutSet(v, l) IN Sound(w) /\ w.loaded = v.loaded /\ w.mode = v.mode
<1> DEFINE u == [v EXCEPT !.layout = l, !.cache = [c \in Chapters |-> None]]
<1>1. v \in Viewer /\ v.active \in Chapters /\ Typed(v)
  BY TypedIs DEF Sound
<1>2. /\ u \in Viewer /\ u.mode = v.mode /\ u.loaded = v.loaded /\ u.active = v.active
      /\ \A c \in Chapters : u.cache[c] = None
  BY <1>1 DEF Viewer
<1>3. LayoutSet(v, l) = Repaginated(u)
  BY DEF LayoutSet
<1> HIDE DEF u
<1>4. Sound(u) /\ Typed(u)
  BY <1>1, <1>2 DEF Sound, Typed, Cached
<1> QED BY <1>2, <1>3, <1>4, RepaginatedIs

\* A match is a block of its chapter.
LEMMA HitsAre ==
  ASSUME NEW m \in Matches
  PROVE  m.chapter \in Chapters /\ Hits[m.chapter][m.at] \in BlocksOf(m.chapter)
         /\ m.at \in 1..Len(Hits[m.chapter]) /\ Len(Hits[m.chapter]) \in Nat
<1>1. m.chapter \in Chapters /\ m.at \in 1..Len(Hits[m.chapter])
  BY DEF Matches
<1>2. Hits[m.chapter] \in Seq(BlocksOf(m.chapter))
  BY <1>1, BookIs
<1> QED BY <1>1, <1>2

LEMMA MatchVisitedIs ==
  ASSUME NEW v, Sound(v), v.search \in Matches, ~MatchFails(v, Hits[v.search.chapter][v.search.at]),
         Paginates(v) => v.pending = 0 /\ Cached(v, v.active) /\ v.cache[v.active] = v.layout,
         v.loaded > 0
  PROVE  LET w == MatchVisited(v)
         IN  /\ Sound(w) /\ Alike(w, v) /\ w.search = v.search
             /\ v.search.chapter = v.active /\ v.mode = "paginated"
                   => Heads(w, Hits[v.search.chapter][v.search.at])
<1> DEFINE m == Hits[v.search.chapter][v.search.at]
<1> DEFINE w == MatchVisited(v)
<1>1. Typed(v) /\ v \in Viewer /\ v.mode \in {"scroll", "paginated"} /\ v.active \in Chapters /\ Blocks(v) = Book[v.active]
  BY TypedIs DEF Sound, Modes
<1>2. v.search.chapter \in Chapters /\ m \in BlocksOf(v.search.chapter) /\ m \in Nat \ {0}
  <2>1. v.search.chapter \in Chapters /\ m \in BlocksOf(v.search.chapter)
    BY HitsAre
  <2> DEFINE c == v.search.chapter
  <2>2. Len(Book[c]) \in Nat
    BY <2>1, BookIs
  <2>3. m \in 1..Len(Book[c])
    BY <2>1 DEF BlocksOf
  <2> HIDE DEF m, c
  <2>4. m \in Nat \ {0}
    BY <2>2, <2>3
  <2> QED BY <2>1, <2>4 DEF c
<1>3. w = IF v.mode = "scroll" THEN [v EXCEPT !.y = Top(Blocks(v), 1, m)]
          ELSE IF ~Cached(v, v.active) THEN [v EXCEPT !.pending = m]
          ELSE IF \E k \in 1..Len(Pages(v)) : Holds(Pages(v)[k], m)
          THEN [v EXCEPT !.page = PageWith(Pages(v), m)] ELSE v
  BY DEF MatchVisited
<1>4. v.mode = "scroll" => m - 1 <= Len(Blocks(v))
  <2>1. v.mode = "scroll" => ~(m - 1 > Len(Blocks(v)))
    BY DEF MatchFails
  <2>2. Len(Blocks(v)) \in Nat
    BY <1>1, BookIs
  <2> QED BY <1>2, <2>1, <2>2
<1> HIDE DEF m, w
<1>5. CASE v.mode = "scroll"
  <2>1. m \in 1..(Len(Book[v.active]) + 1)
    BY <1>1, <1>2, <1>4, <1>5, BookIs
  <2>2. Top(Blocks(v), 1, m) \in Nat
    <3>1. v.active \in Chapters /\ Blocks(v) = Book[v.active]
      BY <1>1 DEF Blocks
    <3>2. Top(Book[v.active], 1, m) \in Nat
      <4> DEFINE c == v.active
      <4>1. c \in Chapters /\ m \in 1..(Len(Book[c]) + 1) /\ 1 \in Nat \ {0}
        BY <2>1, <3>1
      <4> HIDE DEF c
      <4>2. Top(Book[c], 1, m) \in Nat
        BY <4>1, TopOfBook, Zenon
      <4> QED BY <4>2 DEF c
    <3> QED BY <3>1, <3>2, Zenon
  <2>3. w = [v EXCEPT !.y = Top(Blocks(v), 1, m)]
    BY <1>3, <1>5
  <2>4. Sound(w) /\ Alike(w, v) /\ w.search = v.search
    BY <2>2, <2>3, AtOffset
  <2> QED BY <1>5, <2>4 DEF w
<1>6. CASE v.mode = "paginated" /\ ~Cached(v, v.active)
  <2>1. w = [v EXCEPT !.pending = m]
    BY <1>3, <1>6
  <2>2. Sound(w) /\ Alike(w, v) /\ w.search = v.search /\ Heads(w, m)
    BY <1>1, <1>2, <2>1, Deferred
  <2> QED BY <2>2 DEF w, m
<1>7. CASE v.mode = "paginated" /\ Cached(v, v.active)
  <2> DEFINE n == PageWith(Pages(v), m)
  <2>1. v.layout # None /\ n \in Nat /\ n < Len(Pages(v)) /\ Len(Pages(v)) \in Nat
        /\ (m \in BlocksOf(v.active) => Holds(Pages(v)[n + 1], m))
    BY <1>1, <1>7, PagesOfSound
  <2>2. v.pending = 0 /\ v.cache[v.active] = v.layout
    BY <1>7, <2>1 DEF Paginates
  <2> DEFINE x == [v EXCEPT !.page = n]
  <2> HIDE DEF n
  <2>3. /\ Sound(x) /\ Alike(x, v) /\ x.page = n /\ x.pending = v.pending /\ x.y = v.y /\ x.search = v.search
        /\ Pages(x) = Pages(v)
    BY <1>1, <2>1, OnPage
  <2>4. w = x \/ (w = v /\ ~\E k \in 1..Len(Pages(v)) : Holds(Pages(v)[k], m))
    BY <1>3, <1>7 DEF n
  <2>5. m \in BlocksOf(v.active) => \E k \in 1..Len(Pages(v)) : Holds(Pages(v)[k], m)
    <3>1. n + 1 \in 1..Len(Pages(v))
      BY <2>1
    <3> QED BY <2>1, <3>1
  <2> HIDE DEF x
  <2>6. Heads(x, m)
    BY <1>7, <2>2, <2>3 DEF Heads, Cached, Alike, n
  <2>7. CASE w = x
    BY <2>3, <2>6, <2>7 DEF w, m
  <2>8. CASE w = v /\ ~(m \in BlocksOf(v.active))
    BY <1>2, <2>8 DEF w, Alike
  <2> QED BY <2>4, <2>5, <2>7, <2>8
<1> QED BY <1>1, <1>5, <1>6, <1>7

LEMMA SearchMovedIs ==
  ASSUME NEW v, Sound(v), v.search # None, NEW d \in {-1, 1}
  PROVE  LET w == SearchMoved(v, d)
         IN  /\ Sound(w) /\ Alike(w, v) /\ w.page = v.page /\ w.pending = v.pending /\ w.y = v.y
             /\ w.search \in Matches /\ w.search.chapter = v.search.chapter
<1> DEFINE n == Len(Hits[v.search.chapter])
<1> DEFINE at == ((v.search.at - 1 + d + n) % n) + 1
<1> DEFINE s == [v.search EXCEPT !.at = at]
<1>1. v \in Viewer /\ v.search \in Matches
  BY TypedIs DEF Sound, Viewer
<1>2. SearchMoved(v, d) = [v EXCEPT !.search = s]
  BY <1>1 DEF SearchMoved, Viewer
<1>3. v.search.at \in 1..n /\ n \in Nat /\ v.search \in [chapter : Chapters, at : Nat]
  BY <1>1, HitsAre DEF Matches
<1>4. at \in 1..n
  <2> DEFINE x == v.search.at - 1 + d + n
  <2> HIDE DEF n
  <2>1. x \in Int /\ n \in Nat \ {0}
    BY <1>3
  <2> HIDE DEF x
  <2>2. x % n \in 0..(n - 1)
    BY <2>1
  <2> QED BY <2>1, <2>2 DEF x
<1> HIDE DEF at
<1>5. s \in [chapter : Chapters, at : Nat] /\ s.chapter = v.search.chapter /\ s.at = at
  BY <1>3, <1>4
<1> HIDE DEF s
<1>6. s \in Matches
  BY <1>4, <1>5 DEF Matches
<1> DEFINE w == [v EXCEPT !.search = s]
<1>7. /\ Sound(w) /\ Alike(w, v) /\ w.page = v.page /\ w.pending = v.pending /\ w.y = v.y /\ w.search = s
      /\ \A b : Heads(v, b) <=> Heads(w, b)
  <2>1. s \in Matches \cup {None}
    BY <1>6
  <2> QED BY <2>1, Sought
<1> QED BY <1>2, <1>5, <1>6, <1>7

LEMMA SearchedIs ==
  ASSUME NEW v, Sound(v), v.loaded > 0, NEW found \in BOOLEAN, found => Hits[v.active] # << >>,
         Paginates(v) => v.pending = 0 /\ Cached(v, v.active) /\ v.cache[v.active] = v.layout
  PROVE  LET w == Searched(v, found)
         IN  /\ Sound(w) /\ Alike(w, v)
             /\ found /\ v.mode = "paginated" => Heads(w, Hits[v.active][1])
             /\ ~found => \A b : Heads(v, b) => Heads(w, b)
             /\ found => Hits[v.active][1] \in BlocksOf(v.active)
<1>1. v.active \in Chapters
  BY TypedIs DEF Sound
<1>2. CASE found
  <2> DEFINE s == [chapter |-> v.active, at |-> 1]
  <2> DEFINE u == [v EXCEPT !.search = s]
  <2>1. s \in Matches /\ s.chapter = v.active /\ s.at = 1
    <3>1. Hits[v.active] \in Seq(BlocksOf(v.active)) /\ Hits[v.active] # << >>
      BY <1>1, <1>2, BookIs
    <3>2. 1 \in 1..Len(Hits[v.active])
      BY <3>1
    <3> QED BY <1>1, <3>2 DEF Matches
  <2>2. Searched(v, found) = MatchVisited(u)
    BY <1>2 DEF Searched
  <2>3. Hits[v.active][1] \in BlocksOf(v.active)
    <3> HIDE DEF s
    <3>1. Hits[s.chapter][s.at] \in BlocksOf(s.chapter)
      BY <2>1, HitsAre
    <3> QED BY <2>1, <3>1
  <2> HIDE DEF s
  <2>4. /\ Sound(u) /\ Alike(u, v) /\ u.page = v.page /\ u.pending = v.pending /\ u.y = v.y /\ u.search = s
        /\ \A b : Heads(v, b) <=> Heads(u, b)
    <3>1. s \in Matches \cup {None}
      BY <2>1
    <3> QED BY <3>1, Sought
  <2> HIDE DEF u
  <2>5. Blocks(u) = Book[v.active] /\ u.search = s /\ u.active = v.active
    BY <2>4 DEF Alike, Blocks
  <2>6. ~MatchFails(u, Hits[u.search.chapter][u.search.at])
    <3>1. Hits[v.active][1] - 1 <= Len(Book[v.active]) /\ Len(Book[v.active]) \in Nat /\ Hits[v.active][1] \in Nat
      BY <1>1, <2>3, BookIs DEF BlocksOf
    <3> QED BY <2>1, <2>5, <3>1 DEF MatchFails
  <2>7. Paginates(u) => u.pending = 0 /\ Cached(u, u.active) /\ u.cache[u.active] = u.layout
    BY <2>4 DEF Paginates, Cached, Alike
  <2> DEFINE w == MatchVisited(u)
  <2>8. /\ Sound(w) /\ Alike(w, u) /\ w.search = u.search
        /\ u.search.chapter = u.active /\ u.mode = "paginated"
              => Heads(w, Hits[u.search.chapter][u.search.at])
    <3>1. u.loaded > 0 /\ u.search \in Matches
      BY <2>1, <2>4 DEF Alike
    <3> QED BY <2>4, <2>6, <2>7, <3>1, MatchVisitedIs
  <2> HIDE DEF w
  <2>9. Alike(w, v)
    BY <2>4, <2>8 DEF Alike
  <2>10. v.mode = "paginated" => Heads(w, Hits[v.active][1])
    BY <2>1, <2>4, <2>5, <2>8 DEF Alike
  <2> QED BY <1>2, <2>2, <2>3, <2>8, <2>9, <2>10 DEF w
<1>3. CASE ~found
  <2>1. Searched(v, found) = [v EXCEPT !.search = None]
    BY <1>3 DEF Searched
  <2> DEFINE w == [v EXCEPT !.search = None]
  <2>2. /\ Sound(w) /\ Alike(w, v) /\ w.page = v.page /\ w.pending = v.pending /\ w.y = v.y /\ w.search = None
        /\ \A b : Heads(v, b) <=> Heads(w, b)
    BY Sought
  <2> QED BY <1>3, <2>1, <2>2
<1> QED BY <1>2, <1>3

\* The position that is stored is one of the book's.
LEMMA ProgressIs ==
  ASSUME NEW v, Sound(v)
  PROVE  CurrentProgress(v) \in Positions \cup {None}
<1> DEFINE b == FirstBlock(v)
<1>1. Typed(v) /\ v.active \in Chapters /\ Blocks(v) = Book[v.active] /\ v.page \in Nat
  BY TypedIs DEF Sound
<1>2. /\ Book[v.active] \in Seq(Block) /\ Book[v.active] # << >>
      /\ 1 \in BlocksOf(v.active) /\ \A i \in BlocksOf(v.active) : Book[v.active][i].node \in Nodes
  BY <1>1, BookIs
<1>3. b \in BlocksOf(v.active)
  <2>1. CASE v.mode = "scroll"
    <3>1. BlockAt(Book[v.active], 1, v.y) \in 1..Len(Book[v.active])
      BY <1>2, BlockAtIs
    <3> QED BY <1>1, <2>1, <3>1 DEF FirstBlock, BlocksOf
  <2>2. CASE v.mode # "scroll" /\ Cached(v, v.active) /\ v.page < Len(Pages(v))
    <3>1. b = Pages(v)[v.page + 1].start
      BY <2>2 DEF FirstBlock
    <3>2. /\ Len(Pages(v)) \in Nat
          /\ \A k \in 1..Len(Pages(v)) : Pages(v)[k].start \in BlocksOf(v.active)
      BY <1>1, <2>2, PagesOfSound
    <3>3. v.page + 1 \in 1..Len(Pages(v))
      BY <1>1, <2>2, <3>2
    <3> HIDE DEF b
    <3> QED BY <3>1, <3>2, <3>3
  <2>3. CASE v.mode # "scroll" /\ ~(Cached(v, v.active) /\ v.page < Len(Pages(v)))
    <3>1. b = 1
      BY <2>3 DEF FirstBlock
    <3> QED BY <1>2, <3>1
  <2> QED BY <2>1, <2>2, <2>3
<1> HIDE DEF b
<1>4. CurrentProgress(v) = IF v.loaded = 0 THEN None ELSE [chapter |-> v.active, node |-> Book[v.active][b].node]
  BY <1>1 DEF CurrentProgress, b
<1> QED BY <1>1, <1>2, <1>3, <1>4 DEF Positions

LEMMA OffsetsAre == Offsets \subseteq Nat
<1> DEFINE T == {Top(Book[c], 1, Len(Book[c]) + 1) : c \in Chapters}
<1>1. Offsets = 0..Max(T)
  BY DEF Offsets
<1>2. \A c \in Chapters : Len(Book[c]) + 1 \in 1..(Len(Book[c]) + 1)
  BY BookIs
<1>3. T \in SUBSET Nat
  BY <1>2, TopOfBook
<1> DEFINE top == [c \in Chapters |-> Top(Book[c], 1, Len(Book[c]) + 1)]
<1>4. \A c \in Chapters : top[c] \in Nat
  BY <1>2, TopOfBook
<1>5. T = {top[c] : c \in Chapters}
  OBVIOUS
<1> HIDE DEF T, top
<1>6. \E a \in Nat : \A c \in Chapters : top[c] <= a
  <2> DEFINE n == Len(Book)
  <2> DEFINE P == {m \in Nat : m <= n => \E a \in Nat : \A c \in 1..m : top[c] <= a}
  <2>1. n \in Nat /\ Chapters = 1..n
    BY BookIs
  <2> HIDE DEF n
  <2>2. 0 \in P
    <3>1. \A c \in 1..0 : top[c] <= 0
      OBVIOUS
    <3> QED BY <3>1
  <2>3. ASSUME NEW m \in P PROVE m + 1 \in P
    <3>1. SUFFICES ASSUME m + 1 <= n
                   PROVE  \E a \in Nat : \A c \in 1..(m + 1) : top[c] <= a
      OBVIOUS
    <3>2. PICK a \in Nat : \A c \in 1..m : top[c] <= a
      BY <2>1, <3>1
    <3>3. m + 1 \in Chapters /\ top[m + 1] \in Nat
      BY <1>4, <2>1, <3>1
    <3> DEFINE z == IF top[m + 1] <= a THEN a ELSE top[m + 1]
    <3>4. z \in Nat /\ a <= z /\ top[m + 1] <= z
      BY <3>3
    <3> HIDE DEF z
    <3>5. ASSUME NEW c \in 1..(m + 1) PROVE top[c] <= z
      <4>1. c = m + 1 \/ (c \in 1..m /\ c \in Chapters)
        BY <2>1, <3>1
      <4> QED BY <1>4, <3>2, <3>4, <4>1
    <3> QED BY <3>4, <3>5
  <2>4. P = Nat
    <3> HIDE DEF P
    <3>1. P \in SUBSET Nat BY DEF P
    <3> QED BY <2>2, <2>3, <3>1, NatSet
  <2>5. n \in P
    BY <2>1, <2>4
  <2>6. \E a \in Nat : \A c \in 1..n : top[c] <= a
    BY <2>1, <2>5
  <2> QED BY <2>1, <2>6
<1>7. PICK a \in Nat : \A x \in T : x <= a
  BY <1>5, <1>6
<1>8. T # {}
  BY <1>5, BookIs
<1>9. Max(T) \in T
  BY <1>3, <1>7, <1>8, HasMax
<1> QED BY <1>1, <1>3, <1>9

LEMMA UserStep ==
  ASSUME EpubInv, viewer # None, touched' = TRUE, acts' = acts + 1, acts < MaxActs,
         UNCHANGED <<awaited, stored, opens, origin>>, mode' \in Modes,
         NEW w, viewer' = w, Sound(w),
         viewer.loaded > 0 => w.loaded > 0,
         viewer.loaded = 0 => w.loaded = 0 /\ Blank(w) /\ w.initial = viewer.initial /\ w.path = viewer.path,
         AtTarget(w, target')
  PROVE  EpubInv'
<1>1. Sound(viewer) /\ Noted(viewer)
  BY DEF EpubInv
<1>2. viewer.loaded \in Nat /\ w.loaded \in Nat
  BY <1>1, TypedIs DEF Sound
<1>3. Noted(viewer)'
  BY <1>1, <1>2 DEF Noted, Blank
<1>4. acts' \in 0..MaxActs
  BY BoundAssumption DEF EpubInv
<1>5. Sound(viewer)' /\ AtTarget(viewer, target)'
  OBVIOUS
<1> QED BY <1>3, <1>4, <1>5 DEF EpubInv

\* What the update of any message starts with.
LEMMA UpdateIs ==
  ASSUME EpubInv, viewer # None
  PROVE  LET r == Repaginated(viewer)
         IN  /\ Sound(viewer) /\ Noted(viewer) /\ Sound(r) /\ Typed(r) /\ r \in Viewer
             /\ r.mode = viewer.mode /\ r.loaded = viewer.loaded /\ r.active = viewer.active
             /\ r.initial = viewer.initial /\ r.path = viewer.path /\ r.y = viewer.y
             /\ r.layout = viewer.layout /\ r.search = viewer.search
             /\ viewer.loaded = 0 => r = viewer /\ Blank(viewer)
             /\ Paginates(r) => r.pending = 0 /\ Cached(r, r.active) /\ r.cache[r.active] = r.layout
             /\ AtTarget(r, target)
             /\ AtOrigin(viewer, origin) => AtOrigin(r, origin)
             /\ r.active \in Chapters /\ r.loaded \in Nat /\ r.mode \in Modes
<1> DEFINE r == Repaginated(viewer)
<1>1. Sound(viewer) /\ Noted(viewer) /\ Typed(viewer) /\ AtTarget(viewer, target)
  BY DEF EpubInv, Sound
<1>2. /\ Typed(r) /\ Sound(r)
      /\ r.mode = viewer.mode /\ r.loaded = viewer.loaded /\ r.active = viewer.active
      /\ r.initial = viewer.initial /\ r.path = viewer.path /\ r.y = viewer.y
      /\ r.layout = viewer.layout /\ r.search = viewer.search
      /\ ~Paginates(viewer) => r = viewer
      /\ Paginates(viewer) => r.pending = 0 /\ Cached(r, r.active) /\ r.cache[r.active] = r.layout
      /\ \A b \in BlocksOf(viewer.active) : viewer.mode = "paginated" /\ Heads(viewer, b) => Heads(r, b)
  BY <1>1, RepaginatedIs
<1> HIDE DEF r
<1>3. (Paginates(r) <=> Paginates(viewer)) /\ (viewer.loaded = 0 => ~Paginates(viewer))
  BY <1>2 DEF Paginates
<1>4. viewer.loaded = 0 => Blank(viewer)
  BY <1>1 DEF Noted
<1>5. AtTarget(r, target)
  BY <1>1, <1>2 DEF AtTarget
<1>6. origin \in Positions \cup {None}
  BY DEF EpubInv
<1>7. ASSUME AtOrigin(viewer, origin) PROVE AtOrigin(r, origin)
  <2>1. SUFFICES ASSUME origin # None, origin.chapter <= Spine
                 PROVE  /\ r.active = origin.chapter
                        /\ IF r.mode = "paginated" THEN Heads(r, Resolve(Book[origin.chapter], origin.node))
                           ELSE r.y = Top(Book[origin.chapter], 1, Resolve(Book[origin.chapter], origin.node))
    BY DEF AtOrigin
  <2>2. Resolve(Book[origin.chapter], origin.node) \in BlocksOf(origin.chapter)
    <3>1. origin.chapter \in Chapters
      BY <1>6, <2>1 DEF Positions
    <3> QED BY <3>1, ResolveInBook
  <2> QED BY <1>2, <1>7, <2>1, <2>2 DEF AtOrigin
<1>8. r \in Viewer /\ r.active \in Chapters /\ r.loaded \in Nat /\ r.mode \in Modes
  BY <1>2, TypedIs
<1> QED BY <1>1, <1>2, <1>3, <1>4, <1>5, <1>7, <1>8 DEF r

\* Each message from the user keeps the invariant.
LEMMA SelectChapterStep ==
  ASSUME EpubInv, NEW c \in Chapters, SelectChapter(c)
  PROVE  EpubInv'
<1> DEFINE r == Repaginated(viewer)
<1> DEFINE w == ChapterSelected(r, c)
<1>1. /\ viewer # None /\ acts < MaxActs /\ acts' = acts + 1 /\ touched' = TRUE
      /\ UNCHANGED <<awaited, stored, opens, origin>> /\ mode' = mode
      /\ c <= viewer.loaded /\ viewer' = w
      /\ target' = [chapter |-> c, block |-> 1, sure |-> r.pending = 0]
  BY DEF SelectChapter, Acting, Become, Aim
<1>2. Typed(r) /\ r.loaded = viewer.loaded /\ r.loaded \in Nat
  BY <1>1, UpdateIs
<1> HIDE DEF r
<1>3. /\ Sound(w) /\ w.mode = r.mode /\ w.loaded = r.loaded /\ w.active = c
      /\ w.pending = r.pending /\ (w.pending = 0 => Heads(w, 1))
  BY <1>1, <1>2, ChapterSelectedIs
<1> HIDE DEF w
<1>4. w.loaded > 0 /\ viewer.loaded > 0 /\ 1 \in BlocksOf(c)
  BY <1>1, <1>2, <1>3, BookIs
<1>5. AtTarget(w, target')
  BY <1>1, <1>3, <1>4 DEF AtTarget
<1>6. mode' \in Modes
  BY <1>1 DEF EpubInv
<1> QED BY <1>1, <1>3, <1>4, <1>5, <1>6, UserStep

LEMMA SelectNavEntryStep ==
  ASSUME EpubInv, NEW c \in Chapters, NEW b \in Anchors(c), SelectNavEntry(c, b)
  PROVE  EpubInv'
<1> DEFINE r == Repaginated(viewer)
<1> DEFINE w == NavEntrySelected(r, c, b)
<1>1. /\ viewer # None /\ acts < MaxActs /\ acts' = acts + 1 /\ touched' = TRUE
      /\ UNCHANGED <<awaited, stored, opens, origin>> /\ mode' = mode
      /\ c <= viewer.loaded /\ viewer' = w
      /\ target' = [chapter |-> c, block |-> b,
                    sure |-> viewer.mode = "paginated" /\ r.cache[c] \in {None, r.layout}]
  BY DEF SelectNavEntry, Acting, Become, Aim
<1>2. /\ Typed(r) /\ r.loaded = viewer.loaded /\ r.loaded \in Nat /\ r.mode = viewer.mode
      /\ (Paginates(r) => r.pending = 0)
  BY <1>1, UpdateIs
<1>3. b \in BlocksOf(c)
  BY DEF Anchors
<1> HIDE DEF r
<1>4. /\ Sound(w) /\ w.mode = r.mode /\ w.loaded = r.loaded /\ w.active = c
      /\ r.mode = "paginated" /\ r.cache[c] \in {None, r.layout} => Heads(w, b)
  BY <1>1, <1>2, <1>3, NavEntrySelectedIs
<1> HIDE DEF w
<1>5. w.loaded > 0 /\ viewer.loaded > 0
  BY <1>1, <1>2, <1>4, BookIs
<1>6. AtTarget(w, target')
  BY <1>1, <1>2, <1>3, <1>4, <1>5 DEF AtTarget
<1>7. mode' \in Modes
  BY <1>1 DEF EpubInv
<1> QED BY <1>1, <1>4, <1>5, <1>6, <1>7, UserStep

LEMMA FollowFragmentStep ==
  ASSUME EpubInv, NEW b, FollowFragment(b)
  PROVE  EpubInv'
<1> DEFINE r == Repaginated(viewer)
<1> DEFINE w == FragmentFollowed(r, b)
<1>1. /\ viewer # None /\ acts < MaxActs /\ acts' = acts + 1 /\ touched' = TRUE
      /\ UNCHANGED <<awaited, stored, opens, origin>> /\ mode' = mode
      /\ viewer.loaded > 0 /\ (viewer.mode = "paginated" => viewer.layout # None)
      /\ b \in Anchors(viewer.active) /\ viewer' = w
      /\ target' = [chapter |-> viewer.active, block |-> b, sure |-> viewer.mode = "paginated"]
  BY DEF FollowFragment, Acting, Become, Aim
<1>2. /\ Sound(r) /\ r.loaded = viewer.loaded /\ r.mode = viewer.mode /\ r.active = viewer.active
      /\ r.layout = viewer.layout
      /\ Paginates(r) => r.pending = 0 /\ Cached(r, r.active) /\ r.cache[r.active] = r.layout
  BY <1>1, UpdateIs
<1>3. b \in BlocksOf(viewer.active)
  BY <1>1 DEF Anchors
<1>4. r.mode = "paginated" => Paginates(r)
  BY <1>1, <1>2 DEF Paginates
<1> HIDE DEF r
<1>5. Sound(w) /\ Alike(w, r) /\ (Paginates(r) => Heads(w, b))
  BY <1>2, <1>3, FragmentFollowedIs
<1> HIDE DEF w
<1>6. AtTarget(w, target') /\ w.loaded > 0
  BY <1>1, <1>2, <1>3, <1>4, <1>5 DEF AtTarget, Alike
<1>7. mode' \in Modes
  BY <1>1 DEF EpubInv
<1>8. ~(viewer.loaded = 0)
  BY <1>1
<1> QED BY <1>1, <1>5, <1>6, <1>7, <1>8, UserStep

LEMMA FollowLinkStep ==
  ASSUME EpubInv, NEW c \in Chapters, FollowLink(c)
  PROVE  EpubInv'
<1> DEFINE r == Repaginated(viewer)
<1> DEFINE w == LinkFollowed(r, c)
<1>1. /\ viewer # None /\ acts < MaxActs /\ acts' = acts + 1 /\ touched' = TRUE
      /\ UNCHANGED <<awaited, stored, opens, origin>> /\ mode' = mode
      /\ viewer.loaded > 0 /\ viewer' = w
      /\ target' = [chapter |-> c, block |-> 1, sure |-> r.pending = 0]
  BY DEF FollowLink, Acting, Become, Aim
<1>2. Typed(r) /\ r.loaded = viewer.loaded
  BY <1>1, UpdateIs
<1> HIDE DEF r
<1>3. Sound(w) /\ w.mode = r.mode /\ w.loaded > 0 /\ w.active = c /\ (r.pending = 0 => Heads(w, 1))
  BY <1>1, <1>2, LinkFollowedIs
<1> HIDE DEF w
<1>4. 1 \in BlocksOf(c)
  BY BookIs
<1>5. AtTarget(w, target')
  BY <1>1, <1>3, <1>4 DEF AtTarget
<1>6. mode' \in Modes
  BY <1>1 DEF EpubInv
<1>7. ~(viewer.loaded = 0)
  BY <1>1
<1> QED BY <1>1, <1>3, <1>5, <1>6, <1>7, UserStep

\* A step that asks for nothing in particular, with chapters.
LEMMA FreeStep ==
  ASSUME EpubInv, Acting, viewer.loaded > 0, mode' \in Modes,
         NEW w, viewer' = w, Sound(w), w.loaded > 0, target' = None
  PROVE  EpubInv'
<1>1. /\ viewer # None /\ acts < MaxActs /\ acts' = acts + 1 /\ touched' = TRUE
      /\ UNCHANGED <<awaited, stored, opens, origin>>
  BY DEF Acting
<1>2. AtTarget(w, target') /\ ~(viewer.loaded = 0)
  BY DEF AtTarget
<1> QED BY <1>1, <1>2, UserStep

LEMMA PressArrowStep ==
  ASSUME EpubInv, NEW d \in {-1, 1}, PressArrow(d)
  PROVE  EpubInv'
<1> DEFINE c == viewer.active + d
<1> DEFINE w == [viewer EXCEPT !.active = c, !.y = 0]
<1>1. /\ Acting /\ viewer.mode = "scroll" /\ c \in 1..viewer.loaded /\ viewer # None
      /\ viewer' = w /\ mode' = mode /\ target' = None
  BY DEF PressArrow, Become, ArrowPressed, Acting
<1>2. Sound(viewer) /\ Typed(viewer) /\ viewer \in Viewer /\ viewer.loaded \in Nat
  BY <1>1, UpdateIs, TypedIs DEF Sound
<1>3. c \in Chapters /\ c <= viewer.loaded /\ viewer.loaded > 0
  BY <1>1, <1>2, BookIs DEF Viewer
<1> HIDE DEF c
<1>4. /\ w \in Viewer /\ w.mode = viewer.mode /\ w.loaded = viewer.loaded /\ w.active = c
      /\ w.cache = viewer.cache /\ w.layout = viewer.layout
  BY <1>2, <1>3 DEF Viewer
<1> HIDE DEF w
<1>5. Sound(w) /\ w.loaded > 0
  BY <1>1, <1>2, <1>3, <1>4 DEF Sound, Typed
<1>6. mode' \in Modes
  BY <1>1 DEF EpubInv
<1> QED BY <1>1, <1>3, <1>5, <1>6, FreeStep

LEMMA ScrolledStep ==
  ASSUME EpubInv, NEW y \in Offsets, Scrolled(y)
  PROVE  EpubInv'
<1> DEFINE w == [viewer EXCEPT !.y = y]
<1>1. /\ Acting /\ viewer.loaded > 0 /\ viewer # None
      /\ viewer' = w /\ mode' = mode /\ target' = None
  BY DEF Scrolled, Become, Acting
<1>2. Sound(viewer) /\ y \in Nat
  BY <1>1, UpdateIs, OffsetsAre
<1>3. Sound(w) /\ Alike(w, viewer)
  BY <1>2, AtOffset
<1> HIDE DEF w
<1>4. mode' \in Modes /\ w.loaded > 0
  BY <1>1, <1>3 DEF EpubInv, Alike
<1> QED BY <1>1, <1>3, <1>4, FreeStep

\* A step that changes nothing before the chapters have come.
LEMMA TurnStep ==
  ASSUME EpubInv, Acting, mode' \in Modes, NEW w, viewer' = w, Sound(w),
         w.loaded = viewer.loaded, target' = None,
         viewer.loaded = 0 => Blank(w) /\ w.initial = viewer.initial /\ w.path = viewer.path
  PROVE  EpubInv'
<1>1. /\ viewer # None /\ acts < MaxActs /\ acts' = acts + 1 /\ touched' = TRUE
      /\ UNCHANGED <<awaited, stored, opens, origin>>
  BY DEF Acting
<1>2. AtTarget(w, target')
  BY DEF AtTarget
<1> QED BY <1>1, <1>2, UserStep

LEMMA NextPageStep ==
  ASSUME EpubInv, NextPage
  PROVE  EpubInv'
<1> DEFINE w == NextPageOf(viewer)
<1>1. Acting /\ viewer # None /\ viewer' = w /\ mode' = mode /\ target' = None
  BY DEF NextPage, Become, Acting
<1>2. Sound(viewer) /\ (viewer.loaded = 0 => Blank(viewer))
  BY <1>1, UpdateIs
<1>3. Sound(w) /\ w.loaded = viewer.loaded /\ (viewer.loaded = 0 => w = viewer)
  BY <1>2, NextPageIs DEF Blank
<1> HIDE DEF w
<1>4. mode' \in Modes
  BY <1>1 DEF EpubInv
<1> QED BY <1>1, <1>2, <1>3, <1>4, TurnStep

LEMMA PreviousPageStep ==
  ASSUME EpubInv, PreviousPage
  PROVE  EpubInv'
<1> DEFINE w == PreviousPageOf(viewer)
<1>1. Acting /\ viewer # None /\ viewer' = w /\ mode' = mode /\ target' = None
  BY DEF PreviousPage, Become, Acting
<1>2. Sound(viewer) /\ (viewer.loaded = 0 => Blank(viewer))
  BY <1>1, UpdateIs
<1>3. Sound(w) /\ w.loaded = viewer.loaded /\ (viewer.loaded = 0 => w = viewer)
  BY <1>2, PreviousPageIs
<1> HIDE DEF w
<1>4. mode' \in Modes
  BY <1>1 DEF EpubInv
<1> QED BY <1>1, <1>2, <1>3, <1>4, TurnStep

LEMMA SetViewModeStep ==
  ASSUME EpubInv, NEW m \in Modes, SetViewMode(m)
  PROVE  EpubInv'
<1> DEFINE r == Repaginated(viewer)
<1> DEFINE w == ViewModeSet(r, m)
<1>1. Acting /\ viewer # None /\ viewer' = w /\ mode' = m /\ target' = None
  BY DEF SetViewMode, Acting
<1>2. Sound(r) /\ r \in Viewer /\ r.loaded = viewer.loaded /\ (viewer.loaded = 0 => r = viewer /\ Blank(viewer))
  BY <1>1, UpdateIs
<1> HIDE DEF r
<1>3. Sound(w) /\ w.loaded = r.loaded
  BY <1>2, ViewModeSetIs
<1>4. ASSUME viewer.loaded = 0
      PROVE  Blank(w) /\ w.initial = viewer.initial /\ w.path = viewer.path
  <2> DEFINE u == [r EXCEPT !.mode = m]
  <2>1. /\ u \in Viewer /\ u.loaded = 0 /\ u.active = 1 /\ u.page = 0 /\ u.y = 0 /\ u.pending = 0
        /\ u.layout = None /\ u.search = None /\ u.initial = viewer.initial /\ u.path = viewer.path
        /\ u.cache = r.cache
    BY <1>2, <1>4 DEF Viewer, Blank
  <2>2. ~Cached(u, u.active)
    <3>1. \A c \in Chapters : r.cache[c] = None
      BY <1>2, <1>4 DEF Sound, Typed, Blank
    <3> QED BY <2>1, <3>1, BookIs DEF Cached
  <2>3. w = IF m = "scroll" THEN [u EXCEPT !.y = PageToScroll(u)]
            ELSE IF Cached(Repaginated(u), Repaginated(u).active)
                 THEN [Repaginated(u) EXCEPT !.page = ScrollToPage(Repaginated(u))]
            ELSE IF Repaginated(u).y > 0 /\ Repaginated(u).loaded > 0
            THEN [Repaginated(u) EXCEPT !.pending = BlockAt(Blocks(Repaginated(u)), 1, Repaginated(u).y)]
            ELSE Repaginated(u)
    BY DEF ViewModeSet
  <2> HIDE DEF u, w
  <2>4. Repaginated(u) = u
    BY <2>1 DEF Repaginated
  <2>5. PageToScroll(u) = 0
    BY <2>2 DEF PageToScroll
  <2>6. w = u \/ w = [u EXCEPT !.y = 0]
    BY <2>1, <2>2, <2>3, <2>4, <2>5
  <2>7. [u EXCEPT !.y = 0] = u
    BY <2>1 DEF Viewer
  <2> QED BY <2>1, <2>6, <2>7 DEF Blank
<1> HIDE DEF w
<1> QED BY <1>1, <1>2, <1>3, <1>4, TurnStep

LEMMA SetLayoutStep ==
  ASSUME EpubInv, NEW l \in Layouts, SetLayout(l)
  PROVE  EpubInv'
<1> DEFINE r == Repaginated(viewer)
<1> DEFINE w == LayoutSet(r, l)
<1>1. Acting /\ viewer # None /\ viewer.layout # None /\ viewer' = w /\ mode' = mode /\ target' = None
  BY DEF SetLayout, Become, Acting
<1>2. /\ Sound(r) /\ r.loaded = viewer.loaded /\ r.layout = viewer.layout /\ r.loaded \in Nat
      /\ (viewer.loaded = 0 => Blank(viewer))
  BY <1>1, UpdateIs
<1>3. viewer.loaded > 0
  BY <1>1, <1>2 DEF Blank
<1> HIDE DEF r
<1>4. Sound(w) /\ w.loaded = r.loaded
  BY <1>1, <1>2, LayoutSetIs
<1> HIDE DEF w
<1>5. mode' \in Modes /\ w.loaded > 0
  BY <1>1, <1>2, <1>3, <1>4 DEF EpubInv
<1> QED BY <1>1, <1>3, <1>4, <1>5, FreeStep

LEMMA SetSearchQueryStep ==
  ASSUME EpubInv, NEW found \in BOOLEAN, SetSearchQuery(found)
  PROVE  EpubInv'
<1> DEFINE r == Repaginated(viewer)
<1> DEFINE w == Searched(r, found)
<1>1. /\ viewer # None /\ acts < MaxActs /\ acts' = acts + 1 /\ touched' = TRUE
      /\ UNCHANGED <<awaited, stored, opens, origin>> /\ mode' = mode
      /\ viewer.loaded > 0 /\ (found => Hits[viewer.active] # << >>) /\ viewer' = w
      /\ IF found THEN target' = [chapter |-> w.active, block |-> Hits[w.active][1],
                                  sure |-> w.mode = "paginated"]
         ELSE target' = target
  BY DEF SetSearchQuery, Acting, Become, Aim
<1>2. /\ Sound(r) /\ r.loaded = viewer.loaded /\ r.active = viewer.active
      /\ Paginates(r) => r.pending = 0 /\ Cached(r, r.active) /\ r.cache[r.active] = r.layout
      /\ AtTarget(r, target)
  BY <1>1, UpdateIs
<1> HIDE DEF r
<1>3. /\ Sound(w) /\ Alike(w, r)
      /\ found /\ r.mode = "paginated" => Heads(w, Hits[r.active][1])
      /\ ~found => \A b : Heads(r, b) => Heads(w, b)
      /\ found => Hits[r.active][1] \in BlocksOf(r.active)
  BY <1>1, <1>2, SearchedIs
<1> HIDE DEF w
<1>4. w.loaded > 0 /\ w.active = r.active /\ w.mode = r.mode
  BY <1>1, <1>2, <1>3 DEF Alike
<1>5. AtTarget(w, target')
  <2>1. CASE found
    BY <1>1, <1>3, <1>4, <2>1 DEF AtTarget
  <2>2. CASE ~found
    BY <1>1, <1>2, <1>3, <1>4, <2>2 DEF AtTarget
  <2> QED BY <2>1, <2>2
<1>6. mode' \in Modes /\ ~(viewer.loaded = 0)
  BY <1>1 DEF EpubInv
<1> QED BY <1>1, <1>3, <1>4, <1>5, <1>6, UserStep

LEMMA SearchMoveStep ==
  ASSUME EpubInv, NEW d \in {-1, 1}, SearchMove(d)
  PROVE  EpubInv'
<1> DEFINE u == Repaginated(viewer)
<1> DEFINE r == SearchMoved(u, d)
<1> DEFINE m == Hits[r.search.chapter][r.search.at]
<1> DEFINE w == MatchVisited(r)
<1>1. /\ viewer # None /\ acts < MaxActs /\ acts' = acts + 1 /\ touched' = TRUE
      /\ UNCHANGED <<awaited, stored, opens, origin>> /\ mode' = mode
      /\ viewer.search # None
      /\ \/ /\ ~MatchFails(r, m) /\ viewer' = w
            /\ IF r.search.chapter = r.active
               THEN target' = [chapter |-> r.active, block |-> m, sure |-> r.mode = "paginated"]
               ELSE target' = None
         \/ viewer' = None
  BY DEF SearchMove, Acting, Become, Aim
<1>2. mode' \in Modes
  BY <1>1 DEF EpubInv
<1>3. /\ Sound(u) /\ u.loaded = viewer.loaded /\ u.search = viewer.search /\ u.loaded \in Nat
      /\ Paginates(u) => u.pending = 0 /\ Cached(u, u.active) /\ u.cache[u.active] = u.layout
      /\ viewer.loaded = 0 => Blank(viewer)
  BY <1>1, UpdateIs
<1>4. viewer.loaded > 0 /\ ~(viewer.loaded = 0)
  BY <1>1, <1>3 DEF Blank
<1> HIDE DEF u
<1>5. /\ Sound(r) /\ Alike(r, u) /\ r.page = u.page /\ r.pending = u.pending
      /\ r.search \in Matches
  BY <1>1, <1>3, SearchMovedIs
<1> HIDE DEF r
<1>6. CASE viewer' = None
  <2>1. acts' \in 0..MaxActs
    BY <1>1, BoundAssumption DEF EpubInv
  <2> QED BY <1>1, <1>2, <1>6, <2>1 DEF EpubInv
<1>7. CASE /\ ~MatchFails(r, m) /\ viewer' = w
           /\ IF r.search.chapter = r.active
              THEN target' = [chapter |-> r.active, block |-> m, sure |-> r.mode = "paginated"]
              ELSE target' = None
  <2>1. Paginates(r) => r.pending = 0 /\ Cached(r, r.active) /\ r.cache[r.active] = r.layout
    BY <1>3, <1>5 DEF Paginates, Alike, Cached
  <2>2. r.loaded > 0
    BY <1>3, <1>4, <1>5 DEF Alike
  <2>3. /\ Sound(w) /\ Alike(w, r)
        /\ r.search.chapter = r.active /\ r.mode = "paginated" => Heads(w, m)
    BY <1>5, <1>7, <2>1, <2>2, MatchVisitedIs
  <2>4. m \in BlocksOf(r.search.chapter)
    BY <1>5, HitsAre
  <2> HIDE DEF w, m
  <2>5. AtTarget(w, target') /\ w.loaded > 0
    BY <1>7, <2>2, <2>3, <2>4 DEF AtTarget, Alike
  <2>6. viewer' = w
    BY <1>7
  <2> QED BY <1>1, <1>2, <1>4, <2>3, <2>5, <2>6, UserStep
<1> QED BY <1>1, <1>6, <1>7

LEMMA CloseSearchStep ==
  ASSUME EpubInv, CloseSearch
  PROVE  EpubInv'
<1> DEFINE r == Repaginated(viewer)
<1> DEFINE w == [r EXCEPT !.search = None]
<1>1. /\ viewer # None /\ acts < MaxActs /\ acts' = acts + 1 /\ touched' = TRUE
      /\ UNCHANGED <<awaited, stored, opens, origin>> /\ mode' = mode
      /\ viewer.search # None /\ viewer' = w /\ target' = target
  BY DEF CloseSearch, Acting, Become
<1>2. /\ Sound(r) /\ r.loaded = viewer.loaded /\ r.loaded \in Nat /\ AtTarget(r, target)
      /\ viewer.loaded = 0 => Blank(viewer)
  BY <1>1, UpdateIs
<1>3. viewer.loaded > 0 /\ ~(viewer.loaded = 0)
  BY <1>1, <1>2 DEF Blank
<1> HIDE DEF r
<1>4. /\ Sound(w) /\ Alike(w, r) /\ w.page = r.page /\ w.pending = r.pending /\ w.y = r.y /\ w.search = None
      /\ \A b : Heads(r, b) <=> Heads(w, b)
  BY <1>2, Sought
<1> HIDE DEF w
<1>5. AtTarget(w, target') /\ w.loaded > 0
  BY <1>1, <1>2, <1>3, <1>4 DEF AtTarget, Alike
<1>6. mode' \in Modes
  BY <1>1 DEF EpubInv
<1> QED BY <1>1, <1>3, <1>4, <1>5, <1>6, UserStep

LEMMA DrawStep ==
  ASSUME EpubInv, NEW l \in Layouts, Draw(l)
  PROVE  EpubInv'
<1> DEFINE w == [viewer EXCEPT !.layout = l]
<1>1. /\ viewer # None /\ viewer.mode = "paginated" /\ viewer.loaded > 0
      /\ viewer' = w /\ UNCHANGED <<awaited, stored, mode, opens, origin>>
      /\ IF viewer.layout = None THEN UNCHANGED <<acts, touched, target>>
         ELSE acts < MaxActs /\ acts' = acts + 1 /\ touched' = TRUE /\ target' = None
  BY DEF Draw
<1>2. /\ Sound(viewer) /\ Typed(viewer) /\ Noted(viewer) /\ AtTarget(viewer, target)
      /\ viewer \in Viewer /\ ~(viewer.loaded = 0)
  BY <1>1 DEF EpubInv, Sound, Typed
<1>3. /\ w \in Viewer /\ w.mode = viewer.mode /\ w.loaded = viewer.loaded /\ w.active = viewer.active
      /\ w.cache = viewer.cache /\ w.page = viewer.page /\ w.pending = viewer.pending
      /\ w.y = viewer.y /\ w.layout = l
  BY <1>2 DEF Viewer
<1> HIDE DEF w
<1>4. l # None
  BY BoundAssumption
<1>5. Sound(w)
  BY <1>2, <1>3, <1>4 DEF Sound, Typed, Cached, Pages
<1>6. Noted(viewer)'
  BY <1>1, <1>2, <1>3 DEF Noted
<1>7. acts' \in 0..MaxActs /\ touched' \in BOOLEAN
  <2>1. acts \in 0..MaxActs /\ touched \in BOOLEAN
    BY DEF EpubInv
  <2>2. (acts' = acts /\ touched' = touched) \/ (acts < MaxActs /\ acts' = acts + 1 /\ touched' = TRUE)
    BY <1>1
  <2>3. acts' \in 0..MaxActs
    BY <2>1, <2>2, BoundAssumption
  <2>4. touched' \in BOOLEAN
    BY <2>1, <2>2
  <2> QED BY <2>3, <2>4
<1>8. CASE viewer.layout = None
  <2>1. ~Cached(viewer, viewer.active)
    BY <1>2, <1>8, TypedIs DEF Typed, Cached
  <2>2. \A b : Heads(viewer, b) => Heads(w, b)
    BY <1>3, <2>1 DEF Heads
  <2>3. AtTarget(w, target')
    BY <1>1, <1>2, <1>3, <1>8, <2>2 DEF AtTarget
  <2>4. AtOrigin(viewer, origin) => AtOrigin(w, origin)
    BY <1>1, <1>3, <2>2 DEF AtOrigin
  <2>5. UNCHANGED <<touched, acts, origin, awaited, stored, mode, opens>>
    BY <1>1, <1>8
  <2>6. Sound(viewer)' /\ AtTarget(viewer, target)'
    BY <1>1, <1>5, <2>3
  <2>7. ~touched' /\ awaited' = {} /\ viewer'.loaded > 0 => AtOrigin(viewer, origin)'
    BY <1>1, <1>3, <2>4, <2>5 DEF EpubInv
  <2>8. /\ awaited' \subseteq {"epub", "progress"}
        /\ stored' \in Positions \cup {None} /\ origin' \in Positions \cup {None}
        /\ mode' \in Modes /\ opens' \in 0..MaxOpens
    BY <2>5 DEF EpubInv
  <2> QED BY <1>6, <1>7, <2>6, <2>7, <2>8 DEF EpubInv
<1>9. CASE viewer.layout # None
  <2>1. AtTarget(w, target') /\ touched' /\ viewer' = w
    BY <1>1, <1>9 DEF AtTarget
  <2>2. UNCHANGED <<origin, awaited, stored, mode, opens>>
    BY <1>1
  <2> QED BY <1>5, <1>6, <1>7, <2>1, <2>2 DEF EpubInv
<1> QED BY <1>8, <1>9

\* A message that is not the user's and changes nothing but the pages.
LEMMA QuietStep ==
  ASSUME EpubInv, viewer # None, viewer' = Repaginated(viewer), awaited' \subseteq awaited,
         "progress" \in awaited => "progress" \in awaited',
         awaited' = {} => awaited = {} \/ viewer.loaded = 0,
         UNCHANGED <<stored, mode, opens, acts, origin, touched, target>>
  PROVE  EpubInv'
<1> DEFINE r == Repaginated(viewer)
<1>1. /\ Noted(viewer) /\ Sound(r) /\ r.loaded = viewer.loaded /\ r.initial = viewer.initial /\ r.path = viewer.path
      /\ (viewer.loaded = 0 => r = viewer /\ Blank(viewer))
      /\ AtTarget(r, target) /\ (AtOrigin(viewer, origin) => AtOrigin(r, origin)) /\ r.loaded \in Nat
  BY UpdateIs
<1>2. viewer' = r
  OBVIOUS
<1> HIDE DEF r
<1>3. Noted(viewer)'
  BY <1>1, <1>2 DEF Noted
<1>4. viewer.loaded > 0 => ~(viewer.loaded = 0)
  OBVIOUS
<1> QED BY <1>1, <1>2, <1>3, <1>4 DEF EpubInv

LEMMA NoopStep ==
  ASSUME EpubInv, Noop
  PROVE  EpubInv'
BY QuietStep DEF Noop, bounds, history

\* So does each of the other messages.
LEMMA LoadFailedStep ==
  ASSUME EpubInv, LoadFailed
  PROVE  EpubInv'
<1>1. /\ viewer # None /\ "epub" \in awaited /\ awaited' = awaited \ {"epub"}
      /\ viewer' = Repaginated(viewer)
      /\ UNCHANGED <<stored, mode, opens, acts, origin, touched, target>>
  BY DEF LoadFailed, Arrived, bounds
<1>2. viewer.loaded = 0
  BY <1>1 DEF EpubInv, Noted
<1>3. awaited' \subseteq awaited /\ ("progress" \in awaited => "progress" \in awaited')
  BY <1>1
<1> QED BY <1>1, <1>2, <1>3, QuietStep

\* The position is asked for when both have come.
LEMMA AimedAtOrigin ==
  ASSUME NEW w, AtOrigin(w, origin'), origin' \in Positions \cup {None}, w.loaded > 0 \/ w.loaded = 0,
         AimAtOrigin(w)
  PROVE  AtTarget(w, target')
<1>1. CASE w.loaded > 0 /\ origin' # None /\ origin'.chapter <= Spine
  <2> DEFINE b == Resolve(Book[origin'.chapter], origin'.node)
  <2>1. target' = [chapter |-> origin'.chapter, block |-> b, sure |-> w.mode = "paginated"]
    BY <1>1 DEF AimAtOrigin, Aim
  <2>2. /\ w.active = origin'.chapter
        /\ w.mode = "paginated" => Heads(w, b)
    BY <1>1 DEF AtOrigin
  <2>3. b \in BlocksOf(origin'.chapter)
    <3>1. origin'.chapter \in Chapters
      BY <1>1 DEF Positions
    <3> QED BY <3>1, ResolveInBook
  <2> HIDE DEF b
  <2> QED BY <1>1, <2>1, <2>2, <2>3 DEF AtTarget
<1>2. CASE ~(w.loaded > 0 /\ origin' # None /\ origin'.chapter <= Spine)
  BY <1>2 DEF AimAtOrigin, AtTarget
<1> QED BY <1>1, <1>2

LEMMA EpubLoadedStep ==
  ASSUME EpubInv, EpubLoaded
  PROVE  EpubInv'
<1> DEFINE w == EpubLoadedIn(Repaginated(viewer))
<1>1. /\ viewer # None /\ "epub" \in awaited /\ awaited' = awaited \ {"epub"} /\ viewer' = w
      /\ UNCHANGED <<stored, mode, opens, acts, touched, origin>>
      /\ IF "progress" \in awaited THEN target' = None ELSE AimAtOrigin(w)
  BY DEF EpubLoaded, Arrived, bounds
<1>2. viewer.loaded = 0 /\ Noted(viewer) /\ Sound(viewer) /\ origin \in Positions \cup {None}
  BY <1>1 DEF EpubInv, Noted
<1>3. Repaginated(viewer) = viewer /\ Blank(viewer)
  BY <1>1, <1>2, UpdateIs
<1>4. /\ viewer.initial = (IF origin = None THEN None ELSE origin.chapter)
      /\ viewer.path = (IF origin = None THEN 0 ELSE origin.node)
  BY <1>2 DEF Noted
<1>5. LET u == EpubLoadedIn(viewer)
      IN  Sound(u) /\ u.loaded = Spine /\ u.mode = viewer.mode /\ AtOrigin(u, origin)
  BY <1>2, <1>3, <1>4, EpubLoadedIs
<1>6. Sound(w) /\ w.loaded = Spine /\ AtOrigin(w, origin)
  BY <1>3, <1>5
<1> HIDE DEF w
<1>7. w.loaded > 0 /\ ~(w.loaded = 0)
  BY <1>6, BookIs
<1>8. Noted(viewer)'
  BY <1>1, <1>2, <1>7 DEF Noted
<1>9. AtTarget(w, target')
  <2>1. CASE "progress" \in awaited
    BY <1>1, <2>1 DEF AtTarget
  <2>2. CASE "progress" \notin awaited
    <3>1. AtOrigin(w, origin') /\ origin' \in Positions \cup {None} /\ AimAtOrigin(w)
      BY <1>1, <1>2, <1>6, <2>2
    <3> QED BY <1>7, <3>1, AimedAtOrigin
  <2> QED BY <2>1, <2>2
<1>10. AtTarget(viewer, target)' /\ Sound(viewer)' /\ AtOrigin(viewer, origin)'
  BY <1>1, <1>6, <1>9
<1> QED BY <1>1, <1>8, <1>10 DEF EpubInv

LEMMA ReadingProgressLoadedStep ==
  ASSUME EpubInv, ReadingProgressLoaded
  PROVE  EpubInv'
<1> DEFINE r == Repaginated(viewer)
<1> DEFINE w == ProgressLoadedIn(r, stored)
<1>1. /\ viewer # None /\ "progress" \in awaited /\ awaited' = awaited \ {"progress"} /\ viewer' = w
      /\ UNCHANGED <<stored, mode, opens, acts, touched>> /\ origin' = stored
      /\ IF stored = None THEN target' = target ELSE AimAtOrigin(w)
  BY DEF ReadingProgressLoaded, Arrived, bounds
<1>2. /\ Noted(viewer) /\ stored \in Positions \cup {None}
      /\ stored' \in Positions \cup {None} /\ origin' \in Positions \cup {None}
      /\ awaited' \subseteq {"epub", "progress"} /\ mode' \in Modes
      /\ opens' \in 0..MaxOpens /\ acts' \in 0..MaxActs /\ touched' \in BOOLEAN
  BY <1>1 DEF EpubInv
<1>3. /\ Sound(r) /\ r.loaded = viewer.loaded /\ r.mode = viewer.mode /\ r.loaded \in Nat /\ r \in Viewer
      /\ (viewer.loaded = 0 => r = viewer /\ Blank(viewer))
      /\ AtTarget(r, target)
  BY <1>1, UpdateIs
<1> HIDE DEF r
<1>4. /\ Sound(w) /\ w.loaded = r.loaded /\ w.mode = r.mode
      /\ r.loaded = 0 => w = [r EXCEPT !.initial = IF stored = None THEN None ELSE stored.chapter,
                                       !.path = IF stored = None THEN 0 ELSE stored.node]
      /\ r.loaded > 0 => AtOrigin(w, stored)
      /\ stored = None => /\ w.active = r.active /\ w.page = r.page /\ w.pending = r.pending
                          /\ w.cache = r.cache /\ w.layout = r.layout
  BY <1>2, <1>3, ProgressLoadedIs
<1> HIDE DEF w
<1>5. CASE r.loaded = 0
  <2>1. /\ Blank(w) /\ w.loaded = 0
        /\ w.initial = (IF stored = None THEN None ELSE stored.chapter)
        /\ w.path = (IF stored = None THEN 0 ELSE stored.node)
    <3> DEFINE i == IF stored = None THEN None ELSE stored.chapter
    <3> DEFINE p == IF stored = None THEN 0 ELSE stored.node
    <3>1. w = [r EXCEPT !.initial = i, !.path = p] /\ r \in Viewer
      BY <1>3, <1>4, <1>5
    <3> HIDE DEF i, p
    <3>2. /\ w.initial = i /\ w.path = p /\ w.loaded = r.loaded /\ w.active = r.active /\ w.page = r.page
          /\ w.y = r.y /\ w.pending = r.pending /\ w.layout = r.layout /\ w.search = r.search
      BY <3>1 DEF Viewer
    <3>3. Blank(r)
      BY <1>3, <1>5
    <3>4. Blank(w) /\ w.loaded = 0
      BY <1>5, <3>2, <3>3 DEF Blank
    <3> QED BY <3>2, <3>4 DEF i, p
  <2>2. Noted(viewer)'
    BY <1>1, <2>1 DEF Noted
  <2>3. AtTarget(w, target')
    <3>1. ~(w.loaded > 0)
      BY <2>1
    <3>2. CASE stored = None
      BY <1>1, <1>3, <1>4, <1>5, <3>2 DEF AtTarget
    <3>3. CASE stored # None
      BY <1>1, <3>1, <3>3 DEF AimAtOrigin, AtTarget
    <3> QED BY <3>2, <3>3
  <2>4. AtTarget(viewer, target)' /\ Sound(viewer)' /\ ~(viewer'.loaded > 0)
    BY <1>1, <1>4, <2>1, <2>3
  <2> QED BY <1>2, <2>2, <2>4 DEF EpubInv
<1>6. CASE r.loaded # 0
  <2>1. r.loaded > 0 /\ w.loaded > 0 /\ ~(w.loaded = 0)
    BY <1>3, <1>4, <1>6
  <2>2. Noted(viewer)'
    BY <1>1, <1>2, <1>3, <1>4, <2>1 DEF Noted
  <2>3. AtTarget(w, target')
    <3>1. CASE stored = None
      <4>1. \A b : Heads(r, b) => Heads(w, b)
        BY <1>4, <3>1 DEF Heads, Cached, Pages
      <4> QED BY <1>1, <1>3, <1>4, <2>1, <3>1, <4>1 DEF AtTarget
    <3>2. CASE stored # None
      <4>1. AtOrigin(w, origin') /\ AimAtOrigin(w)
        BY <1>1, <1>4, <2>1, <3>2
      <4> QED BY <1>2, <2>1, <4>1, AimedAtOrigin
    <3> QED BY <3>1, <3>2
  <2>4. AtTarget(viewer, target)' /\ Sound(viewer)' /\ AtOrigin(viewer, origin)'
    BY <1>1, <1>4, <2>1, <2>3
  <2> QED BY <1>2, <2>2, <2>4 DEF EpubInv
<1> QED BY <1>5, <1>6

\* An opening puts a viewer there that nothing has come to.
LEMMA EpubOpenStep ==
  ASSUME EpubInv, Open
  PROVE  EpubInv'
<1>1. /\ opens < MaxOpens /\ opens' = opens + 1 /\ viewer' = Fresh /\ awaited' = {"epub", "progress"}
      /\ origin' = None /\ touched' = FALSE /\ target' = None /\ UNCHANGED <<stored, mode, acts>>
  BY DEF Open
<1>2. mode \in Modes
  BY DEF EpubInv
<1>3. /\ Fresh \in Viewer /\ Fresh.loaded = 0 /\ Fresh.active = 1 /\ Fresh.page = 0 /\ Fresh.y = 0
      /\ Fresh.pending = 0 /\ Fresh.layout = None /\ Fresh.search = None /\ Fresh.initial = None
      /\ Fresh.path = 0 /\ \A c \in Chapters : Fresh.cache[c] = None
  <2>1. 0 \in Nodes /\ 1 \in Chapters /\ 0 \in 0..Len(Book)
    BY BookIs DEF Nodes
  <2> QED BY <1>2, <2>1 DEF Fresh, Viewer
<1>4. ~Cached(Fresh, Fresh.active)
  BY <1>3, BookIs DEF Cached
<1>5. Sound(Fresh) /\ Blank(Fresh)
  BY <1>3, <1>4 DEF Sound, Typed, Blank
<1>6. Noted(viewer)'
  BY <1>1, <1>3, <1>5 DEF Noted
<1>7. opens' \in 0..MaxOpens
  <2>1. opens \in 0..MaxOpens
    BY DEF EpubInv
  <2> QED BY <1>1, <2>1, BoundAssumption
<1>8. AtTarget(viewer, target)' /\ Sound(viewer)' /\ ~(awaited' = {})
  BY <1>1, <1>5 DEF AtTarget
<1> QED BY <1>1, <1>6, <1>7, <1>8 DEF EpubInv

\* What is stored at a close is a position of the book.
LEMMA EpubCloseStep ==
  ASSUME EpubInv, NEW v, Sound(v), CloseAt(v)
  PROVE  EpubInv'
<1>1. CurrentProgress(v) \in Positions \cup {None}
  BY ProgressIs
<1>2. /\ stored' = (IF CurrentProgress(v) = None THEN stored ELSE CurrentProgress(v))
      /\ viewer' = None /\ awaited' = {} /\ UNCHANGED <<mode, opens, acts, origin, touched>>
  BY DEF CloseAt, bounds, history
<1>3. stored' \in Positions \cup {None}
  BY <1>1, <1>2 DEF EpubInv
<1> QED BY <1>2, <1>3 DEF EpubInv

\* A viewer that is not open satisfies the invariant.
LEMMA EpubInitInv ==
  ASSUME Init
  PROVE  EpubInv
<1>1. 0 \in 0..MaxOpens /\ 0 \in 0..MaxActs
  BY BoundAssumption
<1> QED BY <1>1 DEF Init, EpubInv

\* Every step of the EPUB viewer keeps it.
LEMMA EpubStep ==
  ASSUME EpubInv, Next
  PROVE  EpubInv'
<1>1. CASE Open
  BY <1>1, EpubOpenStep
<1>2. CASE EpubLoaded
  BY <1>2, EpubLoadedStep
<1>3. CASE LoadFailed
  BY <1>3, LoadFailedStep
<1>4. CASE ReadingProgressLoaded
  BY <1>4, ReadingProgressLoadedStep
<1>5. CASE Noop
  BY <1>5, NoopStep
<1>6. CASE \E l \in Layouts : Draw(l) \/ SetLayout(l)
  BY <1>6, DrawStep, SetLayoutStep
<1>7. CASE \E m \in Modes : SetViewMode(m)
  BY <1>7, SetViewModeStep
<1>8. CASE Navigate
  <2>1. CASE \E c \in Chapters : SelectChapter(c)
    BY <2>1, SelectChapterStep
  <2>2. CASE \E c \in Chapters : FollowLink(c)
    BY <2>2, FollowLinkStep
  <2>3. CASE \E c \in Chapters : \E b \in Anchors(c) : SelectNavEntry(c, b)
    BY <2>3, SelectNavEntryStep
  <2>4. CASE \E c \in Chapters : \E b \in Anchors(c) : FollowFragment(b)
    BY <2>4, FollowFragmentStep
  <2>5. CASE \E d \in {-1, 1} : PressArrow(d)
    BY <2>5, PressArrowStep
  <2>6. CASE \E y \in Offsets : Scrolled(y)
    BY <2>6, ScrolledStep
  <2>7. CASE NextPage
    BY <2>7, NextPageStep
  <2>8. CASE PreviousPage
    BY <2>8, PreviousPageStep
  <2> QED BY <1>8, <2>1, <2>2, <2>3, <2>4, <2>5, <2>6, <2>7, <2>8 DEF Navigate
<1>9. CASE Search
  <2>1. CASE \E found \in BOOLEAN : SetSearchQuery(found)
    BY <2>1, SetSearchQueryStep
  <2>2. CASE \E d \in {-1, 1} : SearchMove(d)
    BY <2>2, SearchMoveStep
  <2>3. CASE CloseSearch
    BY <2>3, CloseSearchStep
  <2> QED BY <1>9, <2>1, <2>2, <2>3 DEF Search
<1>10. CASE RequestClose
  <2>1. viewer # None /\ CloseAt(Repaginated(viewer))
    BY <1>10 DEF RequestClose
  <2>2. Sound(Repaginated(viewer))
    BY <2>1, UpdateIs
  <2> QED BY <2>1, <2>2, EpubCloseStep
<1>11. CASE CloseAsIs
  <2>1. viewer # None /\ CloseAt(viewer)
    BY <1>11 DEF CloseAsIs
  <2>2. Sound(viewer)
    BY <2>1 DEF EpubInv
  <2> QED BY <2>1, <2>2, EpubCloseStep
<1> QED BY <1>1, <1>2, <1>3, <1>4, <1>5, <1>6, <1>7, <1>8, <1>9, <1>10, <1>11 DEF Next

\* It speaks of these variables only.
LEMMA EpubStutter ==
  ASSUME EpubInv, UNCHANGED <<viewer, awaited, stored, mode, opens, acts, origin, touched, target>>
  PROVE  EpubInv'
BY DEF EpubInv, Noted

\* What the invariant means for the reader.
LEMMA EpubInvMeans ==
  ASSUME EpubInv
  PROVE  PagesReadAsWhole /\ TargetShown /\ Restored
<1>1. ASSUME viewer # None PROVE Sound(viewer) /\ Typed(viewer) /\ AtTarget(viewer, target)
  BY <1>1 DEF EpubInv, Sound
<1>2. PagesReadAsWhole
  <2>1. SUFFICES ASSUME viewer # None, NEW c \in Chapters, Cached(viewer, c)
                 PROVE  ReadsAsWhole(Book[c], viewer.cache[c], PageTable[c][viewer.cache[c]])
    BY DEF PagesReadAsWhole
  <2>2. viewer.cache[c] \in Layouts
    BY <1>1, <2>1, TypedIs DEF Cached
  <2> DEFINE l == viewer.cache[c]
  <2> HIDE DEF l
  <2>3. l \in Layouts
    BY <2>2 DEF l
  <2>4. PageTable[c][l] = Paginate(Book[c], l)
    BY <2>3, TableIs
  <2>5. ReadsAsWhole(Book[c], l, Paginate(Book[c], l))
    BY <2>3, BookIs, PagesAreTheChapter
  <2>6. ReadsAsWhole(Book[c], l, PageTable[c][l])
    BY <2>4, <2>5
  <2> QED BY <2>6 DEF l
<1>3. TargetShown
  <2>1. SUFFICES ASSUME viewer # None, target # None, target.sure, Drawn(viewer)
                 PROVE  viewer.active = target.chapter /\ Shows(viewer, target.block)
    BY DEF TargetShown
  <2>2. viewer.active = target.chapter /\ target.block \in BlocksOf(viewer.active)
        /\ Heads(viewer, target.block)
    BY <1>1, <2>1 DEF AtTarget, Drawn
  <2> QED BY <1>1, <2>1, <2>2, HeadsShows
<1>4. Restored
  <2> DEFINE b == Resolve(Book[origin.chapter], origin.node)
  <2>1. SUFFICES ASSUME viewer # None, ~touched, awaited = {}, viewer.loaded > 0,
                        origin # None, origin.chapter <= Spine
                 PROVE  /\ viewer.active = origin.chapter
                        /\ Drawn(viewer) => Shows(viewer, b)
                        /\ viewer.mode = "scroll" => viewer.y = Top(Book[origin.chapter], 1, b)
    BY DEF Restored
  <2>2. AtOrigin(viewer, origin) /\ origin \in Positions \cup {None}
    BY <2>1 DEF EpubInv
  <2>3. /\ viewer.active = origin.chapter
        /\ IF viewer.mode = "paginated" THEN Heads(viewer, b)
           ELSE viewer.y = Top(Book[origin.chapter], 1, b)
    BY <2>1, <2>2 DEF AtOrigin
  <2>4. b \in BlocksOf(viewer.active)
    <3>1. origin.chapter \in Chapters
      BY <2>1, <2>2 DEF Positions
    <3> QED BY <2>3, <3>1, ResolveInBook
  <2> HIDE DEF b
  <2>5. Drawn(viewer) => Shows(viewer, b)
    BY <1>1, <2>1, <2>3, <2>4, HeadsShows DEF Drawn
  <2>6. viewer.mode = "scroll" => viewer.mode # "paginated"
    OBVIOUS
  <2> QED BY <2>3, <2>5, <2>6
<1> QED BY <1>2, <1>3, <1>4

(***************************************************************************)
(* The MuPDF viewer.                                                       *)
(***************************************************************************)
PageState == [index : Nat, list : BOOLEAN, pictures : SUBSET {"svg", "raster"}]

PdfState ==
    [pages : Seq(PageState), active : Nat, initial : Nat \cup {None}, theme : BOOLEAN,
     dual : Pdf!DualPageMode, wide : BOOLEAN, drawn : BOOLEAN, reflowable : BOOLEAN,
     size : Sizes, gen : Nat, failed : BOOLEAN]

Thread == {s \in [opening : Nat, gen : Nat, count : Nat \ {0}, at : Nat] : s.at <= 2 * s.count}
Rendering == [gen : Nat, index : Nat, kind : {"svg", "raster"}]

PdfTyped ==
    /\ pdf # None => pdf \in PdfState
    /\ place \in Nat \cup {None} /\ origin \in Nat \cup {None} /\ size \in Sizes
    /\ reads \subseteq Nat /\ opens \in Nat /\ acts \in Nat
    /\ streams \subseteq Thread /\ renders \subseteq Rendering
    /\ touched \in BOOLEAN /\ mixed \in BOOLEAN /\ resized \in BOOLEAN /\ hasty \in BOOLEAN

\* Of the threads one at most has to do with viewer v; it has sent all pages
\* and display lists up to where it is.  Without one everything has come.
Ordered(v, threads) ==
    LET current == {s \in threads : s.gen = v.gen}
    IN  /\ \A i \in 1..Len(v.pages) : v.pages[i].index = i - 1
        /\ \A s \in threads : s.gen <= v.gen
        /\ \A s, t \in current : s = t
        /\ \A s \in current :
              /\ Len(v.pages) = IF s.at <= s.count THEN s.at ELSE s.count
              /\ \A i \in 1..Len(v.pages) : v.pages[i].list <=> i + s.count < s.at
        /\ current = {} /\ ~v.failed => \A i \in 1..Len(v.pages) : v.pages[i].list

KindOf(v) == IF v.theme THEN "raster" ELSE "svg"

\* Pictures that are there or rendered have the colours that were chosen last.
Coloured(v, pictures) ==
    /\ \A r \in pictures : r.gen = v.gen => r.kind = KindOf(v)
    /\ \A i \in 1..Len(v.pages) : v.pages[i].pictures \subseteq {KindOf(v)}

\* Visible pages with a display list have a picture, or it is being rendered.
Asked(v, pictures) ==
    \A i \in Pdf!VisiblePageIndices(v) :
        v.pages[i + 1].list => \/ v.pages[i + 1].pictures # {}
                               \/ \E r \in pictures : r.gen = v.gen /\ r.index = i

AtPlace(v) ==
    IF v.initial = None THEN v.active = 0
    ELSE v.initial < Len(v.pages) => v.active = v.initial

PdfSound ==
    /\ Ordered(pdf, streams)
    /\ \A r \in renders : r.gen <= pdf.gen
    /\ ~hasty => Coloured(pdf, renders)
    /\ ~resized => Asked(pdf, renders)
    /\ reads \subseteq {opens}
    /\ IF opens \in reads THEN pdf.initial = None /\ origin = None ELSE pdf.initial = origin
    /\ ~touched => AtPlace(pdf)

PdfInv == PdfTyped /\ (pdf # None /\ ~mixed => PdfSound)

\* What happens to the pages: one is replaced,
LEMMA PageReplaced ==
  ASSUME NEW p \in Seq(PageState), NEW i \in 1..Len(p), NEW page \in PageState
  PROVE  LET q == [p EXCEPT ![i] = page]
         IN  /\ q \in Seq(PageState) /\ Len(q) = Len(p)
             /\ \A j \in 1..Len(p) : q[j] = IF j = i THEN page ELSE p[j]
<1> HIDE DEF PageState
<1> QED OBVIOUS

\* one is added,
LEMMA PageAdded ==
  ASSUME NEW p \in Seq(PageState), NEW page \in PageState
  PROVE  LET q == Append(p, page)
         IN  /\ q \in Seq(PageState) /\ Len(q) = Len(p) + 1 /\ Len(p) \in Nat
             /\ \A j \in 1..Len(p) : q[j] = p[j]
             /\ q[Len(p) + 1] = page
<1> HIDE DEF PageState
<1> QED OBVIOUS

\* all lose their pictures.
LEMMA PicturesDropped ==
  ASSUME NEW p \in Seq(PageState)
  PROVE  LET q == [i \in DOMAIN p |-> [p[i] EXCEPT !.pictures = {}]]
         IN  /\ q \in Seq(PageState) /\ Len(q) = Len(p)
             /\ \A j \in 1..Len(p) : q[j].index = p[j].index /\ q[j].list = p[j].list /\ q[j].pictures = {}
<1> DEFINE q == [i \in DOMAIN p |-> [p[i] EXCEPT !.pictures = {}]]
<1>1. DOMAIN p = 1..Len(p) /\ Len(p) \in Nat /\ \A j \in 1..Len(p) : p[j] \in PageState
  OBVIOUS
<1>2. DOMAIN q = 1..Len(p) /\ \A j \in 1..Len(p) : q[j] = [p[j] EXCEPT !.pictures = {}]
  BY <1>1
<1>3. \A j \in 1..Len(p) : /\ q[j] \in PageState /\ q[j].index = p[j].index
                           /\ q[j].list = p[j].list /\ q[j].pictures = {}
  BY <1>1, <1>2 DEF PageState
<1>4. q = [i \in 1..Len(p) |-> q[i]]
  BY <1>1
<1> HIDE DEF q
<1>5. q \in Seq(PageState) /\ Len(q) = Len(p)
  BY <1>1, <1>3, <1>4
<1> QED BY <1>3, <1>5 DEF q

\* The parts of a viewer; visible and prefetched pages are among its pages.
LEMMA PdfStateIs ==
  ASSUME NEW v \in PdfState
  PROVE  /\ v.pages \in Seq(PageState) /\ Len(v.pages) \in Nat
         /\ \A i \in 1..Len(v.pages) : v.pages[i] \in PageState
         /\ Pdf!Length(v) = Len(v.pages) /\ v.active \in Nat
         /\ \A i \in Pdf!VisiblePageIndices(v) \cup Pdf!Prefetched(v) : i \in Nat /\ i < Len(v.pages) /\ i + 1 \in 1..Len(v.pages)
<1>1. /\ v.pages \in Seq(PageState) /\ v.active \in Nat
  BY DEF PdfState
<1>2. Len(v.pages) \in Nat /\ \A i \in 1..Len(v.pages) : v.pages[i] \in PageState
  BY <1>1
<1>3. Pdf!Length(v) = Len(v.pages)
  BY DEF Pdf!Length
<1>4. Pdf!Spread(v) \in Nat
  BY <1>1 DEF Pdf!Spread
<1>5. \A i \in Pdf!VisiblePageIndices(v) \cup Pdf!Prefetched(v) : i \in Nat /\ i < Len(v.pages)
  BY <1>1, <1>3, <1>4 DEF Pdf!VisiblePageIndices, Pdf!Prefetched
<1>6. \A i \in Pdf!VisiblePageIndices(v) \cup Pdf!Prefetched(v) : i + 1 \in 1..Len(v.pages)
  BY <1>2, <1>5
<1> QED BY <1>1, <1>2, <1>3, <1>5, <1>6

\* update_active_page asks for everything that is visible and has no picture.
LEMMA RequestedIs ==
  ASSUME NEW v \in PdfState, renders \subseteq Rendering, Pdf!UpdateActivePage(v)
  PROVE  /\ renders' \subseteq Rendering /\ renders \subseteq renders' /\ resized' = FALSE
         /\ \A r \in renders' : r \in renders \/ (r.gen = v.gen /\ r.kind = KindOf(v))
         /\ (\A i \in 1..Len(v.pages) : v.pages[i].index = i - 1) => Asked(v, renders')
<1> DEFINE request(i) == [gen |-> v.gen, index |-> v.pages[i + 1].index, kind |-> KindOf(v)]
<1>1. renders' = renders \cup {request(i) : i \in Pdf!Missing(v)} /\ resized' = FALSE
  BY DEF Pdf!UpdateActivePage, Pdf!At, KindOf
<1>2. /\ v.gen \in Nat /\ KindOf(v) \in {"svg", "raster"}
      /\ \A i \in Pdf!VisiblePageIndices(v) \cup Pdf!Prefetched(v) : i \in Nat /\ i + 1 \in 1..Len(v.pages)
      /\ \A i \in 1..Len(v.pages) : v.pages[i] \in PageState
  <2>1. v.gen \in Nat /\ KindOf(v) \in {"svg", "raster"}
    BY DEF PdfState, KindOf
  <2> QED BY <2>1, PdfStateIs
<1>3. \A i \in Pdf!Missing(v) : i \in Pdf!VisiblePageIndices(v) \cup Pdf!Prefetched(v)
  BY DEF Pdf!Missing
<1>4. \A i \in Pdf!Missing(v) : request(i) \in Rendering /\ request(i).gen = v.gen /\ request(i).kind = KindOf(v)
                                /\ request(i).index = v.pages[i + 1].index
  BY <1>2, <1>3 DEF Rendering, PageState
<1> HIDE DEF request
<1>5. renders' \subseteq Rendering /\ renders \subseteq renders'
  BY <1>1, <1>4
<1>6. \A r \in renders' : r \in renders \/ (r.gen = v.gen /\ r.kind = KindOf(v))
  BY <1>1, <1>4
<1>7. ASSUME \A i \in 1..Len(v.pages) : v.pages[i].index = i - 1 PROVE Asked(v, renders')
  <2>1. SUFFICES ASSUME NEW i \in Pdf!VisiblePageIndices(v), v.pages[i + 1].list, v.pages[i + 1].pictures = {}
                 PROVE  \E r \in renders' : r.gen = v.gen /\ r.index = i
    BY DEF Asked
  <2>2. i \in Pdf!Missing(v)
    BY <2>1 DEF Pdf!Missing, Pdf!At
  <2>3. v.pages[i + 1].index = i
    BY <1>2, <1>7, <2>1
  <2> QED BY <1>1, <1>4, <2>2, <2>3
<1> QED BY <1>1, <1>5, <1>6, <1>7

\* w has the pages, lists and layout of v.
SamePages(v, w) ==
    /\ w.gen = v.gen /\ w.failed = v.failed /\ Len(w.pages) = Len(v.pages)
    /\ \A i \in 1..Len(v.pages) : w.pages[i].index = v.pages[i].index /\ w.pages[i].list = v.pages[i].list

\* Pictures and places do not matter to the threads.
LEMMA OrderedSame ==
  ASSUME NEW v, NEW w, SamePages(v, w), NEW threads, Ordered(v, threads)
  PROVE  Ordered(w, threads)
BY DEF Ordered, SamePages

\* The parts of the invariant that a step of the reader leaves alone, and
\* those it brings about by asking for pictures.
LEMMA AskingStep ==
  ASSUME PdfInv, pdf # None, NEW w \in PdfState, pdf' = w, SamePages(pdf, w), w.initial = pdf.initial,
         Pdf!UpdateActivePage(w),
         ~mixed /\ ~hasty' => Coloured(w, renders),
         hasty' \in BOOLEAN, acts' = acts + 1, touched' = TRUE,
         UNCHANGED <<place, reads, opens, origin, mixed, size, streams>>
  PROVE  PdfInv'
<1>1. PdfTyped /\ (~mixed => PdfSound)
  BY DEF PdfInv
<1>2. /\ renders' \subseteq Rendering /\ renders \subseteq renders' /\ resized' = FALSE
      /\ \A r \in renders' : r \in renders \/ (r.gen = w.gen /\ r.kind = KindOf(w))
      /\ (\A i \in 1..Len(w.pages) : w.pages[i].index = i - 1) => Asked(w, renders')
  BY <1>1, RequestedIs DEF PdfTyped
<1>3. PdfTyped'
  <2>1. acts' \in Nat
    BY <1>1 DEF PdfTyped
  <2> HIDE DEF PdfState, Rendering
  <2> QED BY <1>1, <1>2, <2>1 DEF PdfTyped
<1>4. ASSUME ~mixed PROVE PdfSound'
  <2>1. PdfSound
    BY <1>1, <1>4
  <2>2. Ordered(w, streams)
    BY <2>1, OrderedSame DEF PdfSound
  <2>3. Asked(w, renders')
    BY <1>2, <2>2 DEF Ordered
  <2>4. w.gen = pdf.gen /\ w.gen \in Nat
    BY DEF SamePages, PdfState
  <2>5. \A r \in renders' : r.gen <= w.gen
    BY <1>2, <2>1, <2>4 DEF PdfSound
  <2>6. ~hasty' => Coloured(w, renders')
    BY <1>2, <1>4 DEF Coloured
  <2>7. reads' \subseteq {opens'} /\ IF opens' \in reads' THEN w.initial = None /\ origin' = None ELSE w.initial = origin'
    BY <2>1 DEF PdfSound
  <2>8. Ordered(pdf, streams)' /\ Asked(pdf, renders)' /\ (~hasty' => Coloured(pdf, renders)')
    BY <2>2, <2>3, <2>6
  <2> QED BY <2>5, <2>7, <2>8 DEF PdfSound
<1> QED BY <1>3, <1>4 DEF PdfInv

\* A place is chosen.
LEMMA GoToStep ==
  ASSUME PdfInv, NEW n \in Nat, Pdf!Acting, Pdf!GoTo(n)
  PROVE  PdfInv'
<1> DEFINE w == [pdf EXCEPT !.active = n]
<1>1. /\ pdf # None /\ acts' = acts + 1 /\ touched' = TRUE
      /\ UNCHANGED <<place, reads, opens, origin, mixed>>
  BY DEF Pdf!Acting
<1>2. pdf' = w /\ Pdf!UpdateActivePage(pdf') /\ UNCHANGED <<size, streams, hasty>>
  BY DEF Pdf!GoTo
<1>3. pdf \in PdfState /\ hasty \in BOOLEAN
  BY <1>1 DEF PdfInv, PdfTyped
<1>4. /\ w \in PdfState /\ w.pages = pdf.pages /\ w.gen = pdf.gen /\ w.failed = pdf.failed
      /\ w.initial = pdf.initial /\ w.theme = pdf.theme
  BY <1>3 DEF PdfState
<1> HIDE DEF w
<1>5. SamePages(pdf, w)
  BY <1>4 DEF SamePages
<1>6. ~mixed /\ ~hasty' => Coloured(w, renders)
  BY <1>1, <1>2, <1>4 DEF PdfInv, PdfSound, Coloured, KindOf
<1>7. Pdf!UpdateActivePage(w) /\ hasty' \in BOOLEAN
  BY <1>2, <1>3
<1> QED BY <1>1, <1>2, <1>4, <1>5, <1>6, <1>7, AskingStep

LEMMA SelectPageStep ==
  ASSUME PdfInv, NEW i, Pdf!SelectPage(i), i \in Nat
  PROVE  PdfInv'
BY GoToStep DEF Pdf!SelectPage

LEMMA PdfPreviousPageStep ==
  ASSUME PdfInv, Pdf!PreviousPage
  PROVE  PdfInv'
<1> DEFINE n == IF pdf.active < Pdf!StepOf(pdf) THEN 0 ELSE pdf.active - Pdf!StepOf(pdf)
<1>1. Pdf!Acting /\ Pdf!GoTo(n)
  BY DEF Pdf!PreviousPage
<1>2. pdf.active \in Nat
  BY <1>1 DEF Pdf!Acting, PdfInv, PdfTyped, PdfState
<1>3. Pdf!StepOf(pdf) \in {1, 2}
  BY DEF Pdf!StepOf
<1>4. n \in Nat
  BY <1>2, <1>3
<1> QED BY <1>1, <1>4, GoToStep

LEMMA PdfNextPageStep ==
  ASSUME PdfInv, Pdf!NextPage
  PROVE  PdfInv'
<1>1. Pdf!Acting /\ Pdf!GoTo(Pdf!NextOf(pdf))
  BY DEF Pdf!NextPage
<1>2. pdf.active \in Nat
  BY <1>1 DEF Pdf!Acting, PdfInv, PdfTyped, PdfState
<1>3. Pdf!StepOf(pdf) \in {1, 2}
  BY DEF Pdf!StepOf
<1>4. Pdf!NextOf(pdf) \in Nat
  BY <1>2, <1>3 DEF Pdf!NextOf
<1> QED BY <1>1, <1>4, GoToStep

LEMMA DualPageStep ==
  ASSUME PdfInv, NEW m \in Pdf!DualPageMode, Pdf!DualPage(m)
  PROVE  PdfInv'
<1> DEFINE w == [pdf EXCEPT !.dual = m]
<1>1. /\ pdf # None /\ acts' = acts + 1 /\ touched' = TRUE
      /\ UNCHANGED <<place, reads, opens, origin, mixed>>
  BY DEF Pdf!DualPage, Pdf!Acting
<1>2. pdf' = w /\ Pdf!UpdateActivePage(pdf') /\ UNCHANGED <<size, streams, hasty>>
  BY DEF Pdf!DualPage
<1>3. pdf \in PdfState /\ hasty \in BOOLEAN
  BY <1>1 DEF PdfInv, PdfTyped
<1>4. /\ w \in PdfState /\ w.pages = pdf.pages /\ w.gen = pdf.gen /\ w.failed = pdf.failed
      /\ w.initial = pdf.initial /\ w.theme = pdf.theme
  BY <1>3 DEF PdfState
<1> HIDE DEF w
<1>5. SamePages(pdf, w)
  BY <1>4 DEF SamePages
<1>6. ~mixed /\ ~hasty' => Coloured(w, renders)
  BY <1>1, <1>2, <1>4 DEF PdfInv, PdfSound, Coloured, KindOf
<1>7. Pdf!UpdateActivePage(w) /\ hasty' \in BOOLEAN
  BY <1>2, <1>3
<1> QED BY <1>1, <1>2, <1>4, <1>5, <1>6, <1>7, AskingStep

\* The other colours: no picture is left, and unless some are being rendered
\* all will have them.
LEMMA ThemeColorsStep ==
  ASSUME PdfInv, Pdf!ThemeColors
  PROVE  PdfInv'
<1> DEFINE bare == [i \in DOMAIN pdf.pages |-> [pdf.pages[i] EXCEPT !.pictures = {}]]
<1> DEFINE w == [pdf EXCEPT !.theme = ~pdf.theme, !.pages = bare]
<1>1. /\ pdf # None /\ acts' = acts + 1 /\ touched' = TRUE
      /\ UNCHANGED <<place, reads, opens, origin, mixed>>
  BY DEF Pdf!ThemeColors, Pdf!Acting
<1>2. pdf' = w /\ Pdf!UpdateActivePage(pdf') /\ hasty' = (renders # {}) /\ UNCHANGED <<size, streams>>
  BY DEF Pdf!ThemeColors
<1>3. pdf \in PdfState /\ pdf.pages \in Seq(PageState)
  BY <1>1 DEF PdfInv, PdfTyped, PdfState
<1>4. /\ bare \in Seq(PageState) /\ Len(bare) = Len(pdf.pages)
      /\ \A j \in 1..Len(pdf.pages) : /\ bare[j].index = pdf.pages[j].index /\ bare[j].list = pdf.pages[j].list
                                      /\ bare[j].pictures = {}
  BY <1>3, PicturesDropped
<1> HIDE DEF bare
<1>5. /\ w \in PdfState /\ w.pages = bare /\ w.gen = pdf.gen /\ w.failed = pdf.failed
      /\ w.initial = pdf.initial
  BY <1>3, <1>4 DEF PdfState
<1> HIDE DEF w
<1>6. SamePages(pdf, w)
  BY <1>4, <1>5 DEF SamePages
<1>7. ~hasty' => Coloured(w, renders)
  BY <1>2, <1>4, <1>5 DEF Coloured
<1>8. Pdf!UpdateActivePage(w) /\ hasty' \in BOOLEAN
  BY <1>2
<1> QED BY <1>1, <1>2, <1>5, <1>6, <1>7, <1>8, AskingStep

\* A document has a page.
LEMMA CountsAre == \A s \in Sizes : PageCount[s] \in Nat \ {0}
BY PdfAssumption DEF Pdf!DocumentAssumption

\* Without pages none is visible.
LEMMA NothingVisible ==
  ASSUME NEW v \in PdfState, Len(v.pages) = 0
  PROVE  Pdf!VisiblePageIndices(v) = {}
BY PdfStateIs

\* A layout is given up with all its pages; a thread starts on the next.
LEMMA EpubFontSizeStep ==
  ASSUME PdfInv, NEW s \in Sizes, Pdf!EpubFontSize(s)
  PROVE  PdfInv'
<1> DEFINE w == [pdf EXCEPT !.size = s, !.gen = pdf.gen + 1, !.pages = << >>, !.active = 0]
<1> DEFINE t == [opening |-> opens, gen |-> w.gen, count |-> PageCount[w.size], at |-> 0]
<1>1. /\ pdf # None /\ acts' = acts + 1 /\ touched' = TRUE
      /\ UNCHANGED <<place, reads, opens, origin, mixed>>
  BY DEF Pdf!EpubFontSize, Pdf!Acting
<1>2. /\ pdf' = w /\ size' = s /\ streams' = streams \cup {t} /\ UNCHANGED <<renders, resized, hasty>>
  BY DEF Pdf!EpubFontSize, Pdf!Stream, Pdf!NoRequest
<1>3. PdfTyped /\ pdf \in PdfState /\ (~mixed => PdfSound)
  BY <1>1 DEF PdfInv, PdfTyped
<1>4. /\ w \in PdfState /\ w.pages = << >> /\ w.gen = pdf.gen + 1 /\ w.size = s /\ pdf.gen \in Nat
      /\ w.initial = pdf.initial
  <2>1. << >> \in Seq(PageState) /\ pdf \in PdfState
    BY <1>3
  <2>2. pdf.gen \in Nat /\ pdf.gen + 1 \in Nat
    BY <2>1 DEF PdfState
  <2> DEFINE g == pdf.gen + 1
  <2> DEFINE p == << >>
  <2> HIDE DEF g, p
  <2>3. g \in Nat /\ p \in Seq(PageState)
    BY <2>1, <2>2 DEF g, p
  <2>4. LET u == [pdf EXCEPT !.size = s, !.gen = g, !.pages = p, !.active = 0]
        IN  u \in PdfState /\ u.pages = p /\ u.gen = g /\ u.size = s /\ u.initial = pdf.initial
    BY <2>1, <2>3 DEF PdfState
  <2> QED BY <2>2, <2>4 DEF g, p
<1>5. t \in Thread /\ t.gen = w.gen /\ t.at = 0 /\ t.count \in Nat
  <2>1. opens \in Nat /\ w.gen \in Nat /\ PageCount[w.size] \in Nat \ {0}
    BY <1>3, <1>4, CountsAre DEF PdfTyped
  <2> DEFINE g == w.gen
  <2> DEFINE n == PageCount[w.size]
  <2> HIDE DEF g, n
  <2>2. g \in Nat /\ n \in Nat \ {0}
    BY <2>1 DEF g, n
  <2>3. LET u == [opening |-> opens, gen |-> g, count |-> n, at |-> 0]
        IN  u \in Thread /\ u.gen = g /\ u.at = 0 /\ u.count \in Nat
    BY <2>1, <2>2 DEF Thread
  <2> QED BY <2>3 DEF g, n
<1> HIDE DEF w, t
<1>6. PdfTyped'
  <2>1. acts' \in Nat
    BY <1>1, <1>3 DEF PdfTyped
  <2> HIDE DEF PdfState, Rendering, Thread
  <2> QED BY <1>1, <1>2, <1>3, <1>4, <1>5, <2>1 DEF PdfTyped
<1>7. ASSUME ~mixed PROVE PdfSound'
  <2>1. PdfSound
    BY <1>3, <1>7
  <2>2. Len(w.pages) = 0
    BY <1>4
  <2>3. \A r \in streams : r.gen \in Nat /\ r.gen <= pdf.gen
    BY <1>3, <2>1 DEF PdfSound, Ordered, PdfTyped, Thread
  <2>4. \A r \in streams' : r.gen <= w.gen /\ (r.gen = w.gen => r = t)
    BY <1>2, <1>4, <1>5, <2>3
  <2>5. Ordered(w, streams')
    BY <1>2, <1>5, <2>2, <2>4 DEF Ordered
  <2>6. \A r \in renders : r.gen \in Nat /\ r.gen <= pdf.gen
    BY <1>3, <2>1 DEF PdfSound, PdfTyped, Rendering
  <2>7. \A r \in renders : r.gen <= w.gen /\ r.gen # w.gen
    BY <1>4, <2>6
  <2>8. Coloured(w, renders) /\ Asked(w, renders)
    BY <1>4, <2>2, <2>7, NothingVisible DEF Coloured, Asked
  <2>9. reads \subseteq {opens} /\ IF opens \in reads THEN w.initial = None /\ origin = None ELSE w.initial = origin
    BY <1>4, <2>1 DEF PdfSound
  <2>10. Ordered(pdf, streams)' /\ Coloured(pdf, renders)' /\ Asked(pdf, renders)'
    BY <1>2, <2>5, <2>8
  <2>11. \A r \in renders' : r.gen <= pdf'.gen
    BY <1>2, <2>7
  <2> QED BY <1>1, <1>2, <2>9, <2>10, <2>11 DEF PdfSound
<1> QED BY <1>1, <1>6, <1>7 DEF PdfInv

\* A thread gives up.
LEMMA PdfLoadFailedStep ==
  ASSUME PdfInv, NEW s \in streams, Pdf!LoadFailed(s)
  PROVE  PdfInv'
<1> DEFINE w == [pdf EXCEPT !.failed = TRUE]
<1>1. /\ streams' = streams \ {s} /\ pdf' = IF pdf = None THEN None ELSE w
      /\ UNCHANGED <<place, size, reads, renders, opens, acts, origin, touched, mixed, resized, hasty>>
  BY DEF Pdf!LoadFailed, Pdf!bounds, Pdf!history
<1>2. PdfTyped /\ (pdf # None => pdf \in PdfState)
  BY DEF PdfInv, PdfTyped
<1>3. pdf # None => /\ w \in PdfState /\ w.pages = pdf.pages /\ w.gen = pdf.gen /\ w.theme = pdf.theme
                    /\ w.failed /\ w.initial = pdf.initial /\ w.active = pdf.active
                    /\ w.dual = pdf.dual /\ w.wide = pdf.wide
  BY <1>2 DEF PdfState
<1> HIDE DEF w
<1>4. PdfTyped'
  <2> HIDE DEF PdfState, Rendering, Thread
  <2> QED BY <1>1, <1>2, <1>3 DEF PdfTyped
<1>5. ASSUME pdf' # None, ~mixed PROVE PdfSound'
  <2>1. PdfSound /\ pdf' = w /\ pdf # None
    BY <1>1, <1>5 DEF PdfInv
  <2>2. Ordered(w, streams')
    BY <1>1, <1>3, <2>1 DEF PdfSound, Ordered
  <2>3. Pdf!VisiblePageIndices(w) = Pdf!VisiblePageIndices(pdf)
    BY <1>3, <2>1 DEF Pdf!VisiblePageIndices, Pdf!ShouldDualPage, Pdf!Spread, Pdf!Length
  <2>4. (~hasty => Coloured(w, renders)) /\ (~resized => Asked(w, renders)) /\ (~touched => AtPlace(w))
    BY <1>3, <2>1, <2>3 DEF PdfSound, Coloured, KindOf, Asked, AtPlace
  <2>5. /\ \A r \in renders : r.gen <= w.gen
        /\ reads \subseteq {opens}
        /\ IF opens \in reads THEN w.initial = None /\ origin = None ELSE w.initial = origin
    BY <1>3, <2>1 DEF PdfSound
  <2>6. /\ Ordered(pdf, streams)' /\ (~hasty' => Coloured(pdf, renders)') /\ (~resized' => Asked(pdf, renders)')
        /\ (~touched' => AtPlace(pdf)')
    BY <1>1, <2>1, <2>2, <2>4
  <2> QED BY <1>1, <2>1, <2>5, <2>6 DEF PdfSound
<1> QED BY <1>1, <1>4, <1>5 DEF PdfInv

\* The viewer is closed
LEMMA PdfCloseStep ==
  ASSUME PdfInv, Pdf!Close
  PROVE  PdfInv'
<1>1. /\ pdf # None /\ pdf' = None
      /\ place' = (IF Pdf!CurrentProgress(pdf) = None THEN place ELSE Pdf!CurrentProgress(pdf))
      /\ UNCHANGED <<size, reads, streams, renders, opens, acts, origin, touched, mixed, resized, hasty>>
  BY DEF Pdf!Close, Pdf!bounds, Pdf!history
<1>2. PdfTyped /\ pdf \in PdfState
  BY <1>1 DEF PdfInv, PdfTyped
<1>3. Pdf!CurrentProgress(pdf) \in Nat \cup {None}
  BY <1>2 DEF PdfState, Pdf!CurrentProgress
<1>4. place' \in Nat \cup {None}
  BY <1>1, <1>2, <1>3 DEF PdfTyped
<1> QED BY <1>1, <1>2, <1>4 DEF PdfInv, PdfTyped

\* and opened, with a thread on the first layout.
LEMMA PdfOpenStep ==
  ASSUME PdfInv, Pdf!Open
  PROVE  PdfInv'
<1> DEFINE w == Pdf!Fresh
<1> DEFINE t == [opening |-> opens', gen |-> w.gen, count |-> PageCount[w.size], at |-> 0]
<1>1. /\ opens' = opens + 1 /\ pdf' = w /\ streams' = streams \cup {t} /\ reads' = reads \cup {opens'}
      /\ mixed' = (reads # {} \/ streams # {} \/ renders # {})
      /\ origin' = None /\ touched' = FALSE /\ resized' = FALSE /\ hasty' = FALSE
      /\ UNCHANGED <<place, size, renders, acts>>
  BY DEF Pdf!Open, Pdf!Stream
<1>2. PdfTyped /\ size \in Sizes /\ opens' \in Nat
  BY <1>1 DEF PdfInv, PdfTyped
<1>3. /\ w \in PdfState /\ w.pages = << >> /\ w.gen = 0 /\ w.size = size
      /\ w.initial = None /\ w.active = 0
  <2>1. "Auto" \in Pdf!DualPageMode
    BY DEF Pdf!DualPageMode
  <2>2. << >> \in Seq(PageState)
    OBVIOUS
  <2> QED BY <1>2, <2>1, <2>2 DEF Pdf!Fresh, PdfState
<1>4. t \in Thread /\ t.gen = w.gen /\ t.at = 0 /\ t.count \in Nat
  BY <1>2, <1>3, CountsAre DEF Thread
<1> HIDE DEF w, t
<1>5. PdfTyped'
  <2>1. (reads # {} \/ streams # {} \/ renders # {}) \in BOOLEAN
    OBVIOUS
  <2> HIDE DEF PdfState, Rendering, Thread
  <2> QED BY <1>1, <1>2, <1>3, <1>4, <2>1 DEF PdfTyped
<1>6. ASSUME ~mixed' PROVE PdfSound'
  <2>1. reads = {} /\ streams = {} /\ renders = {}
    BY <1>1, <1>6
  <2>2. Len(w.pages) = 0
    BY <1>3
  <2>3. Ordered(w, streams')
    BY <1>1, <1>4, <1>3, <2>1, <2>2 DEF Ordered
  <2>4. Coloured(w, renders') /\ Asked(w, renders') /\ AtPlace(w)
    BY <1>1, <1>3, <2>1, <2>2, NothingVisible DEF Coloured, Asked, AtPlace
  <2>5. Ordered(pdf, streams)' /\ Coloured(pdf, renders)' /\ Asked(pdf, renders)' /\ AtPlace(pdf)'
    BY <1>1, <2>3, <2>4
  <2> QED BY <1>1, <1>3, <2>1, <2>5 DEF PdfSound
<1> QED BY <1>5, <1>6 DEF PdfInv

\* The minimum the instance speaks of.
LEMMA PdfMin == \A S : Pdf!Min(S) = Min(S)
BY DEF Pdf!Min, Min

\* Pages are counted as they are discovered.
LEMMA PositionsAre ==
  ASSUME NEW v \in PdfState, NEW index \in Nat
  PROVE  /\ Pdf!Positions(v, index) # {} =>
              /\ Min(Pdf!Positions(v, index)) \in Nat /\ Min(Pdf!Positions(v, index)) + 1 \in 1..Len(v.pages)
              /\ Min(Pdf!Positions(v, index)) < Len(v.pages)
         /\ (\A i \in 1..Len(v.pages) : v.pages[i].index = i - 1) =>
              /\ (Pdf!Positions(v, index) = {}) <=> (index >= Len(v.pages))
              /\ index < Len(v.pages) => Min(Pdf!Positions(v, index)) = index
<1> DEFINE P == Pdf!Positions(v, index)
<1> DEFINE n == Len(v.pages)
<1>1. n \in Nat
  BY PdfStateIs
<1>2. P = {i \in 0..(n - 1) : v.pages[i + 1].index = index}
  BY PdfStateIs DEF Pdf!Positions, Pdf!At
<1> DEFINE indexed == \A i \in 1..n : v.pages[i].index = i - 1
<1>3. P \in SUBSET Int /\ (\A x \in P : 0 <= x /\ x \in 0..(n - 1)) /\ 0 \in Int
  BY <1>1, <1>2
<1>4. ASSUME indexed PROVE \A i \in P : i = index
  <2>1. SUFFICES ASSUME NEW i \in P PROVE i = index
    OBVIOUS
  <2>2. i \in 0..(n - 1) /\ v.pages[i + 1].index = index
    BY <1>2, <2>1
  <2>3. i + 1 \in 1..n /\ (i + 1) - 1 = i
    BY <1>1, <2>2
  <2> QED BY <1>4, <2>2, <2>3
<1>5. ASSUME indexed, index < n PROVE index \in P
  <2>1. index + 1 \in 1..n /\ (index + 1) - 1 = index /\ index \in 0..(n - 1)
    BY <1>1, <1>5
  <2>2. v.pages[index + 1].index = index
    BY <1>5, <2>1
  <2> QED BY <1>2, <2>1, <2>2
<1> HIDE DEF P, n, indexed
<1>6. P # {} => Min(P) \in P
  BY <1>3, HasMin
<1>7. P # {} => Min(P) \in Nat /\ Min(P) + 1 \in 1..n /\ Min(P) < n
  <2> DEFINE m == Min(P)
  <2>1. P # {} => m \in 0..(n - 1)
    BY <1>3, <1>6
  <2> HIDE DEF m
  <2>2. P # {} => m \in Nat /\ m + 1 \in 1..n /\ m < n
    BY <1>1, <2>1
  <2> QED BY <2>2 DEF m
<1>8. ASSUME indexed PROVE (P = {}) <=> (index >= n)
  <2>1. index >= n => P = {}
    BY <1>1, <1>3, <1>4, <1>8
  <2>2. ~(index >= n) => index < n
    BY <1>1
  <2> QED BY <1>5, <1>8, <2>1, <2>2
<1>9. ASSUME indexed, index < n PROVE Min(P) = index
  BY <1>4, <1>5, <1>6, <1>9
<1> QED BY <1>7, <1>8, <1>9 DEF P, n, indexed

\* A picture that is ready is put on the page that asked for it.
LEMMA PictureReadyStep ==
  ASSUME PdfInv, NEW r \in renders, Pdf!PictureReady(r)
  PROVE  PdfInv'
<1> DEFINE k == Min(Pdf!Positions(pdf, r.index)) + 1
<1> DEFINE page == [pdf.pages[k] EXCEPT !.pictures = pdf.pages[k].pictures \cup {r.kind}]
<1> DEFINE pages == [pdf.pages EXCEPT ![k] = page]
<1> DEFINE w == [pdf EXCEPT !.pages = pages]
<1> DEFINE gone == pdf = None \/ pdf.gen # r.gen \/ Pdf!Positions(pdf, r.index) = {}
<1>1. /\ renders' = renders \ {r} /\ pdf' = IF gone THEN pdf ELSE w
      /\ UNCHANGED <<place, size, reads, streams, opens, acts, origin, touched, mixed, resized, hasty>>
  BY PdfMin DEF Pdf!PictureReady, Pdf!bounds, Pdf!history
<1>2. PdfTyped /\ (pdf # None => pdf \in PdfState) /\ r \in Rendering
  BY DEF PdfInv, PdfTyped
<1>3. r.index \in Nat /\ r.kind \in {"svg", "raster"}
  BY <1>2 DEF Rendering
<1>4. ASSUME pdf # None, ~mixed PROVE PdfSound
  BY <1>4 DEF PdfInv
<1>5. CASE gone
  <2>1. PdfTyped'
    <3> HIDE DEF PdfState, Rendering, Thread, gone
    <3> QED BY <1>1, <1>2, <1>5 DEF PdfTyped
  <2>2. ASSUME pdf # None, ~mixed PROVE PdfSound'
    <3>1. PdfSound /\ pdf \in PdfState
      BY <1>2, <1>4, <2>2
    <3>2. /\ \A i \in 1..Len(pdf.pages) : pdf.pages[i].index = i - 1
      BY <3>1 DEF PdfSound, Ordered
    <3>3. pdf.gen = r.gen => r.index >= Len(pdf.pages)
      BY <1>3, <1>5, <2>2, <3>1, <3>2, PositionsAre
    <3>4. \A i \in Pdf!VisiblePageIndices(pdf) : i \in Nat /\ i < Len(pdf.pages)
      BY <3>1, PdfStateIs
    <3>5. Asked(pdf, renders) => Asked(pdf, renders')
      <4>1. Len(pdf.pages) \in Nat
        BY <3>1, PdfStateIs
      <4>2. \A i \in Pdf!VisiblePageIndices(pdf) : ~(r.gen = pdf.gen /\ r.index = i)
        BY <1>3, <3>3, <3>4, <4>1
      <4> QED BY <1>1, <4>2 DEF Asked
    <3>6. Coloured(pdf, renders) => Coloured(pdf, renders')
      BY <1>1 DEF Coloured
    <3>7. pdf' = pdf
      BY <1>1, <1>5
    <3>8. /\ Ordered(pdf, streams)' /\ (~hasty' => Coloured(pdf, renders)') /\ (~resized' => Asked(pdf, renders)')
          /\ (~touched' => AtPlace(pdf)')
      BY <1>1, <3>1, <3>5, <3>6, <3>7 DEF PdfSound
    <3> QED BY <1>1, <3>1, <3>7, <3>8 DEF PdfSound
  <2>3. pdf' = pdf
    BY <1>1, <1>5
  <2> QED BY <1>1, <2>1, <2>2, <2>3 DEF PdfInv
<1>6. CASE ~gone
  <2>1. pdf # None /\ pdf \in PdfState /\ pdf.gen = r.gen /\ k \in 1..Len(pdf.pages)
        /\ pdf.pages \in Seq(PageState) /\ pdf.pages[k] \in PageState /\ pdf' = w
    <3>1. pdf # None /\ pdf \in PdfState /\ pdf.gen = r.gen /\ Pdf!Positions(pdf, r.index) # {} /\ pdf' = w
      BY <1>1, <1>2, <1>6
    <3>2. k \in 1..Len(pdf.pages)
      BY <1>3, <3>1, PositionsAre
    <3> QED BY <3>1, <3>2, PdfStateIs
  <2>2. (\A i \in 1..Len(pdf.pages) : pdf.pages[i].index = i - 1) => k = r.index + 1
    <3>1. (\A i \in 1..Len(pdf.pages) : pdf.pages[i].index = i - 1) =>
             Min(Pdf!Positions(pdf, r.index)) = r.index
      <4>1. Len(pdf.pages) \in Nat /\ Pdf!Positions(pdf, r.index) # {}
        BY <1>6, <2>1, PdfStateIs
      <4> QED BY <1>3, <2>1, <4>1, PositionsAre
    <3> QED BY <3>1
  <2> HIDE DEF k
  <2>3. /\ page \in PageState /\ page.index = pdf.pages[k].index /\ page.list = pdf.pages[k].list
        /\ page.pictures = pdf.pages[k].pictures \cup {r.kind}
    BY <1>3, <2>1 DEF PageState
  <2> HIDE DEF page
  <2>4. /\ pages \in Seq(PageState) /\ Len(pages) = Len(pdf.pages)
        /\ \A j \in 1..Len(pdf.pages) : pages[j] = IF j = k THEN page ELSE pdf.pages[j]
    BY <2>1, <2>3, PageReplaced
  <2> HIDE DEF pages
  <2>5. /\ w \in PdfState /\ w.pages = pages /\ w.gen = pdf.gen /\ w.failed = pdf.failed /\ w.theme = pdf.theme
        /\ w.initial = pdf.initial /\ w.active = pdf.active /\ w.dual = pdf.dual /\ w.wide = pdf.wide
    BY <2>1, <2>4 DEF PdfState
  <2> HIDE DEF w, gone
  <2>6. PdfTyped'
    <3> HIDE DEF PdfState, Rendering, Thread
    <3> QED BY <1>1, <1>2, <2>1, <2>5 DEF PdfTyped
  <2>7. ASSUME ~mixed PROVE PdfSound'
    <3>1. PdfSound
      BY <1>4, <2>1, <2>7
    <3>2. \A i \in 1..Len(pdf.pages) : pdf.pages[i].index = i - 1
      BY <3>1 DEF PdfSound, Ordered
    <3>3. Ordered(w, streams)
      <4>1. SamePages(pdf, w)
        BY <2>3, <2>4, <2>5 DEF SamePages
      <4> QED BY <3>1, <4>1, OrderedSame DEF PdfSound
    <3>4. Pdf!VisiblePageIndices(w) = Pdf!VisiblePageIndices(pdf)
      BY <2>4, <2>5 DEF Pdf!VisiblePageIndices, Pdf!ShouldDualPage, Pdf!Spread, Pdf!Length
    <3>5. Asked(pdf, renders) => Asked(w, renders')
      <4>1. SUFFICES ASSUME Asked(pdf, renders), NEW i \in Pdf!VisiblePageIndices(pdf), w.pages[i + 1].list,
                            w.pages[i + 1].pictures = {}
                     PROVE  \E q \in renders' : q.gen = w.gen /\ q.index = i
        BY <3>4 DEF Asked
      <4>2. i + 1 \in 1..Len(pdf.pages) /\ i \in Nat
        BY <2>1, PdfStateIs
      <4>3. i + 1 # k
        BY <2>3, <2>4, <2>5, <4>1, <4>2
      <4>4. pdf.pages[i + 1].list /\ pdf.pages[i + 1].pictures = {} /\ i # r.index
        BY <2>2, <2>4, <2>5, <3>2, <4>1, <4>2, <4>3
      <4>5. PICK q \in renders : q.gen = pdf.gen /\ q.index = i
        BY <4>1, <4>4 DEF Asked
      <4> QED BY <1>1, <2>5, <4>4, <4>5
    <3>6. Coloured(pdf, renders) => Coloured(w, renders')
      <4>1. SUFFICES ASSUME Coloured(pdf, renders) PROVE Coloured(w, renders')
        OBVIOUS
      <4>2. r.kind = KindOf(pdf) /\ KindOf(w) = KindOf(pdf)
        BY <2>1, <2>5, <4>1 DEF Coloured, KindOf
      <4>3. \A j \in 1..Len(pdf.pages) : pages[j].pictures \subseteq {KindOf(pdf)}
        BY <2>1, <2>3, <2>4, <4>1, <4>2 DEF Coloured
      <4> QED BY <1>1, <2>4, <2>5, <4>1, <4>2, <4>3 DEF Coloured
    <3>7. AtPlace(pdf) => AtPlace(w)
      BY <2>4, <2>5 DEF AtPlace
    <3>8. /\ Ordered(pdf, streams)' /\ (~hasty' => Coloured(pdf, renders)') /\ (~resized' => Asked(pdf, renders)')
          /\ (~touched' => AtPlace(pdf)')
      BY <1>1, <2>1, <3>1, <3>3, <3>5, <3>6, <3>7 DEF PdfSound
    <3> QED BY <1>1, <2>1, <2>5, <3>1, <3>8 DEF PdfSound
  <2> QED BY <1>1, <2>6, <2>7 DEF PdfInv
<1> QED BY <1>5, <1>6

\* The first drawing, or a wider window, shows other pages.
LEMMA PdfDrawStep ==
  ASSUME PdfInv, NEW wide \in BOOLEAN, Pdf!Draw(wide)
  PROVE  PdfInv'
<1> DEFINE w == [pdf EXCEPT !.wide = wide, !.drawn = TRUE]
<1> DEFINE listed == \E i \in DOMAIN pdf.pages : pdf.pages[i].list
<1> DEFINE turned == Pdf!ShouldDualPage(w) # Pdf!ShouldDualPage(pdf)
<1>1. /\ pdf # None /\ pdf' = w /\ resized' = (resized \/ (turned /\ listed))
      /\ acts' = acts + 1 \/ acts' = acts
      /\ UNCHANGED <<place, size, reads, streams, renders, opens, origin, touched, mixed, hasty>>
  BY DEF Pdf!Draw
<1>2. PdfTyped /\ pdf \in PdfState
  BY <1>1 DEF PdfInv, PdfTyped
<1>3. /\ w \in PdfState /\ w.pages = pdf.pages /\ w.gen = pdf.gen /\ w.failed = pdf.failed /\ w.theme = pdf.theme
      /\ w.initial = pdf.initial /\ w.active = pdf.active /\ w.dual = pdf.dual
  BY <1>2 DEF PdfState
<1> HIDE DEF w
<1>4. PdfTyped'
  <2>1. acts' \in Nat
    BY <1>1, <1>2 DEF PdfTyped
  <2>2. resized' \in BOOLEAN
    BY <1>1
  <2> HIDE DEF PdfState, Rendering, Thread
  <2> QED BY <1>1, <1>2, <1>3, <2>1, <2>2 DEF PdfTyped
<1>5. ASSUME ~mixed PROVE PdfSound'
  <2>1. PdfSound
    BY <1>1, <1>5 DEF PdfInv
  <2>2. Ordered(w, streams)
    <3>1. SamePages(pdf, w)
      BY <1>3 DEF SamePages
    <3> QED BY <2>1, <3>1, OrderedSame DEF PdfSound
  <2>3. ASSUME ~resized' PROVE Asked(w, renders)
    <3>1. Asked(pdf, renders) /\ (~turned \/ ~listed)
      BY <1>1, <2>1, <2>3 DEF PdfSound
    <3>2. CASE ~turned
      <4>1. Pdf!VisiblePageIndices(w) = Pdf!VisiblePageIndices(pdf)
        <5>1. Pdf!ShouldDualPage(w) = Pdf!ShouldDualPage(pdf)
          BY <3>2
        <5> QED BY <1>3, <5>1 DEF Pdf!VisiblePageIndices, Pdf!Spread, Pdf!Length
      <4> QED BY <1>3, <3>1, <4>1 DEF Asked
    <3>3. CASE ~listed
      <4>1. \A i \in Pdf!VisiblePageIndices(w) : i + 1 \in 1..Len(pdf.pages)
        BY <1>3, PdfStateIs
      <4>2. DOMAIN pdf.pages = 1..Len(pdf.pages)
        BY <1>2 DEF PdfState
      <4> QED BY <1>3, <3>3, <4>1, <4>2 DEF Asked
    <3> QED BY <3>1, <3>2, <3>3
  <2>4. (~hasty => Coloured(w, renders)) /\ (~touched => AtPlace(w))
    BY <1>3, <2>1 DEF PdfSound, Coloured, KindOf, AtPlace
  <2>5. /\ Ordered(pdf, streams)' /\ (~hasty' => Coloured(pdf, renders)') /\ (~resized' => Asked(pdf, renders)')
        /\ (~touched' => AtPlace(pdf)')
    BY <1>1, <2>2, <2>3, <2>4
  <2> HIDE DEF turned, listed
  <2> QED BY <1>1, <1>3, <2>1, <2>5 DEF PdfSound
<1> QED BY <1>1, <1>4, <1>5 DEF PdfInv

\* A message for this viewer.
LEMMA MessageStep ==
  ASSUME PdfInv, pdf # None, NEW w \in PdfState, pdf' = w,
         w.initial = pdf.initial, w.gen = pdf.gen, w.theme = pdf.theme,
         streams' \subseteq Thread, ~mixed => Ordered(w, streams'),
         \/ Pdf!UpdateActivePage(w)
         \/ UNCHANGED <<renders, resized>> /\ (~mixed => (Asked(pdf, renders) => Asked(w, renders))),
         \A k \in {KindOf(pdf)} : (\A i \in 1..Len(pdf.pages) : pdf.pages[i].pictures \subseteq {k})
                                   => \A i \in 1..Len(w.pages) : w.pages[i].pictures \subseteq {k},
         ~mixed => (AtPlace(pdf) => AtPlace(w)),
         UNCHANGED <<place, size, reads, opens, acts, origin, touched, mixed, hasty>>
  PROVE  PdfInv'
<1>1. PdfTyped /\ (~mixed => PdfSound)
  BY DEF PdfInv
<1>2. Pdf!UpdateActivePage(w) =>
        /\ renders' \subseteq Rendering /\ renders \subseteq renders' /\ resized' = FALSE
        /\ \A r \in renders' : r \in renders \/ (r.gen = w.gen /\ r.kind = KindOf(w))
        /\ (\A i \in 1..Len(w.pages) : w.pages[i].index = i - 1) => Asked(w, renders')
  BY <1>1, RequestedIs DEF PdfTyped
<1>3. renders' \subseteq Rendering /\ resized' \in BOOLEAN
  BY <1>1, <1>2 DEF PdfTyped
<1>4. PdfTyped'
  <2> HIDE DEF PdfState, Rendering, Thread
  <2> QED BY <1>1, <1>3 DEF PdfTyped
<1>5. \A r \in renders' : r \in renders \/ (r.gen = w.gen /\ r.kind = KindOf(w))
  BY <1>2
<1>6. ASSUME ~mixed PROVE PdfSound'
  <2>1. PdfSound /\ Ordered(w, streams') /\ w.gen \in Nat
    BY <1>1, <1>6 DEF PdfState
  <2>2. \A r \in renders' : r.gen <= w.gen
    BY <1>5, <2>1 DEF PdfSound
  <2>3. ~hasty => Coloured(w, renders')
    <3>1. KindOf(w) = KindOf(pdf)
      BY DEF KindOf
    <3> QED BY <1>5, <2>1, <3>1 DEF PdfSound, Coloured
  <2>4. ~resized' => Asked(w, renders')
    <3>1. CASE Pdf!UpdateActivePage(w)
      BY <1>2, <2>1, <3>1 DEF Ordered
    <3>2. CASE UNCHANGED <<renders, resized>> /\ (Asked(pdf, renders) => Asked(w, renders))
      BY <2>1, <3>2 DEF PdfSound
    <3> QED BY <1>6, <3>1, <3>2
  <2>5. ~touched => AtPlace(w)
    BY <1>6, <2>1 DEF PdfSound
  <2>6. /\ Ordered(pdf, streams)' /\ (~hasty' => Coloured(pdf, renders)') /\ (~resized' => Asked(pdf, renders)')
        /\ (~touched' => AtPlace(pdf)')
    BY <2>1, <2>3, <2>4, <2>5
  <2>7. reads' \subseteq {opens'} /\ IF opens' \in reads' THEN w.initial = None /\ origin' = None ELSE w.initial = origin'
    BY <2>1 DEF PdfSound
  <2> QED BY <2>2, <2>6, <2>7 DEF PdfSound
<1> QED BY <1>4, <1>6 DEF PdfInv

Advanced(s) == (streams \ {s}) \cup (IF s.at = 2 * s.count THEN {} ELSE {[s EXCEPT !.at = s.at + 1]})

\* A thread after its next message.
LEMMA AdvancedIs ==
  ASSUME streams \subseteq Thread, NEW s \in streams
  PROVE  LET t == [s EXCEPT !.at = s.at + 1]
         IN  /\ s \in Thread /\ s.at \in Nat /\ s.count \in Nat \ {0} /\ s.at <= 2 * s.count /\ s.gen \in Nat
             /\ t.at = s.at + 1 /\ t.count = s.count /\ t.gen = s.gen
             /\ Advanced(s) \subseteq Thread
             /\ \A x \in Advanced(s) : (x \in streams /\ x # s) \/ (x = t /\ s.at < 2 * s.count)
             /\ s.at < 2 * s.count => t \in Advanced(s)
<1> DEFINE t == [s EXCEPT !.at = s.at + 1]
<1>1. s \in Thread /\ s.at \in Nat /\ s.count \in Nat \ {0} /\ s.at <= 2 * s.count /\ s.gen \in Nat
  BY DEF Thread
<1>2. t.at = s.at + 1 /\ t.count = s.count /\ t.gen = s.gen /\ (s.at < 2 * s.count => t \in Thread)
  <2> DEFINE m == s.at + 1
  <2>1. m \in Nat /\ (s.at < 2 * s.count => m <= 2 * s.count)
    BY <1>1
  <2> HIDE DEF m
  <2>2. LET u == [s EXCEPT !.at = m]
        IN  /\ u.at = m /\ u.count = s.count /\ u.gen = s.gen
            /\ u \in [opening : Nat, gen : Nat, count : Nat \ {0}, at : Nat]
    BY <1>1, <2>1 DEF Thread
  <2>3. LET u == [s EXCEPT !.at = m] IN m <= 2 * s.count => u \in Thread
    BY <2>2 DEF Thread
  <2> QED BY <2>1, <2>2, <2>3 DEF m
<1> HIDE DEF t
<1>3. Advanced(s) = (streams \ {s}) \cup (IF s.at = 2 * s.count THEN {} ELSE {t})
  BY DEF Advanced, t
<1>4. s.at # 2 * s.count <=> s.at < 2 * s.count
  BY <1>1
<1>5. Advanced(s) \subseteq Thread
  BY <1>2, <1>3, <1>4
<1>6. /\ \A x \in Advanced(s) : (x \in streams /\ x # s) \/ (x = t /\ s.at < 2 * s.count)
      /\ s.at < 2 * s.count => t \in Advanced(s)
  BY <1>3, <1>4
<1> QED BY <1>1, <1>2, <1>5, <1>6 DEF t

\* What the thread of a viewer has sent.
LEMMA SentIs ==
  ASSUME streams \subseteq Thread, NEW v \in PdfState, Ordered(v, streams), NEW s \in streams, s.gen = v.gen
  PROVE  /\ Len(v.pages) \in Nat
         /\ Len(v.pages) = IF s.at <= s.count THEN s.at ELSE s.count
         /\ \A i \in 1..Len(v.pages) : v.pages[i].index = i - 1 /\ (v.pages[i].list <=> i + s.count < s.at)
         /\ \A x \in Advanced(s) : x.gen <= v.gen
         /\ \A x \in Advanced(s) : x.gen = v.gen => x.at = s.at + 1 /\ x.count = s.count
         /\ \A x, y \in Advanced(s) : x.gen = v.gen /\ y.gen = v.gen => x = y
         /\ s.at < 2 * s.count => \E x \in Advanced(s) : x.gen = v.gen
<1> DEFINE t == [s EXCEPT !.at = s.at + 1]
<1>1. /\ t.at = s.at + 1 /\ t.count = s.count /\ t.gen = s.gen
      /\ \A x \in Advanced(s) : (x \in streams /\ x # s) \/ (x = t /\ s.at < 2 * s.count)
      /\ s.at < 2 * s.count => t \in Advanced(s)
  BY AdvancedIs
<1> HIDE DEF t
<1>2. /\ Len(v.pages) = IF s.at <= s.count THEN s.at ELSE s.count
      /\ \A i \in 1..Len(v.pages) : v.pages[i].index = i - 1 /\ (v.pages[i].list <=> i + s.count < s.at)
      /\ \A x \in streams : x.gen <= v.gen /\ (x.gen = v.gen => x = s)
  BY DEF Ordered
<1>3. \A x \in Advanced(s) : x.gen = v.gen => x = t
  BY <1>1, <1>2
<1>4. \A x \in Advanced(s) : x.gen <= v.gen
  BY <1>1, <1>2
<1> QED BY <1>1, <1>2, <1>3, <1>4, PdfStateIs

\* The thread goes on: what is there of w is what it has sent.
LEMMA OrderedOn ==
  ASSUME streams \subseteq Thread, NEW v \in PdfState, Ordered(v, streams), NEW s \in streams, s.gen = v.gen,
         NEW w, w.gen = v.gen, Len(w.pages) \in Nat,
         \A i \in 1..Len(w.pages) : w.pages[i].index = i - 1,
         Len(w.pages) = (IF s.at + 1 <= s.count THEN s.at + 1 ELSE s.count),
         \A i \in 1..Len(w.pages) : w.pages[i].list <=> i + s.count < s.at + 1
  PROVE  Ordered(w, Advanced(s))
<1>1. /\ \A x \in Advanced(s) : x.gen <= v.gen
      /\ \A x \in Advanced(s) : x.gen = v.gen => x.at = s.at + 1 /\ x.count = s.count
      /\ \A x, y \in Advanced(s) : x.gen = v.gen /\ y.gen = v.gen => x = y
      /\ s.at < 2 * s.count => \E x \in Advanced(s) : x.gen = v.gen
  BY SentIs
<1>2. s.at \in Nat /\ s.count \in Nat \ {0} /\ s.at <= 2 * s.count
  BY AdvancedIs
<1>3. ASSUME {x \in Advanced(s) : x.gen = w.gen} = {}, NEW i \in 1..Len(w.pages) PROVE w.pages[i].list
  <2>1. ~(s.at < 2 * s.count)
    BY <1>1, <1>3
  <2>2. s.at = 2 * s.count
    <3> DEFINE n == s.count
    <3> DEFINE a == s.at
    <3>1. n \in Nat /\ a \in Nat /\ a <= 2 * n /\ ~(a < 2 * n)
      BY <1>2, <2>1
    <3> HIDE DEF n, a
    <3>2. a = 2 * n
      BY <3>1
    <3> QED BY <3>2 DEF n, a
  <2>3. i <= s.count /\ i \in Nat
    <3> DEFINE n == s.count
    <3> DEFINE a == s.at
    <3> DEFINE len == Len(w.pages)
    <3>1. n \in Nat \ {0} /\ a = 2 * n /\ len = (IF a + 1 <= n THEN a + 1 ELSE n) /\ i \in 1..len
      BY <1>2, <1>3, <2>2
    <3> HIDE DEF n, a, len
    <3>2. i \in Nat /\ i <= n
      BY <3>1
    <3> QED BY <3>2 DEF n
  <2>4. i + s.count < s.at + 1
    BY <1>2, <2>2, <2>3
  <2> QED BY <1>3, <2>4
<1> QED BY <1>1, <1>3 DEF Ordered

\* What all messages of a thread have in common.
LEMMA ReceiveIs ==
  ASSUME PdfInv, NEW s \in streams, Pdf!Receive(s)
  PROVE  /\ streams' = Advanced(s) /\ streams \subseteq Thread /\ streams' \subseteq Thread
         /\ UNCHANGED <<place, size, reads, opens, acts, origin, touched, mixed, hasty>>
         /\ IF pdf # None /\ pdf.gen = s.gen THEN Pdf!Discovered(s) ELSE UNCHANGED <<pdf, renders, resized>>
         /\ pdf # None => pdf \in PdfState
<1>1. streams \subseteq Thread /\ (pdf # None => pdf \in PdfState)
  BY DEF PdfInv, PdfTyped
<1>2. streams' = Advanced(s)
  BY DEF Pdf!Receive, Advanced
<1>3. Advanced(s) \subseteq Thread
  BY <1>1, AdvancedIs
<1> QED BY <1>1, <1>2, <1>3 DEF Pdf!Receive, Pdf!Lost, Pdf!bounds

\* A thread of another layout, or of a viewer that is gone.
LEMMA LostStep ==
  ASSUME PdfInv, NEW s \in streams, Pdf!Receive(s), ~(pdf # None /\ pdf.gen = s.gen)
  PROVE  PdfInv'
<1>1. /\ streams' = Advanced(s) /\ streams \subseteq Thread /\ streams' \subseteq Thread
      /\ UNCHANGED <<place, size, reads, opens, acts, origin, touched, mixed, hasty, pdf, renders, resized>>
  BY ReceiveIs
<1>2. PdfTyped'
  <2> HIDE DEF PdfState, Rendering, Thread
  <2> QED BY <1>1 DEF PdfInv, PdfTyped
<1>3. ASSUME pdf # None, ~mixed PROVE PdfSound'
  <2>1. PdfSound /\ pdf.gen # s.gen
    BY <1>3 DEF PdfInv
  <2>2. \A x \in Advanced(s) : (x \in streams /\ x # s) \/ (x.gen = s.gen)
    BY <1>1, AdvancedIs
  <2>3. \A x \in streams : x # s => x \in Advanced(s)
    BY DEF Advanced
  <2>4. {x \in Advanced(s) : x.gen = pdf.gen} = {x \in streams : x.gen = pdf.gen}
    BY <2>1, <2>2, <2>3
  <2>5. Ordered(pdf, Advanced(s))
    BY <2>1, <2>2, <2>4 DEF PdfSound, Ordered
  <2>6. /\ Ordered(pdf, streams)' /\ (~hasty' => Coloured(pdf, renders)') /\ (~resized' => Asked(pdf, renders)')
        /\ (~touched' => AtPlace(pdf)')
    BY <1>1, <2>1, <2>5 DEF PdfSound
  <2> QED BY <1>1, <2>1, <2>6 DEF PdfSound
<1> QED BY <1>1, <1>2, <1>3 DEF PdfInv

\* A page has come,
LEMMA PageDiscoveredStep ==
  ASSUME PdfInv, NEW s \in streams, Pdf!Receive(s), pdf # None, pdf.gen = s.gen, s.at < s.count
  PROVE  PdfInv'
<1> DEFINE page == [index |-> s.at, list |-> FALSE, pictures |-> {}]
<1> DEFINE pages == Append(pdf.pages, page)
<1> DEFINE v == [pdf EXCEPT !.pages = pages]
<1> DEFINE active == IF v.initial = Len(v.pages) - 1 THEN v.initial ELSE v.active
<1> DEFINE w == [v EXCEPT !.active = active]
<1>1. /\ streams' = Advanced(s) /\ streams \subseteq Thread /\ streams' \subseteq Thread
      /\ UNCHANGED <<place, size, reads, opens, acts, origin, touched, mixed, hasty>>
      /\ Pdf!Discovered(s) /\ pdf \in PdfState
  BY ReceiveIs
<1>2. pdf' = w /\ UNCHANGED <<renders, resized>>
  BY <1>1 DEF Pdf!Discovered, Pdf!PageDiscovered, Pdf!NoRequest, Pdf!Length
<1>3. s.at \in Nat /\ s.count \in Nat \ {0}
  BY <1>1, AdvancedIs
<1>4. pdf.pages \in Seq(PageState) /\ page \in PageState /\ page.index = s.at /\ ~page.list /\ page.pictures = {}
  BY <1>1, <1>3 DEF PdfState, PageState
<1> HIDE DEF page
<1>5. /\ pages \in Seq(PageState) /\ Len(pages) = Len(pdf.pages) + 1 /\ Len(pdf.pages) \in Nat
      /\ \A j \in 1..Len(pdf.pages) : pages[j] = pdf.pages[j]
      /\ pages[Len(pdf.pages) + 1] = page
  BY <1>4, PageAdded
<1> HIDE DEF pages
<1>6. /\ v \in PdfState /\ v.pages = pages /\ v.initial = pdf.initial /\ v.active = pdf.active /\ v.gen = pdf.gen
      /\ v.theme = pdf.theme
  BY <1>1, <1>5 DEF PdfState
<1> HIDE DEF v
<1>7. active = IF pdf.initial = Len(pdf.pages) THEN Len(pdf.pages) ELSE pdf.active
  BY <1>5, <1>6
<1>8. active \in Nat
  BY <1>5, <1>6, <1>7 DEF PdfState
<1> HIDE DEF active
<1>9. /\ w \in PdfState /\ w.pages = pages /\ w.initial = pdf.initial /\ w.active = active /\ w.gen = pdf.gen
      /\ w.theme = pdf.theme
  BY <1>6, <1>8 DEF PdfState
<1> HIDE DEF w
<1>10. ASSUME ~mixed PROVE Ordered(w, streams') /\ Asked(w, renders)
  <2>1. Ordered(pdf, streams)
    BY <1>10 DEF PdfInv, PdfSound
  <2>2. /\ Len(pdf.pages) = IF s.at <= s.count THEN s.at ELSE s.count
        /\ \A i \in 1..Len(pdf.pages) : pdf.pages[i].index = i - 1 /\ (pdf.pages[i].list <=> i + s.count < s.at)
    BY <1>1, <2>1, SentIs
  <2>3. Len(pdf.pages) = s.at /\ Len(w.pages) = s.at + 1
    BY <1>3, <1>5, <1>9, <2>2
  <2>4. \A i \in 1..Len(w.pages) : i \in Nat /\ i >= 1 /\ (i \in 1..Len(pdf.pages) \/ i = s.at + 1)
    BY <1>3, <2>3
  <2>5. \A i \in 1..Len(w.pages) : w.pages[i].index = i - 1 /\ ~w.pages[i].list
    <3>1. SUFFICES ASSUME NEW i \in 1..Len(w.pages) PROVE w.pages[i].index = i - 1 /\ ~w.pages[i].list
      OBVIOUS
    <3>2. CASE i \in 1..Len(pdf.pages)
      <4>1. ~(i + s.count < s.at)
        BY <1>3, <2>4, <3>1
      <4> QED BY <1>5, <1>9, <2>2, <3>2, <4>1
    <3>3. CASE i = s.at + 1
      <4>1. w.pages[i] = page /\ i - 1 = s.at
        BY <1>3, <1>5, <1>9, <2>3, <3>3
      <4> QED BY <1>4, <4>1
    <3> QED BY <2>4, <3>2, <3>3
  <2>6. \A i \in 1..Len(w.pages) : ~(i + s.count < s.at + 1)
    BY <1>3, <2>4
  <2>7. s.at + 1 <= s.count
    BY <1>3
  <2>8. Ordered(w, Advanced(s))
    <3>1. Len(w.pages) = (IF s.at + 1 <= s.count THEN s.at + 1 ELSE s.count) /\ Len(w.pages) \in Nat
      BY <1>3, <2>3, <2>7
    <3> QED BY <1>1, <1>9, <2>1, <2>5, <2>6, <3>1, OrderedOn
  <2>9. Asked(w, renders)
    BY <1>9, <2>5, PdfStateIs DEF Asked
  <2> QED BY <1>1, <2>8, <2>9
<1>11. AtPlace(pdf) => AtPlace(w)
  <2>1. None \notin Nat
    BY BoundAssumption
  <2>2. pdf.initial \in Nat \cup {None}
    BY <1>1 DEF PdfState
  <2> QED BY <1>5, <1>7, <1>9, <2>1, <2>2 DEF AtPlace
<1>12. \A k \in {KindOf(pdf)} : (\A i \in 1..Len(pdf.pages) : pdf.pages[i].pictures \subseteq {k})
                                => \A i \in 1..Len(w.pages) : w.pages[i].pictures \subseteq {k}
  <2>1. \A i \in 1..Len(w.pages) : i \in 1..Len(pdf.pages) \/ i = Len(pdf.pages) + 1
    BY <1>5, <1>9
  <2> QED BY <1>4, <1>5, <1>9, <2>1
<1> QED BY <1>1, <1>2, <1>9, <1>10, <1>11, <1>12, MessageStep

\* or the mark behind the last one,
LEMMA DiscoveryCompleteStep ==
  ASSUME PdfInv, NEW s \in streams, Pdf!Receive(s), pdf # None, pdf.gen = s.gen, s.at = s.count
  PROVE  PdfInv'
<1> DEFINE v == [pdf EXCEPT !.reflowable = Reflowable]
<1> DEFINE active == IF v.initial = None THEN v.active ELSE Min({v.initial, Len(v.pages) - 1})
<1> DEFINE w == IF v.pages = << >> THEN v ELSE [v EXCEPT !.active = active]
<1>1. /\ streams' = Advanced(s) /\ streams \subseteq Thread /\ streams' \subseteq Thread
      /\ UNCHANGED <<place, size, reads, opens, acts, origin, touched, mixed, hasty>>
      /\ Pdf!Discovered(s) /\ pdf \in PdfState
  BY ReceiveIs
<1>2. s.at \in Nat /\ s.count \in Nat \ {0} /\ s.at <= s.count /\ ~(s.at < s.count)
  <2>1. s.at \in Nat /\ s.count \in Nat \ {0}
    BY <1>1, AdvancedIs
  <2> QED BY <2>1
<1>3. Pdf!DiscoveryComplete
  BY <1>1, <1>2 DEF Pdf!Discovered
<1>4. pdf' = w /\ (v.pages = << >> => UNCHANGED <<renders, resized>>)
      /\ (v.pages # << >> => Pdf!UpdateActivePage(w))
  BY <1>3, PdfMin DEF Pdf!DiscoveryComplete, Pdf!NoRequest, Pdf!Length
<1>5. /\ v \in PdfState /\ v.pages = pdf.pages /\ v.initial = pdf.initial /\ v.active = pdf.active /\ v.gen = pdf.gen
      /\ v.theme = pdf.theme
  <2>1. Reflowable \in BOOLEAN
    BY PdfAssumption DEF Pdf!DocumentAssumption
  <2> QED BY <1>1, <2>1 DEF PdfState
<1> HIDE DEF v
<1>6. ASSUME pdf.pages # << >>
      PROVE  /\ active \in Nat
             /\ pdf.initial = None => active = pdf.active
             /\ pdf.initial # None /\ pdf.initial < Len(pdf.pages) => active = pdf.initial
  <2>1. pdf.initial \in Nat \cup {None} /\ pdf.active \in Nat /\ Len(pdf.pages) \in Nat /\ Len(pdf.pages) > 0
    <3>1. pdf.pages \in Seq(PageState)
      BY <1>1 DEF PdfState
    <3>2. Len(pdf.pages) \in Nat /\ Len(pdf.pages) > 0
      <4> HIDE DEF PageState
      <4> QED BY <1>6, <3>1
    <3> QED BY <1>1, <3>2 DEF PdfState
  <2>2. pdf.initial # None => active = IF pdf.initial <= Len(pdf.pages) - 1 THEN pdf.initial ELSE Len(pdf.pages) - 1
    BY <1>5, <2>1, LessOfTwo
  <2>3. pdf.initial = None => active = pdf.active
    BY <1>5
  <2> HIDE DEF active
  <2> QED BY <2>1, <2>2, <2>3
<1> HIDE DEF active
<1>7. /\ w \in PdfState /\ w.pages = pdf.pages /\ w.initial = pdf.initial /\ w.gen = pdf.gen /\ w.theme = pdf.theme
      /\ w.active = IF pdf.pages = << >> THEN pdf.active ELSE active
  BY <1>5, <1>6 DEF PdfState
<1> HIDE DEF w
<1>8. AtPlace(pdf) => AtPlace(w)
  <2>1. pdf.initial \in Nat \cup {None}
    BY <1>1 DEF PdfState
  <2>2. pdf.pages = << >> => Len(pdf.pages) = 0
    OBVIOUS
  <2> QED BY <1>6, <1>7, <2>1, <2>2 DEF AtPlace
<1>9. ASSUME ~mixed PROVE Ordered(w, streams')
  <2>1. Ordered(pdf, streams)
    BY <1>9 DEF PdfInv, PdfSound
  <2>2. /\ Len(pdf.pages) = IF s.at <= s.count THEN s.at ELSE s.count
        /\ \A i \in 1..Len(pdf.pages) : pdf.pages[i].index = i - 1 /\ (pdf.pages[i].list <=> i + s.count < s.at)
    BY <1>1, <2>1, SentIs
  <2>3. Len(w.pages) = (IF s.at + 1 <= s.count THEN s.at + 1 ELSE s.count) /\ Len(w.pages) \in Nat
    BY <1>2, <1>7, <2>2
  <2>4. \A i \in 1..Len(w.pages) : ~(i + s.count < s.at + 1) /\ ~(i + s.count < s.at)
    BY <1>2
  <2>5. \A i \in 1..Len(w.pages) : w.pages[i].index = i - 1 /\ (w.pages[i].list <=> i + s.count < s.at + 1)
    BY <1>7, <2>2, <2>4
  <2> QED BY <1>1, <1>7, <2>1, <2>3, <2>5, OrderedOn
<1>10. \/ Pdf!UpdateActivePage(w)
       \/ UNCHANGED <<renders, resized>> /\ (~mixed => (Asked(pdf, renders) => Asked(w, renders)))
  <2>1. CASE pdf.pages = << >>
    <3>1. Len(w.pages) = 0
      BY <1>7, <2>1
    <3>2. Asked(w, renders)
      BY <1>7, <3>1, NothingVisible DEF Asked
    <3> QED BY <1>4, <1>5, <2>1, <3>2
  <2>2. CASE pdf.pages # << >>
    BY <1>4, <1>5, <2>2
  <2> QED BY <2>1, <2>2
<1> QED BY <1>1, <1>4, <1>7, <1>8, <1>9, <1>10, MessageStep

\* or a display list.
LEMMA DisplayListStep ==
  ASSUME PdfInv, NEW s \in streams, Pdf!Receive(s), pdf # None, pdf.gen = s.gen, s.at > s.count
  PROVE  PdfInv'
<1> DEFINE index == s.at - s.count - 1
<1> DEFINE p == Pdf!Positions(pdf, index)
<1> DEFINE k == Min(p) + 1
<1> DEFINE w == [pdf EXCEPT !.pages[k].list = TRUE]
<1>1. /\ streams' = Advanced(s) /\ streams \subseteq Thread /\ streams' \subseteq Thread
      /\ UNCHANGED <<place, size, reads, opens, acts, origin, touched, mixed, hasty>>
      /\ Pdf!Discovered(s) /\ pdf \in PdfState
  BY ReceiveIs
<1>2. s.at \in Nat /\ s.count \in Nat \ {0} /\ s.at <= 2 * s.count
  BY <1>1, AdvancedIs
<1>3. ~(s.at < s.count) /\ s.at # s.count /\ index \in Nat /\ index = s.at - s.count - 1
  BY <1>2
<1>4. Pdf!DisplayListReady(index)
  BY <1>1, <1>3 DEF Pdf!Discovered
<1>5. p = {} => UNCHANGED <<pdf, renders, resized>>
  BY <1>4 DEF Pdf!DisplayListReady, Pdf!Lost
<1>6. p # {} => pdf' = w /\ (\/ Pdf!UpdateActivePage(pdf')
                             \/ Min(p) \notin Pdf!VisiblePageIndices(pdf) /\ UNCHANGED <<renders, resized>>)
  BY <1>4, PdfMin DEF Pdf!DisplayListReady, Pdf!NoRequest
<1>7. ASSUME ~mixed
      PROVE  /\ Ordered(pdf, streams) /\ Len(pdf.pages) = s.count /\ p # {} /\ Min(p) = index
             /\ \A i \in 1..Len(pdf.pages) : pdf.pages[i].index = i - 1 /\ (pdf.pages[i].list <=> i + s.count < s.at)
  <2>1. Ordered(pdf, streams)
    BY <1>7 DEF PdfInv, PdfSound
  <2>2. /\ Len(pdf.pages) = IF s.at <= s.count THEN s.at ELSE s.count
        /\ \A i \in 1..Len(pdf.pages) : pdf.pages[i].index = i - 1 /\ (pdf.pages[i].list <=> i + s.count < s.at)
    BY <1>1, <2>1, SentIs
  <2>3. Len(pdf.pages) = s.count
    BY <1>2, <1>3, <2>2
  <2>4. index < s.count
    <3> DEFINE n == s.count
    <3> DEFINE a == s.at
    <3>1. n \in Nat /\ a \in Nat /\ a <= 2 * n
      BY <1>2
    <3> HIDE DEF n, a
    <3>2. a - n - 1 < n
      BY <3>1
    <3> QED BY <3>2 DEF n, a
  <2>5. /\ (p = {}) <=> (index >= Len(pdf.pages))
        /\ index < Len(pdf.pages) => Min(p) = index
    <3> HIDE DEF index
    <3> QED BY <1>1, <1>3, <2>2, PositionsAre
  <2>6. ~(index >= s.count)
    BY <1>2, <1>3, <2>4
  <2> QED BY <2>1, <2>2, <2>3, <2>4, <2>5, <2>6
<1>8. CASE p = {}
  <2>1. pdf' = pdf /\ ~(~mixed)
    BY <1>5, <1>7, <1>8
  <2> DEFINE v == pdf
  <2>2. /\ v \in PdfState /\ pdf' = v /\ v.initial = pdf.initial /\ v.gen = pdf.gen /\ v.theme = pdf.theme
        /\ UNCHANGED <<renders, resized>>
    BY <1>1, <1>5, <1>8, <2>1
  <2> QED BY <1>1, <2>1, <2>2, MessageStep
<1>9. CASE p # {}
  <2>1. k \in 1..Len(pdf.pages) /\ pdf.pages \in Seq(PageState) /\ pdf.pages[k] \in PageState /\ Min(p) \in Nat
    <3>1. k \in 1..Len(pdf.pages) /\ Min(p) \in Nat
      <4> HIDE DEF index
      <4> QED BY <1>1, <1>3, <1>9, PositionsAre
    <3> QED BY <1>1, <3>1, PdfStateIs
  <2>2. k = Min(p) + 1
    OBVIOUS
  <2> DEFINE page == [pdf.pages[k] EXCEPT !.list = TRUE]
  <2> DEFINE pages == [pdf.pages EXCEPT ![k] = page]
  <2>3. w = [pdf EXCEPT !.pages = pages]
    OBVIOUS
  <2> HIDE DEF k
  <2>4. /\ page \in PageState /\ page.index = pdf.pages[k].index /\ page.list
        /\ page.pictures = pdf.pages[k].pictures
    BY <2>1 DEF PageState
  <2> HIDE DEF page, w, p
  <2>5. /\ pages \in Seq(PageState) /\ Len(pages) = Len(pdf.pages)
        /\ \A j \in 1..Len(pdf.pages) : pages[j] = IF j = k THEN page ELSE pdf.pages[j]
    BY <2>1, <2>4, PageReplaced
  <2> HIDE DEF pages
  <2>6. /\ w \in PdfState /\ w.pages = pages /\ w.gen = pdf.gen /\ w.theme = pdf.theme
        /\ w.initial = pdf.initial /\ w.active = pdf.active /\ w.dual = pdf.dual /\ w.wide = pdf.wide
    BY <1>1, <2>3, <2>5 DEF PdfState
  <2>7. ASSUME ~mixed PROVE Ordered(w, streams')
    <3>1. k = s.at - s.count /\ Len(w.pages) = s.count /\ Len(w.pages) \in Nat
      BY <1>2, <1>3, <1>7, <2>2, <2>5, <2>6, <2>7
    <3>2. Len(w.pages) = (IF s.at + 1 <= s.count THEN s.at + 1 ELSE s.count)
      BY <1>2, <1>3, <3>1
    <3>3. \A i \in 1..Len(w.pages) : w.pages[i].index = i - 1
      BY <1>7, <2>4, <2>5, <2>6, <2>7
    <3>4. \A i \in 1..Len(w.pages) : w.pages[i].list <=> (i = k \/ i + s.count < s.at)
      BY <1>7, <2>4, <2>5, <2>6, <2>7
    <3>5. \A i \in 1..Len(w.pages) : (i = k \/ i + s.count < s.at) <=> i + s.count < s.at + 1
      <4> DEFINE at == s.at
                 count == s.count
      <4>1. at \in Nat /\ count \in Nat /\ k = at - count
        BY <1>2, <1>3, <3>1
      <4> HIDE DEF at, count, k
      <4>2. \A i \in Nat : (i = k \/ i + count < at) <=> i + count < at + 1
        BY <4>1
      <4>3. 1..Len(w.pages) \subseteq Nat
        BY <3>1
      <4>4. \A i \in 1..Len(w.pages) : (i = k \/ i + count < at) <=> i + count < at + 1
        BY <4>2, <4>3, Zenon
      <4> QED BY <4>4 DEF at, count
    <3>6. \A i \in 1..Len(w.pages) : w.pages[i].list <=> i + s.count < s.at + 1
      BY <3>4, <3>5
    <3> QED BY <1>1, <1>7, <2>6, <2>7, <3>1, <3>2, <3>3, <3>6, OrderedOn
  <2>8. ASSUME Min(p) \notin Pdf!VisiblePageIndices(pdf), Asked(pdf, renders) PROVE Asked(w, renders)
    <3>1. Pdf!VisiblePageIndices(w) = Pdf!VisiblePageIndices(pdf)
      BY <2>5, <2>6 DEF Pdf!VisiblePageIndices, Pdf!ShouldDualPage, Pdf!Spread, Pdf!Length
    <3>2. \A i \in Pdf!VisiblePageIndices(pdf) : i + 1 \in 1..Len(pdf.pages) /\ i + 1 # k
      BY <1>1, <2>1, <2>2, <2>8, PdfStateIs
    <3> QED BY <2>5, <2>6, <2>8, <3>1, <3>2 DEF Asked
  <2>9. \/ Pdf!UpdateActivePage(w)
        \/ UNCHANGED <<renders, resized>> /\ (~mixed => (Asked(pdf, renders) => Asked(w, renders)))
    BY <1>6, <1>9, <2>8
  <2>10. AtPlace(pdf) => AtPlace(w)
    BY <2>5, <2>6 DEF AtPlace
  <2>11. \A c \in {KindOf(pdf)} : (\A i \in 1..Len(pdf.pages) : pdf.pages[i].pictures \subseteq {c})
                                => \A i \in 1..Len(w.pages) : w.pages[i].pictures \subseteq {c}
    BY <2>1, <2>4, <2>5, <2>6
  <2>12. pdf' = w
    BY <1>6, <1>9
  <2> QED BY <1>1, <2>6, <2>7, <2>9, <2>10, <2>11, <2>12, MessageStep
<1> QED BY <1>8, <1>9

LEMMA ReceiveStep ==
  ASSUME PdfInv, NEW s \in streams, Pdf!Receive(s)
  PROVE  PdfInv'
<1>1. CASE ~(pdf # None /\ pdf.gen = s.gen)
  BY <1>1, LostStep
<1>2. CASE pdf # None /\ pdf.gen = s.gen
  <2>1. s.at \in Nat /\ s.count \in Nat \ {0}
    BY AdvancedIs DEF PdfInv, PdfTyped
  <2>2. s.at < s.count \/ s.at = s.count \/ s.at > s.count
    BY <2>1
  <2> QED BY <1>2, <2>2, PageDiscoveredStep, DiscoveryCompleteStep, DisplayListStep
<1> QED BY <1>1, <1>2

LEMMA PdfReadingProgressLoadedStep ==
  ASSUME PdfInv, NEW n \in reads, Pdf!ReadingProgressLoaded(n)
  PROVE  PdfInv'
<1>1. /\ reads' = reads \ {n} /\ UNCHANGED <<place, size, streams, opens, acts, touched, mixed, hasty>>
      /\ pdf = None => UNCHANGED <<pdf, renders, resized, origin>>
      /\ pdf # None => Pdf!ProgressLoaded(place) /\ origin' = IF n = opens THEN place ELSE origin
  BY DEF Pdf!ReadingProgressLoaded, Pdf!Lost, Pdf!bounds
<1>2. PdfTyped
  BY DEF PdfInv
<1>3. CASE pdf = None
  <2>1. PdfTyped'
    <3> HIDE DEF PdfState, Rendering, Thread
    <3> QED BY <1>1, <1>2, <1>3 DEF PdfTyped
  <2> QED BY <1>1, <1>3, <2>1 DEF PdfInv
<1>4. CASE pdf # None
  <2> DEFINE there == place # None /\ place < Len(pdf.pages)
  <2> DEFINE w == IF there THEN [pdf EXCEPT !.initial = place, !.active = place] ELSE [pdf EXCEPT !.initial = place]
  <2>1. pdf \in PdfState /\ place \in Nat \cup {None} /\ (~mixed => PdfSound)
    BY <1>2, <1>4 DEF PdfTyped, PdfInv
  <2>2. pdf' = w /\ (IF there THEN Pdf!UpdateActivePage(w) ELSE UNCHANGED <<renders, resized>>)
    BY <1>1, <1>4, <2>1, PdfStateIs DEF Pdf!ProgressLoaded, Pdf!NoRequest
  <2>3. /\ w \in PdfState /\ w.pages = pdf.pages /\ w.gen = pdf.gen /\ w.failed = pdf.failed /\ w.theme = pdf.theme
        /\ w.initial = place /\ w.active = (IF there THEN place ELSE pdf.active)
        /\ w.dual = pdf.dual /\ w.wide = pdf.wide
    BY <2>1 DEF PdfState
  <2> HIDE DEF w
  <2>4. Pdf!UpdateActivePage(w) =>
          /\ renders' \subseteq Rendering /\ renders \subseteq renders' /\ resized' = FALSE
          /\ \A r \in renders' : r \in renders \/ (r.gen = w.gen /\ r.kind = KindOf(w))
          /\ (\A i \in 1..Len(w.pages) : w.pages[i].index = i - 1) => Asked(w, renders')
    BY <1>2, <2>3, RequestedIs DEF PdfTyped
  <2>5. renders' \subseteq Rendering /\ resized' \in BOOLEAN
    BY <1>2, <2>2, <2>4 DEF PdfTyped
  <2>6. PdfTyped'
    <3>1. origin' \in Nat \cup {None} /\ reads' \subseteq Nat
      BY <1>1, <1>2, <1>4, <2>1 DEF PdfTyped
    <3> HIDE DEF PdfState, Rendering, Thread
    <3> QED BY <1>1, <1>2, <2>2, <2>3, <2>5, <3>1 DEF PdfTyped
  <2>7. ASSUME ~mixed PROVE PdfSound'
    <3>1. PdfSound /\ n = opens /\ reads' = {} /\ origin' = place /\ pdf.initial = None /\ w.gen \in Nat
      BY <1>1, <1>4, <2>1, <2>3, <2>7 DEF PdfSound, PdfState
    <3>2. Ordered(w, streams)
      <4>1. SamePages(pdf, w)
        BY <2>3 DEF SamePages
      <4> QED BY <3>1, <4>1, OrderedSame DEF PdfSound
    <3>3. \A r \in renders' : r \in renders \/ (r.gen = w.gen /\ r.kind = KindOf(w))
      BY <2>2, <2>4
    <3>4. \A r \in renders' : r.gen <= w.gen
      BY <2>3, <3>1, <3>3 DEF PdfSound
    <3>5. ~hasty => Coloured(w, renders')
      <4>1. KindOf(w) = KindOf(pdf)
        BY <2>3 DEF KindOf
      <4> QED BY <2>3, <3>1, <3>3, <4>1 DEF PdfSound, Coloured
    <3>6. ~resized' => Asked(w, renders')
      <4>1. CASE there
        BY <2>2, <2>4, <3>2, <4>1 DEF Ordered
      <4>2. CASE ~there
        <5>1. Pdf!VisiblePageIndices(w) = Pdf!VisiblePageIndices(pdf)
          BY <2>3, <4>2 DEF Pdf!VisiblePageIndices, Pdf!ShouldDualPage, Pdf!Spread, Pdf!Length
        <5> QED BY <2>2, <2>3, <3>1, <4>2, <5>1 DEF PdfSound, Asked
      <4> QED BY <4>1, <4>2
    <3>7. ~touched => AtPlace(w)
      BY <2>1, <2>3, <3>1 DEF PdfSound, AtPlace
    <3>8. /\ Ordered(pdf, streams)' /\ (~hasty' => Coloured(pdf, renders)') /\ (~resized' => Asked(pdf, renders)')
          /\ (~touched' => AtPlace(pdf)')
      BY <1>1, <2>2, <3>2, <3>5, <3>6, <3>7
    <3> QED BY <1>1, <2>2, <2>3, <3>1, <3>4, <3>8 DEF PdfSound
  <2> QED BY <1>1, <2>6, <2>7 DEF PdfInv
<1> QED BY <1>3, <1>4

\* The places a document may have been left at are numbers.
LEMMA PlacesAre == Pdf!Places \subseteq Nat
BY DEF Pdf!Places

\* A viewer that is not open satisfies the invariant.
LEMMA PdfInitInv ==
  ASSUME Pdf!Init
  PROVE  PdfInv
BY PlacesAre DEF Pdf!Init, PdfInv, PdfTyped

\* Every step of the MuPDF viewer keeps it.
LEMMA PdfStep ==
  ASSUME PdfInv, Pdf!Next
  PROVE  PdfInv'
<1>1. CASE Pdf!Open
  BY <1>1, PdfOpenStep
<1>2. CASE Pdf!Close
  BY <1>2, PdfCloseStep
<1>3. CASE \E n \in reads : Pdf!ReadingProgressLoaded(n)
  BY <1>3, PdfReadingProgressLoadedStep
<1>4. CASE \E s \in streams : Pdf!Receive(s) \/ Pdf!LoadFailed(s)
  BY <1>4, ReceiveStep, PdfLoadFailedStep
<1>5. CASE \E r \in renders : Pdf!PictureReady(r)
  BY <1>5, PictureReadyStep
<1>6. CASE \E wide \in BOOLEAN : Pdf!Draw(wide)
  BY <1>6, PdfDrawStep
<1>7. CASE Pdf!User
  <2>1. CASE \E i \in Pdf!Places : Pdf!SelectPage(i)
    BY <2>1, PlacesAre, SelectPageStep
  <2>2. CASE Pdf!PreviousPage
    BY <2>2, PdfPreviousPageStep
  <2>3. CASE Pdf!NextPage
    BY <2>3, PdfNextPageStep
  <2>4. CASE Pdf!ThemeColors
    BY <2>4, ThemeColorsStep
  <2>5. CASE \E m \in Pdf!DualPageMode : Pdf!DualPage(m)
    BY <2>5, DualPageStep
  <2>6. CASE \E s \in Sizes : Pdf!EpubFontSize(s)
    BY <2>6, EpubFontSizeStep
  <2> QED BY <1>7, <2>1, <2>2, <2>3, <2>4, <2>5, <2>6 DEF Pdf!User
<1> QED BY <1>1, <1>2, <1>3, <1>4, <1>5, <1>6, <1>7 DEF Pdf!Next

\* What the invariant means for the reader.
LEMMA PdfInvMeans ==
  ASSUME PdfInv
  PROVE  Pdf!PicturesShown /\ Pdf!Restored
<1>1. ASSUME Pdf!Complete
      PROVE  PdfSound /\ pdf \in PdfState /\ ~pdf.failed /\ reads = {} /\ streams = {}
  BY <1>1 DEF Pdf!Complete, PdfInv, PdfTyped
<1>2. Pdf!PicturesShown
  <2>1. SUFFICES ASSUME Pdf!Complete, renders = {}, ~resized, ~hasty, NEW i \in Pdf!VisiblePageIndices(pdf)
                 PROVE  Pdf!Picture(Pdf!At(pdf, i)) = IF pdf.theme THEN "raster" ELSE "svg"
    BY DEF Pdf!PicturesShown
  <2>2. i + 1 \in 1..Len(pdf.pages)
    BY <1>1, <2>1, PdfStateIs
  <2> DEFINE page == pdf.pages[i + 1]
  <2>3. Ordered(pdf, {}) /\ Coloured(pdf, {}) /\ Asked(pdf, {})
    BY <1>1, <2>1 DEF PdfSound
  <2>4. page.list
    BY <1>1, <2>1, <2>2, <2>3 DEF Ordered
  <2>5. page.pictures # {}
    BY <2>1, <2>3, <2>4 DEF Asked
  <2>6. page.pictures \subseteq {KindOf(pdf)}
    BY <2>2, <2>3 DEF Coloured
  <2>7. page.pictures = {KindOf(pdf)}
    BY <2>5, <2>6
  <2> QED BY <2>7 DEF Pdf!Picture, Pdf!At, KindOf
<1>3. Pdf!Restored
  <2>1. SUFFICES ASSUME Pdf!Complete, ~touched
                 PROVE  IF origin = None THEN pdf.active = 0
                        ELSE origin < Len(pdf.pages) => pdf.active = origin
    BY DEF Pdf!Restored, Pdf!Length
  <2>2. pdf.initial = origin /\ AtPlace(pdf)
    BY <1>1, <2>1 DEF PdfSound
  <2> QED BY <2>2 DEF AtPlace
<1> QED BY <1>2, <1>3

(***************************************************************************)
(* Turning pages, and closing at the page.                                 *)
(***************************************************************************)
\* The page is one of those that have come, and the place it was opened at is
\* stored until it is closed.
PdfPlaced ==
    pdf # None => /\ pdf.active = 0 \/ pdf.active < Len(pdf.pages)
                  /\ origin # None => place = origin

LEMMA PdfPlacedStep ==
  ASSUME PdfInv, PdfPlaced, Pdf!Next
  PROVE  PdfPlaced'
<1>1. PdfTyped /\ (pdf # None => pdf \in PdfState /\ pdf.pages \in Seq(PageState) /\ pdf.active \in Nat /\ Len(pdf.pages) \in Nat)
  <2>1. PdfTyped
    BY DEF PdfInv
  <2> QED BY <2>1, PdfStateIs DEF PdfTyped
<1>2. CASE Pdf!Open
  BY <1>2 DEF Pdf!Open, Pdf!Fresh, PdfPlaced
<1>3. CASE Pdf!Close
  BY <1>3 DEF Pdf!Close, PdfPlaced
<1>4. ASSUME NEW n \in reads, Pdf!ReadingProgressLoaded(n) PROVE PdfPlaced'
  <2>1. CASE pdf = None
    BY <1>4, <2>1 DEF Pdf!ReadingProgressLoaded, Pdf!Lost, PdfPlaced
  <2>2. CASE pdf # None
    <3>1. Pdf!ProgressLoaded(place) /\ place' = place /\ (origin' = place \/ origin' = origin)
      BY <1>4, <2>2 DEF Pdf!ReadingProgressLoaded
    <3>2. pdf'.pages = pdf.pages /\ (pdf'.active = pdf.active \/ pdf'.active < Len(pdf.pages))
      BY <1>1, <2>2, <3>1 DEF Pdf!ProgressLoaded, PdfState, Pdf!Length
    <3> QED BY <2>2, <3>1, <3>2 DEF PdfPlaced
  <2> QED BY <2>1, <2>2
<1>5. ASSUME NEW s \in streams, Pdf!Receive(s) PROVE PdfPlaced'
  <2>1. UNCHANGED <<place, origin>>
    BY <1>5 DEF Pdf!Receive
  <2>2. CASE pdf' = pdf
    BY <2>1, <2>2 DEF PdfPlaced
  <2>3. CASE pdf # None /\ Pdf!Discovered(s)
    <3>0. s.at \in Nat
      BY <1>1 DEF PdfTyped, Thread
    <3>1. CASE Pdf!PageDiscovered(s.at)
      <4> DEFINE page == [index |-> s.at, list |-> FALSE, pictures |-> {}]
      <4> DEFINE v == [pdf EXCEPT !.pages = Append(pdf.pages, page)]
      <4>1. v.pages = Append(pdf.pages, page) /\ v.active = pdf.active /\ v.initial = pdf.initial
        BY <1>1, <2>3 DEF PdfState
      <4>2. Len(v.pages) = Len(pdf.pages) + 1
        BY <1>1, <2>3, <4>1
      <4>3. pdf' = [v EXCEPT !.active = IF v.initial = Len(v.pages) - 1 THEN v.initial ELSE v.active]
        BY <3>1 DEF Pdf!PageDiscovered, Pdf!Length
      <4>4. v = [v EXCEPT !.active = pdf.active] /\ v \in [DOMAIN pdf -> {v[x] : x \in DOMAIN pdf}]
        BY <1>1, <2>3 DEF PdfState
      <4>5. pdf'.pages = v.pages /\ pdf'.active = IF v.initial = Len(v.pages) - 1 THEN v.initial ELSE v.active
        BY <1>1, <2>3, <4>3, <4>4 DEF PdfState
      <4>6. pdf'.active = pdf.active \/ pdf'.active = Len(pdf.pages)
        BY <1>1, <2>3, <4>1, <4>2, <4>5
      <4>7. Len(pdf'.pages) = Len(pdf.pages) + 1
        BY <4>2, <4>5
      <4>8. pdf'.active = 0 \/ pdf'.active < Len(pdf'.pages)
        BY <1>1, <2>3, <4>6, <4>7 DEF PdfPlaced
      <4> QED BY <2>1, <2>3, <4>8 DEF PdfPlaced
    <3>2. CASE Pdf!DiscoveryComplete
      <4> DEFINE v == [pdf EXCEPT !.reflowable = Reflowable]
      <4>1. v.pages = pdf.pages /\ v.active = pdf.active /\ v.initial = pdf.initial /\ v.initial \in Nat \cup {None}
        BY <1>1, <2>3 DEF PdfState
      <4>2. v.pages = << >> => pdf'.pages = pdf.pages /\ pdf'.active = pdf.active
        BY <3>2, <4>1 DEF Pdf!DiscoveryComplete
      <4>3. v.pages # << >> => pdf' = [v EXCEPT !.active = IF v.initial = None THEN v.active ELSE Min({v.initial, Len(pdf.pages) - 1})]
        BY <3>2, <4>1, PdfMin DEF Pdf!DiscoveryComplete, Pdf!Length
      <4>4. v.pages # << >> => /\ pdf'.pages = pdf.pages
                               /\ pdf'.active = IF v.initial = None THEN v.active ELSE Min({v.initial, Len(pdf.pages) - 1})
        BY <1>1, <2>3, <4>1, <4>3 DEF PdfState
      <4>5. v.pages # << >> => Len(pdf.pages) >= 1
        BY <1>1, <2>3, <4>1
      <4>6. v.pages # << >> /\ v.initial # None => Min({v.initial, Len(pdf.pages) - 1}) < Len(pdf.pages)
        <5> DEFINE a == v.initial
        <5> DEFINE n == Len(pdf.pages)
        <5>1. n \in Nat /\ (v.pages # << >> => n >= 1) /\ (a # None => a \in Nat)
          BY <1>1, <2>3, <4>1, <4>5
        <5> HIDE DEF a, n
        <5>2. ASSUME a \in Nat, n >= 1 PROVE Min({a, n - 1}) < n
          <6>1. a \in Int /\ n - 1 \in Int
            BY <5>1, <5>2
          <6>2. Min({a, n - 1}) = IF a <= n - 1 THEN a ELSE n - 1
            BY <6>1, LessOfTwo
          <6> QED BY <5>1, <5>2, <6>2
        <5> QED BY <5>1, <5>2 DEF a, n
      <4>7. pdf'.active = 0 \/ pdf'.active < Len(pdf'.pages)
        BY <2>3, <4>1, <4>2, <4>4, <4>6 DEF PdfPlaced
      <4> QED BY <2>1, <2>3, <4>7 DEF PdfPlaced
    <3>3. CASE Pdf!DisplayListReady(s.at - s.count - 1)
      <4> DEFINE index == s.at - s.count - 1
      <4> DEFINE i == Min(Pdf!Positions(pdf, index))
      <4>1. pdf' = pdf \/ pdf' = [pdf EXCEPT !.pages[i + 1].list = TRUE]
        BY <3>3, PdfMin DEF Pdf!DisplayListReady, Pdf!Lost
      <4> HIDE DEF i
      <4>2. pdf'.active = pdf.active /\ Len(pdf'.pages) = Len(pdf.pages)
        BY <1>1, <2>3, <4>1 DEF PdfState
      <4> QED BY <2>1, <2>3, <4>2 DEF PdfPlaced
    <3> QED BY <2>3, <3>1, <3>2, <3>3 DEF Pdf!Discovered
  <2> QED BY <1>5, <2>2, <2>3 DEF Pdf!Receive, Pdf!Lost
<1>6. ASSUME NEW s \in streams, Pdf!LoadFailed(s) PROVE PdfPlaced'
  <2>1. UNCHANGED <<place, origin>> /\ (pdf = None => pdf' = None)
    BY <1>6 DEF Pdf!LoadFailed, Pdf!history
  <2>2. pdf # None => pdf'.active = pdf.active /\ pdf'.pages = pdf.pages
    BY <1>1, <1>6 DEF Pdf!LoadFailed, PdfState
  <2> QED BY <2>1, <2>2 DEF PdfPlaced
<1>7. ASSUME NEW r \in renders, Pdf!PictureReady(r) PROVE PdfPlaced'
  <2> DEFINE k == Min(Pdf!Positions(pdf, r.index)) + 1
  <2>1. UNCHANGED <<place, origin>> /\ (pdf = None => pdf' = None)
    BY <1>7 DEF Pdf!PictureReady, Pdf!history
  <2>2. pdf' = pdf \/ pdf' = [pdf EXCEPT !.pages[k].pictures = pdf.pages[k].pictures \cup {r.kind}]
    BY <1>7, PdfMin DEF Pdf!PictureReady
  <2> HIDE DEF k
  <2>3. pdf # None => pdf'.active = pdf.active /\ Len(pdf'.pages) = Len(pdf.pages)
    BY <1>1, <2>2 DEF PdfState
  <2> QED BY <2>1, <2>3 DEF PdfPlaced
<1>8. ASSUME NEW wide \in BOOLEAN, Pdf!Draw(wide) PROVE PdfPlaced'
  <2>1. UNCHANGED <<place, origin>> /\ pdf # None /\ pdf'.active = pdf.active /\ pdf'.pages = pdf.pages
    BY <1>1, <1>8 DEF Pdf!Draw, PdfState
  <2> QED BY <2>1 DEF PdfPlaced
<1>9. CASE Pdf!User
  <2>1. pdf # None /\ UNCHANGED <<place, origin>>
    BY <1>9 DEF Pdf!User, Pdf!SelectPage, Pdf!PreviousPage, Pdf!NextPage, Pdf!ThemeColors, Pdf!DualPage, Pdf!EpubFontSize, Pdf!Acting
  <2>2. ASSUME NEW page \in Nat, page = 0 \/ page < Len(pdf.pages), Pdf!GoTo(page) PROVE PdfPlaced'
    <3>1. pdf'.active = page /\ pdf'.pages = pdf.pages
      BY <1>1, <2>1, <2>2 DEF Pdf!GoTo, PdfState
    <3> QED BY <2>1, <2>2, <3>1 DEF PdfPlaced
  <2>3. pdf.active = 0 \/ pdf.active < Len(pdf.pages)
    BY <2>1 DEF PdfPlaced
  <2>4. ASSUME NEW i \in Pdf!Places, Pdf!SelectPage(i) PROVE PdfPlaced'
    BY <2>2, <2>4, PlacesAre DEF Pdf!SelectPage, Pdf!Length
  <2>5. CASE Pdf!PreviousPage
    <3> DEFINE page == IF pdf.active < Pdf!StepOf(pdf) THEN 0 ELSE pdf.active - Pdf!StepOf(pdf)
    <3>1. Pdf!StepOf(pdf) \in {1, 2}
      BY DEF Pdf!StepOf
    <3>2. page \in Nat /\ (page = 0 \/ page < Len(pdf.pages))
      BY <1>1, <2>1, <2>3, <3>1
    <3>3. Pdf!GoTo(page)
      BY <2>5 DEF Pdf!PreviousPage
    <3> HIDE DEF page
    <3> QED BY <2>2, <3>2, <3>3
  <2>6. CASE Pdf!NextPage
    <3> DEFINE page == Pdf!NextOf(pdf)
    <3>1. Pdf!StepOf(pdf) \in {1, 2}
      BY DEF Pdf!StepOf
    <3>2. page \in Nat /\ (page = 0 \/ page < Len(pdf.pages))
      BY <1>1, <2>1, <2>3, <3>1 DEF Pdf!NextOf, Pdf!Length
    <3>3. Pdf!GoTo(page)
      BY <2>6 DEF Pdf!NextPage
    <3> HIDE DEF page
    <3> QED BY <2>2, <3>2, <3>3
  <2>7. CASE Pdf!ThemeColors
    <3>1. pdf' = [pdf EXCEPT !.theme = ~pdf.theme,
                             !.pages = [i \in DOMAIN pdf.pages |-> [pdf.pages[i] EXCEPT !.pictures = {}]]]
      BY <2>7 DEF Pdf!ThemeColors
    <3>2. pdf'.active = pdf.active /\ pdf'.pages = [i \in 1..Len(pdf.pages) |-> [pdf.pages[i] EXCEPT !.pictures = {}]]
      BY <1>1, <2>1, <3>1 DEF PdfState
    <3>3. Len(pdf'.pages) = Len(pdf.pages)
      BY <1>1, <2>1, <3>2, PicturesDropped
    <3> QED BY <2>1, <2>3, <3>2, <3>3 DEF PdfPlaced
  <2>8. ASSUME NEW m \in Pdf!DualPageMode, Pdf!DualPage(m) PROVE PdfPlaced'
    <3>1. pdf'.active = pdf.active /\ pdf'.pages = pdf.pages
      BY <1>1, <2>1, <2>8 DEF Pdf!DualPage, PdfState
    <3> QED BY <2>1, <2>3, <3>1 DEF PdfPlaced
  <2>9. ASSUME NEW s \in Sizes, Pdf!EpubFontSize(s) PROVE PdfPlaced'
    <3>1. pdf'.active = 0
      BY <1>1, <2>1, <2>9 DEF Pdf!EpubFontSize, PdfState
    <3> QED BY <2>1, <3>1 DEF PdfPlaced
  <2> QED BY <1>9, <2>4, <2>5, <2>6, <2>7, <2>8, <2>9 DEF Pdf!User
<1> QED BY <1>2, <1>3, <1>4, <1>5, <1>6, <1>7, <1>8, <1>9 DEF Pdf!Next

LEMMA PdfMax == \A S : Pdf!Max(S) = Max(S)
BY DEF Pdf!Max, Max

\* The least and the greatest of the pages on the screen.
LEMMA EndsOfTwo ==
  ASSUME NEW a \in Nat, NEW n \in Nat, a < n
  PROVE  LET S == {i \in {a, a + 1} : i < n}
         IN  Min(S) = a /\ Max(S) = IF a + 1 < n THEN a + 1 ELSE a
<1>1. CASE a + 1 < n
  <2>1. {i \in {a, a + 1} : i < n} = {a, a + 1}
    BY <1>1
  <2>2. Min({a, a + 1}) = a /\ Max({a, a + 1}) = a + 1
    BY LessOfTwo, MoreOfTwo
  <2> QED BY <1>1, <2>1, <2>2
<1>2. CASE ~(a + 1 < n)
  <2>1. {i \in {a, a + 1} : i < n} = {a, a}
    BY <1>2
  <2>2. Min({a, a}) = a /\ Max({a, a}) = a
    BY LessOfTwo, MoreOfTwo
  <2> QED BY <1>2, <2>1, <2>2
<1> QED BY <1>1, <1>2

LEMMA EndsOfOne ==
  ASSUME NEW a \in Nat, NEW n \in Nat, a < n
  PROVE  LET S == {i \in {a} : i < n} IN S = {a} /\ Min(S) = a /\ Max(S) = a
<1>1. {i \in {a} : i < n} = {a, a} /\ {a} = {a, a}
  OBVIOUS
<1>2. Min({a, a}) = a /\ Max({a, a}) = a
  BY LessOfTwo, MoreOfTwo
<1> QED BY <1>1, <1>2

\* What is on the screen at page a of n.
LEMMA ShownAt ==
  ASSUME NEW v \in PdfState, v.active < Len(v.pages)
  PROVE  LET a == v.active
             n == Len(v.pages)
             s == Pdf!Spread(v)
         IN  /\ n \in Nat /\ a \in Nat
             /\ s \in Nat /\ s <= a /\ a <= s + 1
             /\ IF Pdf!ShouldDualPage(v)
                THEN /\ Min(Pdf!Shown(v)) = s
                     /\ Max(Pdf!Shown(v)) = IF s + 1 < n THEN s + 1 ELSE s
                ELSE Min(Pdf!Shown(v)) = a /\ Max(Pdf!Shown(v)) = a
<1> DEFINE a == v.active
<1> DEFINE n == Len(v.pages)
<1> DEFINE s == Pdf!Spread(v)
<1>1. n \in Nat /\ a \in Nat /\ Pdf!Length(v) = n /\ a < n
  BY PdfStateIs
<1>2. s = (a \div 2) * 2
  BY DEF Pdf!Spread
<1>3. Pdf!Shown(v) = {i \in (IF Pdf!ShouldDualPage(v) THEN {s, s + 1} ELSE {a}) : i < n}
  BY <1>1 DEF Pdf!Shown, Pdf!VisiblePageIndices
<1> HIDE DEF a, n, s
<1>4. s \in Nat /\ s <= a /\ a <= s + 1
  BY <1>1, <1>2
<1>5. CASE Pdf!ShouldDualPage(v)
  <2>1. Pdf!Shown(v) = {i \in {s, s + 1} : i < n} /\ s < n
    BY <1>1, <1>3, <1>4, <1>5
  <2>2. Min({i \in {s, s + 1} : i < n}) = s /\ Max({i \in {s, s + 1} : i < n}) = IF s + 1 < n THEN s + 1 ELSE s
    BY <1>1, <1>4, <2>1, EndsOfTwo
  <2> QED BY <1>1, <1>4, <1>5, <2>1, <2>2 DEF a, n, s
<1>6. CASE ~Pdf!ShouldDualPage(v)
  <2>1. Pdf!Shown(v) = {i \in {a} : i < n}
    BY <1>3, <1>6
  <2>2. Min({i \in {a} : i < n}) = a /\ Max({i \in {a} : i < n}) = a
    BY <1>1, EndsOfOne
  <2> QED BY <1>1, <1>4, <1>6, <2>1, <2>2 DEF a, n, s
<1> QED BY <1>5, <1>6

\* Two pages further, or back, are the next two or the two before.
LEMMA SpreadMoved ==
  ASSUME NEW a \in Nat
  PROVE  /\ ((a + 2) \div 2) * 2 = (a \div 2) * 2 + 2
         /\ a >= 2 => ((a - 2) \div 2) * 2 = (a \div 2) * 2 - 2
         /\ a < 2 => (a \div 2) * 2 = 0
         /\ (0 \div 2) * 2 = 0
OBVIOUS

\* What is on the screen, and how far a turn goes.
LEMMA PdfHere ==
  ASSUME PdfInv, PdfPlaced, pdf # None, pdf.pages # << >>
  PROVE  LET a == pdf.active
             n == Len(pdf.pages)
             s == Pdf!Spread(pdf)
             dual == Pdf!ShouldDualPage(pdf)
         IN  /\ pdf \in PdfState /\ Pdf!Length(pdf) = n
             /\ n \in Nat /\ a \in Nat /\ a < n
             /\ s \in Nat /\ s <= a /\ a <= s + 1 /\ s = (a \div 2) * 2
             /\ Pdf!StepOf(pdf) = IF dual THEN 2 ELSE 1
             /\ IF dual THEN /\ Min(Pdf!Shown(pdf)) = s
                             /\ Max(Pdf!Shown(pdf)) = IF s + 1 < n THEN s + 1 ELSE s
                ELSE Min(Pdf!Shown(pdf)) = a /\ Max(Pdf!Shown(pdf)) = a
<1>1. pdf \in PdfState
  BY DEF PdfInv, PdfTyped
<1>2. /\ Len(pdf.pages) \in Nat /\ pdf.active \in Nat /\ Pdf!Length(pdf) = Len(pdf.pages)
      /\ pdf.pages \in Seq(PageState)
  BY <1>1, PdfStateIs
<1>3. Len(pdf.pages) # 0
  BY <1>2
<1>4. pdf.active = 0 \/ pdf.active < Len(pdf.pages)
  BY DEF PdfPlaced
<1>5. pdf.active < Len(pdf.pages)
  BY <1>2, <1>3, <1>4
<1>6. Pdf!Spread(pdf) = (pdf.active \div 2) * 2 /\ Pdf!StepOf(pdf) = IF Pdf!ShouldDualPage(pdf) THEN 2 ELSE 1
  BY DEF Pdf!Spread, Pdf!StepOf
<1> QED BY <1>1, <1>2, <1>5, <1>6, ShownAt

\* What is on the screen after the reader has gone to page b.
LEMMA PdfGone ==
  ASSUME PdfInv, PdfPlaced, pdf # None, pdf.pages # << >>,
         NEW b \in Nat, b < Len(pdf.pages), Pdf!GoTo(b)
  PROVE  LET n == Len(pdf.pages)
             t == (b \div 2) * 2
             dual == Pdf!ShouldDualPage(pdf)
         IN  /\ IF dual THEN /\ Min(Pdf!Shown(pdf')) = t
                             /\ Max(Pdf!Shown(pdf')) = IF t + 1 < n THEN t + 1 ELSE t
                ELSE Min(Pdf!Shown(pdf')) = b /\ Max(Pdf!Shown(pdf')) = b
             /\ b = pdf.active \/ (dual /\ t = Pdf!Spread(pdf)) => Pdf!Shown(pdf') = Pdf!Shown(pdf)
<1>1. pdf \in PdfState
  BY PdfHere
<1>2. pdf' = [pdf EXCEPT !.active = b]
  BY DEF Pdf!GoTo
<1>3. /\ pdf' \in PdfState /\ pdf'.active = b /\ pdf'.pages = pdf.pages
      /\ pdf'.dual = pdf.dual /\ pdf'.wide = pdf.wide
  BY <1>1, <1>2 DEF PdfState
<1>4. Pdf!ShouldDualPage(pdf') = Pdf!ShouldDualPage(pdf)
  BY <1>3 DEF Pdf!ShouldDualPage
<1>5. Pdf!Spread(pdf') = (b \div 2) * 2 /\ pdf'.active < Len(pdf'.pages)
  BY <1>3 DEF Pdf!Spread
<1>6. IF Pdf!ShouldDualPage(pdf') THEN /\ Min(Pdf!Shown(pdf')) = Pdf!Spread(pdf')
           /\ Max(Pdf!Shown(pdf')) = IF Pdf!Spread(pdf') + 1 < Len(pdf'.pages) THEN Pdf!Spread(pdf') + 1 ELSE Pdf!Spread(pdf')
      ELSE Min(Pdf!Shown(pdf')) = pdf'.active /\ Max(Pdf!Shown(pdf')) = pdf'.active
  BY <1>3, <1>5, ShownAt
<1>7. ASSUME b = pdf.active
      PROVE  Pdf!Shown(pdf') = Pdf!Shown(pdf)
  BY <1>3, <1>4, <1>7 DEF Pdf!Shown, Pdf!VisiblePageIndices, Pdf!Spread, Pdf!Length
<1>8. ASSUME Pdf!ShouldDualPage(pdf), Pdf!Spread(pdf') = Pdf!Spread(pdf)
      PROVE  Pdf!Shown(pdf') = Pdf!Shown(pdf)
  BY <1>3, <1>4, <1>8 DEF Pdf!Shown, Pdf!VisiblePageIndices, Pdf!Length
<1> QED BY <1>3, <1>4, <1>5, <1>6, <1>7, <1>8

PdfForwards ==
    \/ Min(Pdf!Shown(pdf')) = Max(Pdf!Shown(pdf)) + 1
    \/ Pdf!Shown(pdf') = Pdf!Shown(pdf) /\ Max(Pdf!Shown(pdf)) = Pdf!Length(pdf) - 1

PdfBackwards ==
    \/ Max(Pdf!Shown(pdf')) + 1 = Min(Pdf!Shown(pdf))
    \/ Pdf!Shown(pdf') = Pdf!Shown(pdf) /\ Min(Pdf!Shown(pdf)) = 0

LEMMA PdfNextInOrder ==
  ASSUME PdfInv, PdfPlaced, pdf # None, pdf.pages # << >>, ~Pdf!Stuck(pdf), Pdf!NextPage
  PROVE  PdfForwards
<1> DEFINE a == pdf.active
<1> DEFINE n == Len(pdf.pages)
<1> DEFINE s == Pdf!Spread(pdf)
<1> DEFINE dual == Pdf!ShouldDualPage(pdf)
<1> DEFINE b == Pdf!NextOf(pdf)
<1> DEFINE lo == Min(Pdf!Shown(pdf'))
<1> DEFINE hi == Max(Pdf!Shown(pdf))
<1> DEFINE stays == Pdf!Shown(pdf') = Pdf!Shown(pdf)
<1> DEFINE step == Pdf!StepOf(pdf)
<1>1. /\ Pdf!Length(pdf) = n /\ n \in Nat /\ a \in Nat /\ a < n
      /\ s \in Nat /\ s <= a /\ a <= s + 1 /\ s = (a \div 2) * 2
      /\ step = IF dual THEN 2 ELSE 1
      /\ hi = IF dual THEN (IF s + 1 < n THEN s + 1 ELSE s) ELSE a
  BY PdfHere
<1>2. b = (IF a + step < n THEN a + step ELSE a) /\ Pdf!GoTo(b)
  BY <1>1 DEF Pdf!NextOf, Pdf!NextPage
<1>3. b \in Nat /\ b < n
  <2> HIDE DEF a, n, s, dual, b, lo, hi, stays, step
  <2> QED BY <1>1, <1>2
<1>4. /\ lo = IF dual THEN (b \div 2) * 2 ELSE b
      /\ b = a => stays
  BY <1>2, <1>3, PdfGone
<1>5. ~(dual /\ a # s /\ a + 2 = n)
  BY <1>1 DEF Pdf!Stuck
<1>6. lo = hi + 1 \/ (stays /\ hi = n - 1)
  <2> HIDE DEF a, n, s, dual, b, lo, hi, stays, step
  <2>1. CASE ~dual
    BY <1>1, <1>2, <1>3, <1>4, <2>1
  <2>2. CASE dual /\ a + 2 < n
    <3>1. b = a + 2 /\ lo = ((a + 2) \div 2) * 2
      BY <1>1, <1>2, <1>4, <2>2
    <3>2. ((a + 2) \div 2) * 2 = (a \div 2) * 2 + 2
      BY <1>1, SpreadMoved
    <3> QED BY <1>1, <2>2, <3>1, <3>2
  <2>3. CASE dual /\ ~(a + 2 < n)
    <3>1. b = a
      BY <1>1, <1>2, <2>3
    <3>2. hi = n - 1
      BY <1>1, <1>5, <2>3
    <3> QED BY <1>4, <3>1, <3>2
  <2> QED BY <2>1, <2>2, <2>3
<1> QED BY <1>1, <1>6 DEF PdfForwards

LEMMA PdfPreviousInOrder ==
  ASSUME PdfInv, PdfPlaced, pdf # None, pdf.pages # << >>, Pdf!PreviousPage
  PROVE  PdfBackwards
<1> DEFINE a == pdf.active
<1> DEFINE n == Len(pdf.pages)
<1> DEFINE s == Pdf!Spread(pdf)
<1> DEFINE dual == Pdf!ShouldDualPage(pdf)
<1> DEFINE step == Pdf!StepOf(pdf)
<1> DEFINE b == IF a < step THEN 0 ELSE a - step
<1> DEFINE hi == Max(Pdf!Shown(pdf'))
<1> DEFINE lo == Min(Pdf!Shown(pdf))
<1> DEFINE stays == Pdf!Shown(pdf') = Pdf!Shown(pdf)
<1>1. /\ n \in Nat /\ a \in Nat /\ a < n
      /\ s \in Nat /\ s <= a /\ a <= s + 1 /\ s = (a \div 2) * 2
      /\ step = IF dual THEN 2 ELSE 1
      /\ lo = IF dual THEN s ELSE a
  BY PdfHere
<1>2. Pdf!GoTo(b)
  BY DEF Pdf!PreviousPage
<1>3. b = IF a < step THEN 0 ELSE a - step
  OBVIOUS
<1>4. b \in Nat /\ b < n
  <2> HIDE DEF a, n, s, dual, b, lo, hi, stays, step
  <2> QED BY <1>1, <1>3
<1>5. /\ hi = IF dual THEN (IF (b \div 2) * 2 + 1 < n THEN (b \div 2) * 2 + 1 ELSE (b \div 2) * 2) ELSE b
      /\ b = a => stays
      /\ dual /\ (b \div 2) * 2 = s => stays
  <2> HIDE DEF b
  <2> QED BY <1>2, <1>4, PdfGone
<1>6. hi + 1 = lo \/ (stays /\ lo = 0)
  <2> HIDE DEF a, n, s, dual, b, lo, hi, stays, step
  <2>1. CASE ~dual
    BY <1>1, <1>3, <1>4, <1>5, <2>1
  <2>2. CASE dual /\ a >= 2
    <3>1. b = a - 2
      BY <1>1, <1>3, <2>2
    <3>2. (b \div 2) * 2 = s - 2
      BY <1>1, <2>2, <3>1, SpreadMoved
    <3> QED BY <1>1, <1>5, <2>2, <3>2
  <2>3. CASE dual /\ a < 2
    <3>1. b = 0
      BY <1>1, <1>3, <2>3
    <3>2. (b \div 2) * 2 = 0 /\ s = 0
      BY <1>1, <2>3, <3>1, SpreadMoved
    <3> QED BY <1>1, <1>5, <2>3, <3>2
  <2> QED BY <1>1, <2>1, <2>2, <2>3
<1> QED BY <1>6 DEF PdfBackwards

\* A page begins where the one before ended, the first with the chapter, and
\* the last ends with it.
LEMMA PagesFollow ==
  ASSUME NEW blocks, NEW l, IsChapter(blocks, l)
  PROVE  LET pages == Paginate(blocks, l)
             n == Len(pages)
             begin(k) == <<pages[k].start, pages[k].from>>
         IN  /\ n \in Nat /\ n >= 1
             /\ begin(1) = <<1, 0>>
             /\ \A k \in 1..(n - 1) : begin(k + 1) = After(pages[k])
             /\ After(pages[n]) = <<Len(blocks) + 1, 0>>
<1> DEFINE N == Len(blocks)
<1> DEFINE pages == Paginate(blocks, l)
<1>1. PICK path : /\ Begins(blocks, l, path)
                  /\ pages = [k \in 1..(Len(path) - 1) |-> Page(blocks, l, path[k][1], path[k][2])]
  BY PaginateIs
<1> DEFINE n == Len(path) - 1
<1>2. /\ Len(path) \in Nat /\ Len(path) > 1 /\ path[1] = <<1, 0>> /\ path[Len(path)][1] = N + 1
      /\ \A k \in 1..Len(path) : path[k] = <<path[k][1], path[k][2]>> /\ Inside(blocks, l, path[k])
      /\ \A k \in 1..n : /\ path[k][1] \in 1..N
                         /\ path[k + 1] = After(Page(blocks, l, path[k][1], path[k][2]))
  BY <1>1 DEF Begins
<1>3. n \in Nat /\ 1 <= n /\ n + 1 = Len(path)
  BY <1>2
<1>4. Len(pages) = n /\ \A k \in 1..n : pages[k] = Page(blocks, l, path[k][1], path[k][2])
  BY <1>1, <1>3
<1> HIDE DEF n
<1>5. ASSUME NEW k \in 1..n
      PROVE  <<pages[k].start, pages[k].from>> = path[k] /\ After(pages[k]) = path[k + 1]
  <2>1. k \in 1..Len(path)
    BY <1>3
  <2>2. path[k][1] \in 1..N /\ path[k][2] \in Nat /\ path[k] = <<path[k][1], path[k][2]>>
    BY <1>2, <2>1 DEF Inside, PlacesIn
  <2> DEFINE p == Page(blocks, l, path[k][1], path[k][2])
  <2>3. GoodPage(blocks, l, path[k][1], path[k][2], p)
    BY <2>2, PageIs
  <2> HIDE DEF p
  <2>4. p = [start |-> path[k][1], from |-> path[k][2], end |-> p.end, to |-> p.to]
    BY <2>3 DEF GoodPage
  <2>5. p.start = path[k][1] /\ p.from = path[k][2]
    BY <2>4
  <2>6. pages[k] = p
    BY <1>4 DEF p
  <2>7. path[k + 1] = After(p)
    BY <1>2 DEF p
  <2> QED BY <2>2, <2>5, <2>6, <2>7
<1>6. path[n + 1] = <<N + 1, 0>>
  <2>1. n + 1 \in 1..Len(path) /\ path[n + 1][1] = N + 1
    BY <1>2, <1>3
  <2>2. path[n + 1] = <<path[n + 1][1], path[n + 1][2]>> /\ Inside(blocks, l, path[n + 1])
    BY <1>2, <2>1
  <2>3. path[n + 1][2] \in Nat /\ N \in Nat
    BY <2>2, ChapterIs DEF Inside, PlacesIn
  <2>4. ~(path[n + 1][2] > 0)
    BY <2>1, <2>2, <2>3 DEF Inside
  <2>5. path[n + 1][2] = 0
    BY <2>3, <2>4
  <2> QED BY <2>1, <2>2, <2>5
<1> HIDE DEF pages
<1>7. ASSUME NEW k \in 1..(n - 1) PROVE <<pages[k + 1].start, pages[k + 1].from>> = After(pages[k])
  <2>1. k \in 1..n /\ k + 1 \in 1..n
    BY <1>3
  <2> QED BY <1>5, <2>1
<1>8. <<pages[1].start, pages[1].from>> = <<1, 0>> /\ After(pages[n]) = <<N + 1, 0>>
  <2>1. 1 \in 1..n /\ n \in 1..n
    BY <1>3
  <2> QED BY <1>2, <1>5, <1>6, <2>1
<1> QED BY <1>3, <1>4, <1>7, <1>8 DEF pages

\* The viewer shows the pages it has.
Steady(v) ==
    Typed(v) /\ Drawn(v) /\ v.pending = 0 /\ v.cache[v.active] = v.layout
      /\ v.page < Len(PageTable[v.active][v.layout])

\* What is on the screen then.
LEMMA ScreenIs ==
  ASSUME NEW v, Steady(v)
  PROVE  LET T == PageTable[v.active][v.layout]
             n == Len(T)
             s == v.layout.step
             begin(k) == <<T[k].start, T[k].from>>
         IN  /\ n \in Nat /\ n >= 1 /\ v.page \in Nat /\ v.page < n /\ s \in {1, 2}
             /\ PageStep(v) = s /\ TotalPages(v) = n /\ Pages(v) = T
             /\ Begin(v) = begin(v.page + 1)
             /\ End(v) = After(T[IF v.page + s <= n THEN v.page + s ELSE n])
             /\ \A k \in (v.page + 1)..(IF v.page + s <= n THEN v.page + s ELSE n) : T[k] \in ShownPages(v)
             /\ begin(1) = <<1, 0>>
             /\ \A k \in 1..(n - 1) : begin(k + 1) = After(T[k])
             /\ After(T[n]) = ChapterEnd(v)
<1> DEFINE T == PageTable[v.active][v.layout]
<1> DEFINE n == Len(T)
<1> DEFINE s == v.layout.step
<1> DEFINE begin(k) == <<T[k].start, T[k].from>>
<1> DEFINE last == IF v.page + s <= n THEN v.page + s ELSE n
<1>1. /\ Typed(v) /\ v.active \in Chapters /\ v.layout \in Layouts /\ v.layout # None /\ v.page \in Nat
      /\ v.pending = 0 /\ v.cache[v.active] = v.layout /\ v.page < n
  BY TypedIs DEF Steady, Drawn
<1>2. s \in {1, 2}
  <2>1. v.layout \in Layout
    BY <1>1, BookAssumption
  <2> QED BY <2>1 DEF Layout
<1>3. T = Paginate(Book[v.active], v.layout) /\ IsChapter(Book[v.active], v.layout)
  BY <1>1, TableIs, BookIs
<1>4. /\ n \in Nat /\ n >= 1 /\ begin(1) = <<1, 0>>
      /\ \A k \in 1..(n - 1) : begin(k + 1) = After(T[k])
      /\ After(T[n]) = <<Len(Book[v.active]) + 1, 0>>
  <2> HIDE DEF T
  <2> QED BY <1>3, PagesFollow
<1>5. ChapterEnd(v) = <<Len(Book[v.active]) + 1, 0>>
  BY DEF ChapterEnd, Blocks
<1>6. Cached(v, v.active) /\ Pages(v) = T /\ ShownTable(v) = T
  BY <1>1 DEF Cached, Pages, ShownTable, ShownLayout
<1>7. PageStep(v) = s /\ TotalPages(v) = n
  BY <1>1, <1>6 DEF PageStep, TotalPages
<1>8. FirstShown(v) = 1 + Min({v.page, n - 1})
  BY <1>1, <1>6 DEF FirstShown
<1> HIDE DEF T, n, s
<1>9. FirstShown(v) = v.page + 1
  <2>1. Min({v.page, n - 1}) = v.page
    BY <1>1, <1>4, LessOfTwo
  <2> QED BY <1>1, <1>8, <2>1
<1>10. LastShown(v) = last
  <2>1. LastShown(v) = Min({FirstShown(v) + s - 1, n})
    BY <1>6 DEF LastShown, n, s
  <2>2. FirstShown(v) + s - 1 = v.page + s
    BY <1>1, <1>2, <1>9
  <2> QED BY <1>1, <1>2, <1>4, <2>1, <2>2, LessOfTwo
<1>11. Begin(v) = begin(v.page + 1) /\ End(v) = After(T[last])
  BY <1>6, <1>9, <1>10 DEF Begin, End
<1>12. \A k \in (v.page + 1)..last : T[k] \in ShownPages(v)
  BY <1>6, <1>9, <1>10 DEF ShownPages
<1> QED BY <1>1, <1>2, <1>4, <1>5, <1>6, <1>7, <1>11, <1>12 DEF T, n, s

\* Such a viewer needs no pages,
LEMMA SteadyStays ==
  ASSUME NEW v, Steady(v)
  PROVE  Repaginated(v) = v
<1>1. Typed(v) /\ v \in Viewer /\ Paginates(v) /\ v.pending = 0 /\ v.cache[v.active] = v.layout
  BY TypedIs DEF Steady, Drawn, Paginates
<1>2. Repaginated(v) = [v EXCEPT !.cache[v.active] = v.layout, !.pending = 0, !.page = v.page]
  BY <1>1, RepaginatedAs
<1>3. v.cache \in [Chapters -> Layouts \cup {None}]
  BY <1>1 DEF Viewer
<1>4. [v.cache EXCEPT ![v.active] = v.layout] = v.cache
  <2> DEFINE f == v.cache
  <2>1. f \in [Chapters -> Layouts \cup {None}] /\ f[v.active] = v.layout
    BY <1>1, <1>3
  <2> HIDE DEF f
  <2>2. [f EXCEPT ![v.active] = v.layout] = f
    BY <2>1
  <2> QED BY <2>2 DEF f
<1>5. Repaginated(v) = [v EXCEPT !.cache = v.cache, !.pending = v.pending, !.page = v.page]
  BY <1>1, <1>2, <1>4
<1> QED BY <1>1, <1>5 DEF Viewer

\* goes to another page of the chapter as it is,
LEMMA SteadyOnPage ==
  ASSUME NEW v, Steady(v), NEW n \in Nat, n < Len(PageTable[v.active][v.layout])
  PROVE  LET w == [v EXCEPT !.page = n]
         IN  Steady(w) /\ w.page = n /\ w.active = v.active /\ w.layout = v.layout
<1> DEFINE w == [v EXCEPT !.page = n]
<1>1. v \in Viewer /\ Typed(v)
  BY DEF Steady, Typed
<1>2. /\ w \in Viewer /\ w.page = n /\ w.active = v.active /\ w.layout = v.layout /\ w.cache = v.cache
      /\ w.loaded = v.loaded /\ w.mode = v.mode /\ w.pending = v.pending
  BY <1>1 DEF Viewer
<1> HIDE DEF w
<1>3. Typed(w)
  BY <1>1, <1>2 DEF Typed
<1>4. Drawn(w) /\ w.pending = 0 /\ w.cache[w.active] = w.layout
  BY <1>2 DEF Steady, Drawn
<1> QED BY <1>2, <1>3, <1>4 DEF Steady, w

\* and to another chapter with pages for it.
LEMMA SteadyInChapter ==
  ASSUME NEW v, Steady(v), NEW c \in Chapters, c <= v.loaded
  PROVE  LET w == Repaginated([v EXCEPT !.active = c, !.page = 0])
         IN  Steady(w) /\ w.active = c /\ w.page = 0
<1> DEFINE x == [v EXCEPT !.active = c, !.page = 0]
<1> DEFINE w == Repaginated(x)
<1> DEFINE n == Len(PageTable[c][v.layout])
<1>1. v \in Viewer /\ Typed(v) /\ v.layout \in Layouts /\ v.layout # None
  BY TypedIs DEF Steady, Drawn
<1>2. /\ x \in Viewer /\ x.active = c /\ x.layout = v.layout /\ x.cache = v.cache
      /\ x.loaded = v.loaded /\ x.mode = v.mode /\ x.pending = v.pending /\ x.page = 0
  BY <1>1 DEF Viewer
<1>3. n \in Nat /\ n >= 1
  BY <1>1, TableIs
<1> HIDE DEF x, n
<1>4. Typed(x) /\ Paginates(x) /\ x.pending = 0
  BY <1>1, <1>2 DEF Typed, Steady, Drawn, Paginates
<1>5. w = [x EXCEPT !.cache[c] = x.layout, !.pending = 0,
                    !.page = IF x.cache[c] = x.layout THEN 0 ELSE Min({0, n - 1})]
  BY <1>2, <1>4, RepaginatedAs DEF n
<1>6. Min({0, n - 1}) = 0
  BY <1>3, LessOfTwo
<1>7. /\ Typed(w) /\ w.mode = x.mode /\ w.loaded = x.loaded /\ w.active = c /\ w.layout = v.layout
      /\ w.pending = 0 /\ w.cache[w.active] = w.layout
  BY <1>2, <1>4, RepaginatedIs
<1>8. w.page = 0
  BY <1>2, <1>5, <1>6 DEF Viewer
<1> HIDE DEF w
<1>9. Drawn(w)
  BY <1>1, <1>2, <1>7 DEF Steady, Drawn
<1>10. w.page < Len(PageTable[w.active][w.layout])
  BY <1>3, <1>7, <1>8 DEF n
<1> QED BY <1>7, <1>8, <1>9, <1>10 DEF Steady, w, x

EpubForwards(v, w) ==
    \/ w.active = v.active /\ Begin(w) = End(v)
    \/ /\ End(v) = ChapterEnd(v)
       /\ \/ w.active = v.active + 1 /\ Begin(w) = <<1, 0>>
          \/ v.active = v.loaded /\ w = v

EpubBackwards(v, w) ==
    \/ /\ w.active = v.active
       /\ w.page < v.page
       /\ \E p \in ShownPages(w) : After(p) = Begin(v)
    \/ /\ Begin(v) = <<1, 0>>
       /\ \/ w.active = v.active - 1 /\ End(w) = ChapterEnd(w)
          \/ v.active = 1 /\ w = v

LEMMA NextPageInOrder ==
  ASSUME NEW v, Steady(v)
  PROVE  EpubForwards(v, NextPageOf(v))
<1> DEFINE T == PageTable[v.active][v.layout]
<1> DEFINE n == Len(T)
<1> DEFINE s == v.layout.step
<1> DEFINE begin(k) == <<T[k].start, T[k].from>>
<1> DEFINE last == IF v.page + s <= n THEN v.page + s ELSE n
<1> DEFINE w == NextPageOf(v)
<1>1. /\ n \in Nat /\ n >= 1 /\ v.page \in Nat /\ v.page < n /\ s \in {1, 2}
      /\ PageStep(v) = s /\ TotalPages(v) = n
      /\ End(v) = After(T[last])
      /\ \A k \in 1..(n - 1) : begin(k + 1) = After(T[k])
      /\ After(T[n]) = ChapterEnd(v)
  BY ScreenIs
<1>2. Typed(v) /\ v.active \in Chapters /\ v.active \in Nat /\ v.loaded \in 0..Len(Book) /\ v.loaded > 0
      /\ v.active <= v.loaded /\ v \in Viewer
  BY TypedIs DEF Steady, Drawn, Viewer
<1>3. w = IF v.page + s < n THEN [v EXCEPT !.page = v.page + s]
          ELSE IF v.active + 1 <= v.loaded
          THEN Repaginated([v EXCEPT !.active = v.active + 1, !.page = 0])
          ELSE v
  <2> HIDE DEF T, n, s
  <2>1. w = IF v.page + PageStep(v) < TotalPages(v) THEN [v EXCEPT !.page = v.page + PageStep(v)]
          ELSE IF v.active + 1 <= v.loaded
          THEN Repaginated([v EXCEPT !.active = v.active + 1, !.page = 0])
          ELSE v
    BY <1>2, SteadyStays DEF NextPageOf, Viewer
  <2> QED BY <1>1, <2>1
<1>4. CASE v.page + s < n
  <2> DEFINE m == v.page + s
  <2>1. m \in Nat /\ m < n /\ m \in 1..(n - 1) /\ last = m
    <3> HIDE DEF n, s
    <3> QED BY <1>1, <1>4
  <2>2. w = [v EXCEPT !.page = m]
    BY <1>3, <1>4
  <2> HIDE DEF m, w
  <2>3. Steady(w) /\ w.page = m /\ w.active = v.active /\ w.layout = v.layout
    BY <2>1, <2>2, SteadyOnPage
  <2>4. Begin(w) = begin(m + 1)
    BY <2>3, ScreenIs
  <2>5. begin(m + 1) = After(T[m]) /\ End(v) = After(T[m])
    BY <1>1, <2>1
  <2> QED BY <2>3, <2>4, <2>5 DEF EpubForwards, w
<1>5. CASE ~(v.page + s < n)
  <2>1. last = n
    <3> HIDE DEF n, s
    <3> QED BY <1>1, <1>5
  <2>2. End(v) = ChapterEnd(v)
    BY <1>1, <2>1
  <2>3. CASE v.active + 1 <= v.loaded
    <3>1. v.active + 1 \in Chapters
      BY <1>2, <2>3, BookIs
    <3>2. w = Repaginated([v EXCEPT !.active = v.active + 1, !.page = 0])
      BY <1>3, <1>5, <2>3
    <3> HIDE DEF w
    <3> DEFINE c == v.active + 1
    <3>3. c \in Chapters /\ c <= v.loaded /\ w = Repaginated([v EXCEPT !.active = c, !.page = 0])
      BY <2>3, <3>1, <3>2
    <3> HIDE DEF c
    <3>4. Steady(w) /\ w.active = c /\ w.page = 0
      BY <3>3, SteadyInChapter
    <3>5. Begin(w) = <<1, 0>>
      BY <3>4, ScreenIs
    <3> QED BY <2>2, <3>4, <3>5 DEF EpubForwards, c, w
  <2>4. CASE ~(v.active + 1 <= v.loaded)
    <3>1. v.active = v.loaded
      BY <1>2, <2>4, BookIs
    <3>2. w = v
      BY <1>3, <1>5, <2>4
    <3> HIDE DEF w
    <3> QED BY <2>2, <3>1, <3>2 DEF EpubForwards, w
  <2> QED BY <2>3, <2>4
<1> QED BY <1>4, <1>5

LEMMA PreviousPageInOrder ==
  ASSUME NEW v, Steady(v)
  PROVE  EpubBackwards(v, PreviousPageOf(v))
<1> DEFINE T == PageTable[v.active][v.layout]
<1> DEFINE n == Len(T)
<1> DEFINE s == v.layout.step
<1> DEFINE begin(k) == <<T[k].start, T[k].from>>
<1> DEFINE w == PreviousPageOf(v)
<1> DEFINE q == Repaginated([v EXCEPT !.active = v.active - 1])
<1>1. /\ n \in Nat /\ n >= 1 /\ v.page \in Nat /\ v.page < n /\ s \in {1, 2}
      /\ PageStep(v) = s
      /\ Begin(v) = begin(v.page + 1)
      /\ begin(1) = <<1, 0>>
      /\ \A k \in 1..(n - 1) : begin(k + 1) = After(T[k])
  BY ScreenIs
<1>2. Typed(v) /\ v.active \in Chapters /\ v.active \in Nat /\ v.active >= 1 /\ v.loaded \in 0..Len(Book)
      /\ v.active <= v.loaded /\ v \in Viewer
  BY TypedIs DEF Steady, Drawn, Viewer
<1>3. w = IF v.page >= s THEN [v EXCEPT !.page = v.page - s]
          ELSE IF v.page > 0 THEN [v EXCEPT !.page = 0]
          ELSE IF v.active > 1 THEN [q EXCEPT !.page = LastSpread(q)]
          ELSE v
  <2> HIDE DEF T, n, s
  <2>1. w = IF v.page >= PageStep(v) THEN [v EXCEPT !.page = v.page - PageStep(v)]
            ELSE IF v.page > 0 THEN [v EXCEPT !.page = 0]
            ELSE IF v.active > 1 THEN [q EXCEPT !.page = LastSpread(q)]
            ELSE v
    BY <1>2, SteadyStays DEF PreviousPageOf, Viewer
  <2> QED BY <1>1, <2>1
<1>4. CASE v.page > 0
  <2> DEFINE m == IF v.page >= s THEN v.page - s ELSE 0
  <2>1. /\ m \in Nat /\ m < n /\ m < v.page /\ v.page \in 1..(n - 1)
        /\ v.page \in (m + 1)..(IF m + s <= n THEN m + s ELSE n)
    <3> HIDE DEF n, s
    <3> QED BY <1>1, <1>4
  <2>2. w = [v EXCEPT !.page = m]
    BY <1>3, <1>4
  <2> HIDE DEF m, w
  <2>3. Steady(w) /\ w.page = m /\ w.active = v.active /\ w.layout = v.layout
    BY <2>1, <2>2, SteadyOnPage
  <2>4. \A k \in (m + 1)..(IF m + s <= n THEN m + s ELSE n) : T[k] \in ShownPages(w)
    BY <2>3, ScreenIs
  <2>5. T[v.page] \in ShownPages(w)
    BY <2>1, <2>4
  <2>6. After(T[v.page]) = Begin(v)
    BY <1>1, <2>1
  <2> QED BY <2>1, <2>3, <2>5, <2>6 DEF EpubBackwards, w
<1>5. CASE v.page = 0
  <2>1. Begin(v) = <<1, 0>>
    BY <1>1, <1>5
  <2>2. ~(v.page >= s) /\ ~(v.page > 0)
    <3> HIDE DEF s
    <3> QED BY <1>1, <1>5
  <2>3. CASE v.active > 1
    <3> DEFINE c == v.active - 1
    <3>1. c \in Chapters /\ c <= v.loaded
      BY <1>2, <2>3, BookIs
    <3>2. q = Repaginated([v EXCEPT !.active = c, !.page = 0])
      <4>1. [v EXCEPT !.active = c] = [v EXCEPT !.active = c, !.page = 0]
        BY <1>2, <1>5 DEF Viewer
      <4> QED BY <4>1
    <3>3. w = [q EXCEPT !.page = LastSpread(q)]
      BY <1>3, <2>2, <2>3
    <3> HIDE DEF c, q, w
    <3>4. Steady(q) /\ q.active = c /\ q.page = 0
      BY <3>1, <3>2, SteadyInChapter
    <3> DEFINE t == q.layout.step
    <3> DEFINE k == Len(PageTable[q.active][q.layout])
    <3> DEFINE f == LastSpread(q)
    <3>5. k \in Nat /\ k >= 1 /\ t \in {1, 2} /\ PageStep(q) = t /\ TotalPages(q) = k
      BY <3>4, ScreenIs
    <3>6. f = ((Max({1, k}) - 1) \div t) * t
      BY <3>5 DEF LastSpread
    <3>7. f \in Nat /\ f < k /\ f + t >= k
      <4> HIDE DEF f, k, t
      <4>1. Max({1, k}) = k
        BY <3>5, MoreOfTwo
      <4> DEFINE j == k - 1
      <4>2. j \in Nat /\ k = j + 1 /\ f = (j \div t) * t
        BY <3>5, <3>6, <4>1
      <4> HIDE DEF j
      <4>3. CASE t = 1
        BY <4>2, <4>3
      <4>4. CASE t = 2
        <5>1. f = (j \div 2) * 2
          BY <4>2, <4>4
        <5> QED BY <4>2, <4>4, <5>1
      <4> QED BY <3>5, <4>3, <4>4
    <3>8. Steady(w) /\ w.page = f /\ w.active = c /\ w.layout = q.layout
      <4> HIDE DEF f
      <4> QED BY <3>3, <3>4, <3>7, SteadyOnPage DEF f
    <3>9. /\ End(w) = After(PageTable[w.active][w.layout][IF w.page + t <= k THEN w.page + t ELSE k])
          /\ After(PageTable[w.active][w.layout][k]) = ChapterEnd(w)
      BY <3>4, <3>8, ScreenIs
    <3>10. (IF w.page + t <= k THEN w.page + t ELSE k) = k
      <4> HIDE DEF f, k, t
      <4> QED BY <3>5, <3>7, <3>8
    <3> QED BY <2>1, <3>8, <3>9, <3>10 DEF EpubBackwards, c, w
  <2>4. CASE ~(v.active > 1)
    <3>1. v.active = 1 /\ w = v
      BY <1>2, <1>3, <2>2, <2>4
    <3> HIDE DEF w
    <3> QED BY <2>1, <3>1 DEF EpubBackwards, w
  <2> QED BY <2>3, <2>4
<1> QED BY <1>1, <1>4, <1>5

\* From the top of block b the first block that ends below is b, or one after
\* it with nothing to read between them.
LEMMA BlockAtTop ==
  ASSUME NEW c \in Chapters, NEW b \in BlocksOf(c)
  PROVE  LET f == BlockAt(Book[c], 1, Top(Book[c], 1, b))
         IN  f \in BlocksOf(c) /\ b <= f /\ \A i \in b..(f - 1) : Book[c][i].lines = 0
<1> DEFINE blocks == Book[c]
<1> DEFINE N == Len(blocks)
<1> DEFINE T(i) == Top(blocks, 1, i)
<1> DEFINE y == T(b)
<1> DEFINE below == {i \in 1..N : T(i) + Height(blocks[i], 1) > y}
<1> DEFINE f == BlockAt(blocks, 1, y)
<1>1. blocks \in Seq(Block) /\ blocks # << >> /\ N \in Nat /\ N >= 1 /\ BlocksOf(c) = 1..N
  BY BookIs DEF BlocksOf
<1>2. f = IF below # {} THEN Min(below) ELSE Max({1, N})
  BY DEF BlockAt
<1>3. \A i \in 1..N : /\ blocks[i].lines \in Nat /\ Height(blocks[i], 1) = blocks[i].lines /\ T(i) \in Nat
  <2>1. SUFFICES ASSUME NEW i \in 1..N
                 PROVE  blocks[i].lines \in Nat /\ Height(blocks[i], 1) = blocks[i].lines /\ T(i) \in Nat
    OBVIOUS
  <2>2. blocks[i].lines \in Nat
    <3>1. i \in BlocksOf(c)
      BY <1>1
    <3>2. Book[c][i] \in Block
      BY <3>1, BookIs
    <3> QED BY <3>2 DEF Block
  <2>3. i \in 1..(N + 1) /\ 1 \in Nat \ {0}
    BY <1>1
  <2> HIDE DEF N
  <2>4. T(i) \in Nat
    BY <1>1, <2>3, TopIs DEF N
  <2>5. Height(blocks[i], 1) = blocks[i].lines
    BY <2>2 DEF Height
  <2> QED BY <2>2, <2>4, <2>5
<1>4. \A i, e \in 1..N : i < e => T(e) >= T(i) + Height(blocks[i], 1)
  <2>1. SUFFICES ASSUME NEW i \in 1..N, NEW e \in 1..N, i < e
                 PROVE  T(e) >= T(i) + Height(blocks[i], 1)
    OBVIOUS
  <2>2. e \in (i + 1)..(N + 1) /\ 1 \in Nat \ {0}
    BY <1>1, <2>1
  <2>3. T(e) >= T(i) + Height(blocks[i], 1) + Gap
    BY <1>1, <2>2, TopGrows
  <2> HIDE DEF T, N
  <2> QED BY <1>3, <2>1, <2>3, GapAssumption
<1>5. below \in SUBSET (1..N) /\ \A i \in 1..N : i \in below <=> T(i) + Height(blocks[i], 1) > y
  OBVIOUS
<1>6. b \in 1..N
  BY <1>1
<1>7. y \in Nat /\ y = T(b)
  BY <1>3, <1>6
<1> HIDE DEF f, below, T, y, N, blocks
<1>8. \A i \in below : b <= i
  <2>1. SUFFICES ASSUME NEW i \in below, i < b PROVE FALSE
    BY <1>1, <1>5, <1>6
  <2>2. i \in 1..N /\ T(b) >= T(i) + Height(blocks[i], 1)
    BY <1>4, <1>5, <1>6, <2>1
  <2> QED BY <1>3, <1>5, <1>6, <1>7, <2>1, <2>2
<1>9. \A i \in b..N : i \notin below => blocks[i].lines = 0
  <2>1. SUFFICES ASSUME NEW i \in b..N, i \notin below PROVE blocks[i].lines = 0
    OBVIOUS
  <2>2. i \in 1..N /\ (i = b \/ b < i)
    BY <1>1, <1>6
  <2>3. T(i) >= y
    <3>1. CASE i = b
      BY <1>3, <1>6, <1>7, <3>1
    <3>2. CASE b < i
      BY <1>3, <1>4, <1>6, <1>7, <2>2, <3>2
    <3> QED BY <2>2, <3>1, <3>2
  <2> QED BY <1>3, <1>5, <1>7, <2>1, <2>2, <2>3
<1>10. /\ below # {} => f \in below /\ \A i \in below : f <= i
       /\ below = {} => f = N
  <2>1. below # {} => Min(below) \in below /\ \A i \in below : Min(below) <= i
    <3>1. below \in SUBSET Int /\ \A i \in below : 1 <= i
      BY <1>1, <1>5
    <3> QED BY <3>1, HasMin
  <2>2. Max({1, N}) = N
    BY <1>1, MoreOfTwo
  <2> QED BY <1>2, <2>1, <2>2
<1>11. f \in 1..N /\ b <= f
  <2>1. CASE below = {}
    BY <1>1, <1>6, <1>10, <2>1
  <2>2. CASE below # {}
    <3>1. f \in below
      BY <1>10, <2>2
    <3> QED BY <1>5, <1>8, <3>1
  <2> QED BY <2>1, <2>2
<1>12. \A i \in b..(f - 1) : blocks[i].lines = 0
  <2>1. SUFFICES ASSUME NEW i \in b..(f - 1) PROVE blocks[i].lines = 0
    OBVIOUS
  <2>2. i \in b..N /\ i < f
    BY <1>1, <1>6, <1>11
  <2>3. i \notin below
    BY <1>1, <1>5, <1>6, <1>10, <1>11, <2>2
  <2> QED BY <1>9, <2>2, <2>3
<1>13. f \in BlocksOf(c) /\ b <= f /\ \A i \in b..(f - 1) : Book[c][i].lines = 0
  BY <1>1, <1>11, <1>12 DEF blocks
<1>14. f = BlockAt(Book[c], 1, Top(Book[c], 1, b))
  BY DEF f, y, T, blocks
<1> QED BY <1>13, <1>14

\* A path leads to the end of its element.
LEMMA ElementEnd ==
  ASSUME NEW c \in Chapters, NEW f \in BlocksOf(c), Book[c][f].node # 0
  PROVE  LET s == Resolve(Book[c], Book[c][f].node)
         IN  s \in BlocksOf(c) /\ f <= s /\ \A j \in f..s : Book[c][j].node = Book[c][f].node
<1> DEFINE N == Len(Book[c])
<1> DEFINE k == Book[c][f].node
<1> DEFINE found == {i \in 1..N : k # 0 /\ Book[c][i].node = k}
<1> DEFINE s == Resolve(Book[c], k)
<1>1. N \in Nat /\ BlocksOf(c) = 1..N
  BY BookIs DEF BlocksOf
<1>2. s = IF found = {} THEN 1 ELSE Max(found)
  BY DEF Resolve
<1>3. f \in found /\ found \in SUBSET (1..N) /\ \A i \in found : Book[c][i].node = k
  BY <1>1
<1> HIDE DEF found, k, s, N
<1>4. s \in found /\ \A i \in found : i <= s
  <2>1. found \in SUBSET Int /\ found # {} /\ N \in Int /\ \A i \in found : i <= N
    BY <1>1, <1>3
  <2>2. Max(found) \in found /\ \A i \in found : i <= Max(found)
    BY <2>1, HasMax
  <2> QED BY <1>2, <2>1, <2>2
<1>5. s \in BlocksOf(c) /\ f <= s /\ Book[c][s].node = Book[c][f].node
  BY <1>1, <1>3, <1>4 DEF k
<1>6. \A j \in f..s : Book[c][j].node = Book[c][f].node
  BY <1>5, ElementAssumption
<1> QED BY <1>5, <1>6 DEF s, k

\* The pages there are, are those of the window, until the reader does
\* something.
Even(v) == \A c \in Chapters : v.cache[c] # None => v.cache[c] = v.layout
EpubEven == viewer # None /\ ~touched => Even(viewer)

LEMMA EvenRepaginated ==
  ASSUME NEW v, Typed(v), Even(v)
  PROVE  Even(Repaginated(v))
<1> DEFINE r == Repaginated(v)
<1>1. v \in Viewer /\ v.cache \in [Chapters -> Layouts \cup {None}] /\ v.active \in Chapters
  BY TypedIs DEF Viewer
<1>2. CASE ~Paginates(v)
  BY <1>2, RepaginatedIs
<1>3. CASE Paginates(v)
  <2>1. r.cache = [v.cache EXCEPT ![v.active] = v.layout] /\ r.layout = v.layout
    BY <1>1, <1>3, RepaginatedAs DEF Viewer
  <2> HIDE DEF r
  <2>2. \A c \in Chapters : r.cache[c] = IF c = v.active THEN v.layout ELSE v.cache[c]
    BY <1>1, <2>1
  <2> QED BY <2>1, <2>2 DEF Even, r
<1> QED BY <1>2, <1>3

LEMMA EvenStep ==
  ASSUME EpubInv, EpubEven, Next
  PROVE  EpubEven'
<1>1. SUFFICES ASSUME viewer' # None, touched' = FALSE PROVE Even(viewer')
  <2>1. touched' = FALSE \/ touched' = TRUE \/ viewer' = None
    BY EpubStep DEF EpubInv
  <2> QED BY <1>1, <2>1 DEF EpubEven, Even
<1>2. ~Acting
  BY <1>1 DEF Acting
<1>3. CASE Open
  BY <1>3 DEF Open, Fresh, Even
<1> DEFINE r == Repaginated(viewer)
<1>4. ASSUME viewer # None, touched = FALSE
      PROVE  /\ Typed(viewer) /\ Even(viewer) /\ Typed(r) /\ Even(r)
             /\ r \in Viewer
  <2>1. Typed(viewer)
    BY <1>4 DEF EpubInv, Sound
  <2> QED BY <1>4, <2>1, EvenRepaginated, RepaginatedIs, TypedIs DEF EpubEven
<1>5. CASE EpubLoaded
  <2>1. viewer' = EpubLoadedIn(r) /\ viewer # None /\ touched = FALSE
    BY <1>1, <1>5 DEF EpubLoaded, Arrived
  <2>2. viewer'.cache = r.cache /\ viewer'.layout = r.layout
    <3>1. r \in Viewer
      BY <1>4, <2>1
    <3> HIDE DEF r
    <3> QED BY <2>1, <3>1 DEF EpubLoadedIn, Viewer
  <2> QED BY <1>4, <2>1, <2>2 DEF Even
<1>6. CASE LoadFailed \/ Noop
  <2>1. viewer' = r /\ viewer # None /\ touched = FALSE
    BY <1>1, <1>6 DEF LoadFailed, Noop, Arrived, history
  <2> QED BY <1>4, <2>1
<1>7. CASE ReadingProgressLoaded
  <2>1. viewer' = ProgressLoadedIn(r, stored) /\ viewer # None /\ touched = FALSE
    BY <1>1, <1>7 DEF ReadingProgressLoaded, Arrived
  <2>2. viewer'.cache = r.cache /\ viewer'.layout = r.layout
    <3>1. r \in Viewer
      BY <1>4, <2>1
    <3> HIDE DEF r
    <3> QED BY <2>1, <3>1 DEF ProgressLoadedIn, Viewer
  <2> QED BY <1>4, <2>1, <2>2 DEF Even
<1>8. ASSUME NEW l \in Layouts, Draw(l) PROVE Even(viewer')
  <2>1. viewer # None /\ viewer' = [viewer EXCEPT !.layout = l] /\ viewer.layout = None
    BY <1>1, <1>8 DEF Draw
  <2>2. Typed(viewer)
    BY <2>1 DEF EpubInv, Sound
  <2>3. viewer'.cache = viewer.cache /\ \A c \in Chapters : viewer.cache[c] = None
    BY <2>1, <2>2 DEF Typed, Viewer
  <2> QED BY <2>3 DEF Even
<1>9. ASSUME NEW l \in Layouts, SetLayout(l) PROVE FALSE
  BY <1>2, <1>9 DEF SetLayout
<1>10. ASSUME NEW m \in Modes, SetViewMode(m) PROVE FALSE
  BY <1>2, <1>10 DEF SetViewMode
<1>11. ~Navigate
  BY <1>2 DEF Navigate, SelectChapter, FollowLink, SelectNavEntry, FollowFragment, PressArrow, Scrolled,
              NextPage, PreviousPage
<1>12. ~Search
  BY <1>2 DEF Search, SetSearchQuery, SearchMove, CloseSearch
<1>13. ~RequestClose /\ ~CloseAsIs
  BY <1>1 DEF RequestClose, CloseAsIs, CloseAt
<1> QED BY <1>3, <1>5, <1>6, <1>7, <1>8, <1>9, <1>10, <1>11, <1>12, <1>13 DEF Next

\* The first of the pages on the screen is the page of the viewer, as it is
\* after its next update.
LEMMA PageShown ==
  ASSUME NEW v, Sound(v), Even(v), Drawn(v)
  PROVE  LET r == Repaginated(v)
         IN  r.page < Len(Pages(r)) /\ Pages(r)[r.page + 1] \in ShownPages(v)
<1> DEFINE r == Repaginated(v)
<1> DEFINE T == PageTable[v.active][v.layout]
<1> DEFINE n == Len(T)
<1> DEFINE s == v.layout.step
<1> DEFINE page == IF v.pending # 0 THEN PageWith(T, v.pending)
                   ELSE IF v.cache[v.active] = v.layout THEN v.page ELSE Min({v.page, n - 1})
<1>1. /\ Typed(v) /\ v \in Viewer /\ v.active \in Chapters /\ v.layout \in Layouts /\ v.layout # None
      /\ v.page \in Nat /\ Paginates(v) /\ v.mode = "paginated"
      /\ v.cache \in [Chapters -> Layouts \cup {None}]
  BY TypedIs DEF Sound, Drawn, Paginates, Viewer
<1>2. n \in Nat /\ n >= 1 /\ \A b : PageWith(T, b) \in Nat /\ PageWith(T, b) < n
  BY <1>1, TableIs
<1>3. s \in {1, 2}
  <2>1. v.layout \in Layout
    BY <1>1, BookAssumption
  <2> QED BY <2>1 DEF Layout
<1>4. v.cache[v.active] = None \/ v.cache[v.active] = v.layout
  BY <1>1 DEF Even
<1>5. ShownTable(v) = T
  BY <1>1, <1>4 DEF ShownTable, ShownLayout, Cached
<1>6. v.cache[v.active] = v.layout /\ v.pending = 0 => v.page < n
  BY <1>1 DEF Sound, Cached, Pages
<1>7. r.page = page /\ r.active = v.active /\ r.cache[r.active] = v.layout
  <2>1. r = [v EXCEPT !.cache[v.active] = v.layout, !.pending = 0, !.page = page]
    BY <1>1, RepaginatedAs
  <2> HIDE DEF r, page
  <2>2. r.page = page /\ r.active = v.active /\ r.cache = [v.cache EXCEPT ![v.active] = v.layout]
    BY <1>1, <2>1 DEF Viewer
  <2> QED BY <1>1, <2>2
<1>8. Pages(r) = T
  BY <1>7 DEF Pages
<1>9. FirstShown(v) = 1 + (IF v.pending # 0 THEN PageWith(T, v.pending) ELSE Min({v.page, n - 1}))
  BY <1>5 DEF FirstShown
<1>10. LastShown(v) = Min({FirstShown(v) + s - 1, n})
  BY <1>5 DEF LastShown
<1> DEFINE first == FirstShown(v)
<1> DEFINE last == LastShown(v)
<1>11. Min({v.page, n - 1}) = IF v.page <= n - 1 THEN v.page ELSE n - 1
  <2> HIDE DEF n
  <2> QED BY <1>1, <1>2, LessOfTwo
<1>12. page \in Nat /\ page < n /\ first = page + 1
  <2> HIDE DEF T, n
  <2>1. CASE v.pending # 0
    BY <1>2, <1>9, <2>1
  <2>2. CASE v.pending = 0
    BY <1>1, <1>2, <1>6, <1>9, <1>11, <2>2
  <2> QED BY <2>1, <2>2
<1>13. first <= last
  <2> HIDE DEF first, page, n, s
  <2>1. first \in Nat /\ first >= 1 /\ first <= n
    BY <1>2, <1>12
  <2>2. Min({first + s - 1, n}) = IF first + s - 1 <= n THEN first + s - 1 ELSE n
    BY <1>2, <1>3, <2>1, LessOfTwo
  <2>3. LastShown(v) = Min({first + s - 1, n})
    BY <1>10 DEF first
  <2> QED BY <1>2, <1>3, <2>1, <2>2, <2>3
<1>14. last \in Nat
  <2> HIDE DEF first, page, n, s
  <2>1. first + s - 1 \in Nat
    BY <1>3, <1>12
  <2>2. Min({first + s - 1, n}) \in Nat
    BY <1>2, <2>1, LessOfTwo
  <2> QED BY <1>10, <2>2 DEF first
<1>15. first \in first..last
  BY <1>12, <1>13, <1>14
<1>16. T[first] \in ShownPages(v)
  BY <1>5, <1>15 DEF ShownPages
<1> QED BY <1>7, <1>8, <1>12, <1>16

\* What is stored when a viewer at position pos is closed.
LEMMA ClosedAt ==
  ASSUME NEW v, Sound(v), Settled(v), v.loaded > 0, NEW pos \in Positions, pos # None,
         pos.chapter <= Spine, AtOrigin(v, pos)
  PROVE  LET q == CurrentProgress(v)
             blocks == Book[v.active]
             b == Resolve(blocks, pos.node)
             s == Resolve(blocks, q.node)
             page == Pages(v)[v.page + 1]
         IN  /\ q # None /\ q.chapter = pos.chapter
             /\ q.node # 0 =>
                   /\ \A i \in b..s : blocks[i].lines > 0 => blocks[i].node = q.node
                   /\ s < b => v.mode = "paginated" /\ Holds(page, s) /\ Holds(page, b)
<1> DEFINE c == v.active
<1> DEFINE blocks == Book[c]
<1> DEFINE q == CurrentProgress(v)
<1> DEFINE b == Resolve(blocks, pos.node)
<1> DEFINE s == Resolve(blocks, q.node)
<1> DEFINE f == FirstBlock(v)
<1> DEFINE page == Pages(v)[v.page + 1]
<1>1. Typed(v) /\ c \in Chapters /\ Blocks(v) = blocks /\ v.page \in Nat /\ v.mode \in Modes
  BY TypedIs DEF Sound
<1>2. c = pos.chapter
  BY DEF AtOrigin
<1>3. /\ b \in BlocksOf(c) /\ BlocksOf(c) = 1..Len(blocks) /\ Len(blocks) \in Nat
      /\ \A i \in BlocksOf(c) : blocks[i] \in Block /\ blocks[i].node \in Nodes
  BY <1>1, ResolveInBook, BookIs DEF BlocksOf
<1>4. q = [chapter |-> c, node |-> blocks[f].node]
  BY <1>1 DEF CurrentProgress
<1>5. q.chapter = pos.chapter /\ q.node = blocks[f].node
  BY <1>2, <1>4
<1>6. /\ v.mode = "scroll" => f \in BlocksOf(c) /\ b <= f /\ \A i \in b..(f - 1) : blocks[i].lines = 0
      /\ v.mode # "scroll" => f \in BlocksOf(c) /\ f <= b /\ page.start = f /\ b < page.end /\ page.end \in Nat
  <2>1. CASE v.mode = "scroll"
    <3>1. v.y = Top(Book[pos.chapter], 1, Resolve(Book[pos.chapter], pos.node))
      BY <2>1 DEF AtOrigin
    <3>2. f = BlockAt(Book[c], 1, v.y)
      BY <1>1, <2>1 DEF FirstBlock
    <3> HIDE DEF f
    <3> QED BY <1>1, <1>2, <1>3, <2>1, <3>1, <3>2, BlockAtTop
  <2>2. CASE v.mode # "scroll"
    <3>1. v.mode = "paginated" /\ Cached(v, c) /\ v.pending = 0 /\ v.page < Len(Pages(v))
      BY <1>1, <2>2 DEF Settled, Sound, Modes
    <3>2. f = page.start
      BY <2>2, <3>1 DEF FirstBlock
    <3>3. Heads(v, b)
      BY <1>2, <3>1 DEF AtOrigin
    <3>4. Holds(page, b)
      <4>1. v.page = PageWith(Pages(v), b)
        <5>1. b \in Nat \ {0}
          BY <1>3
        <5> HIDE DEF b
        <5> QED BY <1>1, <3>1, <3>3, <5>1, PagesOfSound DEF Heads
      <4> QED BY <1>1, <1>3, <3>1, <4>1, PagesOfSound
    <3>5. page.start \in BlocksOf(c) /\ page.end \in Nat
      <4> DEFINE l == v.cache[c]
      <4> DEFINE pages == Paginate(blocks, l)
      <4>1. l \in Layouts
        BY <1>1, <3>1, TypedIs DEF Cached
      <4>2. Pages(v) = pages /\ IsChapter(blocks, l)
        BY <1>1, <4>1, TableIs, BookIs DEF Pages
      <4>3. /\ Len(pages) \in Nat
            /\ \A k \in 1..Len(pages) : pages[k].start \in 1..Len(blocks) /\ pages[k].end \in 2..(Len(blocks) + 1)
        BY <4>2, PagesAre
      <4>4. v.page + 1 \in 1..Len(pages)
        BY <1>1, <3>1, <4>2, <4>3
      <4>5. page.start \in 1..Len(blocks) /\ page.end \in 2..(Len(blocks) + 1)
        BY <4>2, <4>3, <4>4
      <4> QED BY <1>3, <4>5
    <3> QED BY <2>2, <3>2, <3>4, <3>5 DEF Holds
  <2> QED BY <2>1, <2>2
<1>7. q # None
  <2>1. blocks[f].node \in Nodes
    BY <1>3, <1>6
  <2>2. q \in Positions
    BY <1>1, <1>4, <2>1 DEF Positions
  <2> QED BY <2>2, BoundAssumption
<1>8. ASSUME q.node # 0
      PROVE  /\ \A i \in b..s : blocks[i].lines > 0 => blocks[i].node = q.node
             /\ s < b => v.mode = "paginated" /\ Holds(page, s) /\ Holds(page, b)
  <2>1. f \in BlocksOf(c)
    BY <1>6
  <2>2. s \in BlocksOf(c) /\ f <= s /\ \A j \in f..s : blocks[j].node = q.node
    <3> HIDE DEF f, q
    <3> QED BY <1>1, <1>5, <1>8, <2>1, ElementEnd
  <2> HIDE DEF b, f, s, q, page, blocks, c
  <2>3. b \in Nat /\ f \in Nat /\ s \in Nat
    BY <1>3, <2>1, <2>2
  <2>4. \A i \in b..s : blocks[i].lines > 0 => blocks[i].node = q.node
    <3>1. SUFFICES ASSUME NEW i \in b..s, blocks[i].lines > 0 PROVE blocks[i].node = q.node
      OBVIOUS
    <3>2. f <= i
      <4>1. CASE v.mode = "scroll"
        <5>1. ~(i \in b..(f - 1))
          <6>1. i \in b..(f - 1) => blocks[i].lines = 0
            BY <1>6, <4>1
          <6> QED BY <3>1, <6>1
        <5> QED BY <2>3, <5>1
      <4>2. CASE v.mode # "scroll"
        BY <1>6, <2>3, <4>2
      <4> QED BY <4>1, <4>2
    <3>3. i \in f..s
      BY <2>3, <3>2
    <3> QED BY <2>2, <3>3
  <2>5. ASSUME s < b PROVE v.mode = "paginated" /\ Holds(page, s) /\ Holds(page, b)
    <3>1. v.mode # "scroll"
      BY <1>6, <2>2, <2>3, <2>5
    <3>2. f <= b /\ page.start = f /\ b < page.end
      BY <1>6, <3>1
    <3>3. s < page.end
      BY <1>6, <2>3, <2>5, <3>1, <3>2
    <3> QED BY <1>1, <2>2, <3>1, <3>2, <3>3 DEF Holds, Modes
  <2> QED BY <2>4, <2>5
<1> QED BY <1>5, <1>7, <1>8

(***************************************************************************)
(* A document in one of the two.                                           *)
(***************************************************************************)
\* A document in one viewer is what that viewer's invariant says; the other
\* one is not there.
ViewersInv ==
    /\ chosen \in {"epub", "mupdf"}
    /\ chosen = "epub" => EpubInv /\ pdf = None
    /\ chosen = "mupdf" => PdfInv /\ viewer = None

\* Whatever the tasks of a viewer bring and the user does, it stays so.
THEOREM ViewersInvariant == ViewersSpec => []ViewersInv
<1>1. ViewersInit => ViewersInv
  <2>1. ASSUME ViewersInit PROVE ViewersInv
    <3>1. Init /\ Pdf!Init /\ chosen \in {"epub", "mupdf"}
      BY <2>1 DEF ViewersInit
    <3>2. pdf = None /\ viewer = None
      BY <3>1 DEF Init, Pdf!Init
    <3> QED BY <3>1, <3>2, EpubInitInv, PdfInitInv DEF ViewersInv
  <2> QED BY <2>1
<1>2. ViewersInv /\ [ViewersNext]_<<vars, pdfState, chosen>> => ViewersInv'
  <2>1. ASSUME ViewersInv, chosen = "epub", Next, UNCHANGED <<chosen, pdfState>> PROVE ViewersInv'
    <3>1. EpubInv' /\ pdf' = None
      BY <2>1, EpubStep DEF ViewersInv, pdfState
    <3> QED BY <2>1, <3>1 DEF ViewersInv
  <2>2. ASSUME ViewersInv, chosen = "mupdf", Pdf!Next, UNCHANGED <<chosen, epubState>> PROVE ViewersInv'
    <3>1. PdfInv' /\ viewer' = None
      BY <2>2, PdfStep DEF ViewersInv, epubState
    <3> QED BY <2>2, <3>1 DEF ViewersInv
  <2>3. ASSUME ViewersInv, UNCHANGED <<vars, pdfState, chosen>> PROVE ViewersInv'
    <3>1. /\ UNCHANGED <<viewer, awaited, stored, mode, opens, acts, origin, touched, target>>
          /\ UNCHANGED <<pdf, place, size, reads, streams, renders, mixed, resized, hasty, chosen>>
      BY <2>3 DEF vars, bounds, history, pdfState
    <3>2. chosen = "epub" => EpubInv'
      BY <2>3, <3>1, EpubStutter DEF ViewersInv
    <3>3. PdfInv => PdfInv'
      BY <3>1 DEF PdfInv, PdfTyped, PdfSound
    <3> QED BY <2>3, <3>1, <3>2, <3>3 DEF ViewersInv
  <2>4. ViewersNext => \/ chosen = "epub" /\ Next /\ UNCHANGED <<chosen, pdfState>>
                       \/ chosen = "mupdf" /\ Pdf!Next /\ UNCHANGED <<chosen, epubState>>
    BY DEF ViewersNext
  <2> QED BY <2>1, <2>2, <2>3, <2>4
<1> QED BY <1>1, <1>2, PTL DEF ViewersSpec

\* What it means for the reader of either viewer.
LEMMA ViewersInvMeans ==
  ASSUME ViewersInv
  PROVE  PagesReadAsWhole /\ OnScreen /\ PlaceRestored
<1>1. CASE chosen = "epub"
  <2>1. PagesReadAsWhole /\ TargetShown /\ Restored
    BY <1>1, EpubInvMeans DEF ViewersInv
  <2>2. Pdf!PicturesShown /\ Pdf!Restored
    BY <1>1 DEF ViewersInv, Pdf!PicturesShown, Pdf!Restored, Pdf!Complete
  <2> QED BY <2>1, <2>2 DEF OnScreen, PlaceRestored
<1>2. CASE chosen = "mupdf"
  <2>1. Pdf!PicturesShown /\ Pdf!Restored
    BY <1>2, PdfInvMeans DEF ViewersInv
  <2>2. PagesReadAsWhole /\ TargetShown /\ Restored
    BY <1>2 DEF ViewersInv, PagesReadAsWhole, TargetShown, Restored
  <2> QED BY <2>1, <2>2 DEF OnScreen, PlaceRestored
<1> QED BY <1>1, <1>2 DEF ViewersInv

\* Whatever the order of drawing, resizing and turning, the cached pages of
\* every chapter (maybe_repaginate) are the chapter.
THEOREM PagesAreWhole == ViewersSpec => []PagesReadAsWhole
BY ViewersInvariant, ViewersInvMeans, PTL

\* What was asked for is on the screen: the block of a bookmark, link or match
\* in the EPUB viewer, and on each visible page of the MuPDF viewer a picture
\* in the colours of the theme.
THEOREM ShownOnScreen == ViewersSpec => []OnScreen
BY ViewersInvariant, ViewersInvMeans, PTL

\* The chapters and the stored position, or the pages and the stored page, may
\* come in any order: a reader who has done nothing yet is back at the place.
THEOREM ReaderIsBack == ViewersSpec => []PlaceRestored
BY ViewersInvariant, ViewersInvMeans, PTL

(***************************************************************************)
(* Closing and turning, in either viewer.                                  *)
(***************************************************************************)
LEMMA EpubTurning ==
  ASSUME EpubInv
  PROVE  TurnedInOrder
<1> SUFFICES ASSUME viewer # None, Drawn(viewer), viewer.pending = 0, viewer.cache[viewer.active] = viewer.layout
             PROVE  /\ NextPage => EpubForwards(viewer, viewer')
                    /\ PreviousPage => EpubBackwards(viewer, viewer')
  BY DEF TurnedInOrder, EpubForwards, EpubBackwards
<1>1. Steady(viewer)
  BY DEF EpubInv, Sound, Drawn, Cached, Pages, Steady
<1>2. NextPage => viewer' = NextPageOf(viewer)
  BY DEF NextPage, Become
<1>3. PreviousPage => viewer' = PreviousPageOf(viewer)
  BY DEF PreviousPage, Become
<1> QED BY <1>1, <1>2, <1>3, NextPageInOrder, PreviousPageInOrder

LEMMA PdfTurning ==
  ASSUME PdfInv, PdfPlaced
  PROVE  Pdf!TurnedInOrder
<1> SUFFICES ASSUME pdf # None, pdf.pages # << >>, ~Pdf!Stuck(pdf)
             PROVE  /\ Pdf!NextPage => PdfForwards
                    /\ Pdf!PreviousPage => PdfBackwards
  BY PdfMin, PdfMax DEF Pdf!TurnedInOrder, PdfForwards, PdfBackwards
<1> QED BY PdfNextInOrder, PdfPreviousInOrder

LEMMA PdfClosing ==
  ASSUME PdfInv, PdfPlaced
  PROVE  Pdf!ClosedInPlace
<1> SUFFICES ASSUME Pdf!Close, ~touched, Pdf!Complete \/ pdf.pages = << >>, origin # None
             PROVE  place' = origin \/ (Pdf!Complete /\ origin >= Pdf!Length(pdf))
  BY DEF Pdf!ClosedInPlace
<1>1. /\ pdf # None /\ pdf \in PdfState /\ place = origin
      /\ place' = IF Pdf!CurrentProgress(pdf) = None THEN place ELSE Pdf!CurrentProgress(pdf)
      /\ origin \in Nat /\ Len(pdf.pages) \in Nat /\ Pdf!Length(pdf) = Len(pdf.pages)
  <2>1. PdfTyped /\ pdf # None
    BY DEF PdfInv, Pdf!Close
  <2>2. pdf \in PdfState
    BY <2>1 DEF PdfTyped
  <2> QED BY <2>1, <2>2, PdfStateIs DEF PdfTyped, PdfPlaced, Pdf!Close
<1>2. CASE pdf.pages = << >>
  BY <1>1, <1>2 DEF Pdf!CurrentProgress
<1>3. CASE pdf.pages # << >>
  <2>1. Pdf!CurrentProgress(pdf) = pdf.active /\ Pdf!Complete
    BY <1>3 DEF Pdf!CurrentProgress
  <2>2. origin < Len(pdf.pages) => pdf.active = origin
    BY <1>1, <2>1, PdfInvMeans DEF Pdf!Restored
  <2>3. CASE origin < Len(pdf.pages)
    BY <1>1, <2>1, <2>2, <2>3
  <2>4. CASE ~(origin < Len(pdf.pages))
    BY <1>1, <2>1, <2>4
  <2> QED BY <2>3, <2>4
<1> QED BY <1>2, <1>3

LEMMA EpubClosing ==
  ASSUME EpubInv, EpubEven
  PROVE  ClosedInPlace
<1> DEFINE r == Repaginated(viewer)
<1> SUFFICES ASSUME \/ RequestClose /\ Settled(r)
                    \/ CloseAsIs /\ Settled(viewer),
                    ~touched, awaited = {}, viewer.loaded > 0, origin # None, origin.chapter <= Spine
             PROVE  /\ stored'.chapter = origin.chapter
                    /\ stored'.node # 0 =>
                          LET blocks == Blocks(viewer)
                              b == Resolve(blocks, origin.node)
                              s == Resolve(blocks, stored'.node)
                          IN  /\ \A i \in b..s : blocks[i].lines > 0 => blocks[i].node = stored'.node
                              /\ s < b => /\ viewer.mode = "paginated"
                                          /\ \E p \in ShownPages(viewer) : Holds(p, s) /\ Holds(p, b)
  BY DEF ClosedInPlace
<1>1. viewer # None
  BY DEF RequestClose, CloseAsIs
<1>2. Sound(viewer) /\ Typed(viewer) /\ Even(viewer) /\ origin \in Positions
  BY <1>1 DEF EpubInv, EpubEven, Sound
<1>3. AtOrigin(viewer, origin)
  BY <1>1 DEF EpubInv
<1>4. /\ Sound(r) /\ r.loaded = viewer.loaded /\ r.active = viewer.active /\ r.mode = viewer.mode
      /\ r.y = viewer.y /\ r.layout = viewer.layout
      /\ \A b \in BlocksOf(viewer.active) : viewer.mode = "paginated" /\ Heads(viewer, b) => Heads(r, b)
  BY <1>2, RepaginatedIs
<1>5. AtOrigin(r, origin)
  <2>1. Resolve(Book[origin.chapter], origin.node) \in BlocksOf(origin.chapter)
    <3>1. origin.chapter \in Chapters
      BY <1>2 DEF Positions
    <3> QED BY <3>1, ResolveInBook
  <2> HIDE DEF r
  <2> QED BY <1>3, <1>4, <2>1 DEF AtOrigin
<1>6. PICK v \in {viewer, r} : Settled(v) /\ stored' = IF CurrentProgress(v) = None THEN stored ELSE CurrentProgress(v)
  BY DEF RequestClose, CloseAsIs, CloseAt
<1>7. Sound(v) /\ v.loaded > 0 /\ AtOrigin(v, origin) /\ v.active = viewer.active /\ v.mode = viewer.mode
      /\ v.layout = viewer.layout
  BY <1>2, <1>3, <1>4, <1>5, <1>6
<1>8. v.mode = "paginated" => Pages(v)[v.page + 1] \in ShownPages(viewer)
  <2>1. SUFFICES ASSUME v.mode = "paginated" PROVE Pages(v)[v.page + 1] \in ShownPages(viewer)
    OBVIOUS
  <2>2. Cached(v, v.active) /\ v.pending = 0
    BY <1>6, <2>1 DEF Settled
  <2>3. Drawn(viewer)
    <3>1. Typed(v)
      BY <1>7 DEF Sound
    <3>2. v.layout # None
      BY <2>2, <3>1, PagesOfSound
    <3> QED BY <1>7, <2>1, <3>2 DEF Drawn
  <2>4. Pages(r)[r.page + 1] \in ShownPages(viewer)
    BY <1>2, <2>3, PageShown
  <2>5. CASE v = viewer
    <3>1. Steady(viewer)
      <4>1. viewer.active \in Chapters
        BY <1>2, TypedIs
      <4>2. viewer.cache[viewer.active] = viewer.layout
        BY <1>2, <2>2, <2>5, <4>1 DEF Even, Cached
      <4>3. viewer.page < Len(Pages(viewer))
        BY <1>2, <2>1, <2>2, <2>5 DEF Sound
      <4> QED BY <1>2, <2>2, <2>3, <2>5, <4>2, <4>3 DEF Steady, Pages
    <3> QED BY <2>4, <2>5, <3>1, SteadyStays
  <2>6. CASE v = r
    BY <2>4, <2>6
  <2> QED BY <1>6, <2>5, <2>6
<1> HIDE DEF r
<1> DEFINE blocks == Book[v.active]
<1> DEFINE q == CurrentProgress(v)
<1> DEFINE b == Resolve(blocks, origin.node)
<1> DEFINE s == Resolve(blocks, q.node)
<1> DEFINE page == Pages(v)[v.page + 1]
<1>9. /\ q # None /\ q.chapter = origin.chapter
      /\ q.node # 0 =>
            /\ \A i \in b..s : blocks[i].lines > 0 => blocks[i].node = q.node
            /\ s < b => v.mode = "paginated" /\ Holds(page, s) /\ Holds(page, b)
  BY <1>2, <1>6, <1>7, ClosedAt
<1>10. stored' = q /\ Blocks(viewer) = blocks
  BY <1>6, <1>7, <1>9 DEF Blocks
<1> QED BY <1>7, <1>8, <1>9, <1>10

\* What is true of either viewer besides.
ViewersKept == ViewersInv /\ EpubEven /\ PdfPlaced

LEMMA Kept == ViewersSpec => []ViewersKept
<1>1. ViewersInit => EpubEven /\ PdfPlaced
  BY DEF ViewersInit, Init, Pdf!Init, EpubEven, PdfPlaced
<1>2. ViewersInv /\ ViewersInv' /\ EpubEven /\ PdfPlaced /\ [ViewersNext]_<<vars, pdfState, chosen>>
        => EpubEven' /\ PdfPlaced'
  <2> SUFFICES ASSUME ViewersInv, ViewersInv', EpubEven, PdfPlaced, [ViewersNext]_<<vars, pdfState, chosen>>
               PROVE  EpubEven' /\ PdfPlaced'
    OBVIOUS
  <2>1. CASE chosen = "epub" /\ Next /\ UNCHANGED <<chosen, pdfState>>
    <3>1. EpubEven'
      BY <2>1, EvenStep DEF ViewersInv
    <3>2. pdf' = None
      BY <2>1 DEF ViewersInv
    <3> QED BY <3>1, <3>2 DEF PdfPlaced
  <2>2. CASE chosen = "mupdf" /\ Pdf!Next /\ UNCHANGED <<chosen, epubState>>
    <3>1. PdfPlaced'
      BY <2>2, PdfPlacedStep DEF ViewersInv
    <3>2. viewer' = None
      BY <2>2 DEF ViewersInv
    <3> QED BY <3>1, <3>2 DEF EpubEven
  <2>3. CASE UNCHANGED <<vars, pdfState, chosen>>
    <3>1. UNCHANGED <<viewer, touched, pdf, place, origin>>
      BY <2>3 DEF vars, history, pdfState
    <3> QED BY <3>1 DEF EpubEven, Even, PdfPlaced
  <2> QED BY <2>1, <2>2, <2>3 DEF ViewersNext
<1> QED BY <1>1, <1>2, ViewersInvariant, PTL DEF ViewersSpec, ViewersKept

\* In every step of either viewer.
LEMMA StepsInOrder ==
  ASSUME ViewersKept
  PROVE  ClosedInPlace /\ Pdf!ClosedInPlace /\ TurnedInOrder /\ Pdf!TurnedInOrder
<1>1. CASE chosen = "epub"
  <2>1. ClosedInPlace /\ TurnedInOrder
    BY <1>1, EpubClosing, EpubTurning DEF ViewersKept, ViewersInv
  <2>2. pdf = None
    BY <1>1 DEF ViewersKept, ViewersInv
  <2>3. Pdf!ClosedInPlace /\ Pdf!TurnedInOrder
    BY <2>2 DEF Pdf!ClosedInPlace, Pdf!TurnedInOrder, Pdf!Close
  <2> QED BY <2>1, <2>3
<1>2. CASE chosen = "mupdf"
  <2>1. Pdf!ClosedInPlace /\ Pdf!TurnedInOrder
    BY <1>2, PdfClosing, PdfTurning DEF ViewersKept, ViewersInv
  <2>2. viewer = None
    BY <1>2 DEF ViewersKept, ViewersInv
  <2>3. ClosedInPlace /\ TurnedInOrder
    BY <2>2 DEF ClosedInPlace, TurnedInOrder, RequestClose, CloseAsIs
  <2> QED BY <2>1, <2>3
<1> QED BY <1>1, <1>2 DEF ViewersKept, ViewersInv

\* A document that is opened and closed again, unread, is stored where it was:
\* in the EPUB viewer nothing there is to read is passed over, and nobody is
\* taken back further than to the top of the page (current_progress); in the
\* MuPDF viewer it is the same page.
THEOREM PlacesAreKept == ViewersSpec => ClosingKeepsPlaces
<1>1. ViewersKept /\ [ViewersNext]_<<vars, pdfState, chosen>> => [ClosedInPlace]_vars /\ [Pdf!ClosedInPlace]_(Pdf!vars)
  BY StepsInOrder
<1> QED BY <1>1, Kept, PTL DEF ViewersSpec, ClosingKeepsPlaces, ClosingKeepsPlace, Pdf!ClosingKeepsPlace

\* A page turned forwards goes on where the one before ended, and backwards
\* shows what was before, in chapters of pages (NextPage, PreviousPage) and in
\* spreads of MuPDF pages, also from chapter to chapter.
THEOREM PagesAreTurned == ViewersSpec => TurningInOrder
<1>1. ViewersKept /\ [ViewersNext]_<<vars, pdfState, chosen>> => [TurnedInOrder]_vars /\ [Pdf!TurnedInOrder]_(Pdf!vars)
  BY StepsInOrder
<1> QED BY <1>1, Kept, PTL DEF ViewersSpec, TurningInOrder, TurningSkipsNothing, Pdf!TurningSkipsNothing

(***************************************************************************)
(* The reading progress.                                                   *)
(*                                                                         *)
(* That a source keeps the newest of what reached it is inductive by       *)
(* itself.  That switching viewers resumes at the last spot is not: it     *)
(* needs to know what is on its way to the sources and what an open viewer *)
(* has read (Turns).                                                       *)
(***************************************************************************)

\* No failure, no overlap, growing stamps.
Good == failures = 0 /\ orderly /\ spaced

\* What is on its way to a source, what the sources hold and what a viewer
\* knows, as long as nothing went wrong.
Turns ==
    \* A save in flight carries the last positions and will be taken.
    /\ \A m \in net \cap Saved : m.position = newest /\ row[m.to].stamp < m.stamp
    \* It is the only one, and no status edit is in flight with it.
    /\ \A m, n \in net \cap Saved : m.to = n.to => m = n
    /\ net \cap Saved = {} \/ net \cap Edited = {}
    \* A source that waits for nothing has the last positions.
    /\ \A s \in Sources : (\A m \in net \cap Saved : m.to # s) => row[s].position = newest
    \* A viewer that is still asking finds the sources at rest, and knows the
    \* last positions once one of them has answered.
    /\ \A v \in Viewers : phase[v] = "open" =>
           /\ asked[v] # {} => net = {}
           /\ asked[v] # Sources => best[v].position = newest

IInv ==
    /\ ProgressTypeOK
    /\ LastWriterWins
    /\ \A s \in Sources : row[s].stamp = 0 => reached[s] = {} /\ row[s].position = NoPosition
    /\ \A m \in net \cap Saved : m.stamp > 0
    /\ \A v \in Viewers : phase[v] = "closed" => best[v] = NoRow
    /\ \A v \in Viewers : asked[v] = Sources => best[v] = NoRow
    /\ Good => Turns

USE ViewersAssumption, BoundsAssumption, ChoicesAssumption

-----------------------------------------------------------------------------
\* What the operators return.

\* Every stamp is later than that of a missing row.
LEMMA StampType ==
    ASSUME ProgressTypeOK
    PROVE  /\ WholeSecond \in Nat /\ WholeSecond > 0
           /\ \A v \in Viewers : StampOf(v) \in Nat /\ StampOf(v) > 0
<1>1. now \in Nat
  BY DEF ProgressTypeOK
<1>2. now \div 2 \in Nat /\ now % 2 \in Nat
  BY <1>1
<1> QED
  BY <1>2 DEF WholeSecond, Millisecond, StampOf, Second

\* A source's row keeps its type under a save, which raises its status by at
\* most one and is refused unless it is newer.
LEMMA UpsertEffect ==
    ASSUME NEW old \in Rows, NEW m \in Saved
    PROVE  /\ Upsert(old, m) \in Rows
           /\ Upsert(old, m).status \in {old.status, old.status + 1}
           /\ m.stamp > old.stamp => /\ Upsert(old, m).stamp = m.stamp
                                     /\ Upsert(old, m).position = m.position
           /\ ~(m.stamp > old.stamp) => Upsert(old, m) = old
<1>1. old.status \in 0..2 /\ old.stamp \in Nat /\ m.stamp \in Nat /\ m.position \in ProgressPositions
  BY DEF Rows, Saved, Unread, Read
<1> QED
  BY <1>1 DEF Upsert, Rows, Unread, Reading, Read

\* So does a status set by hand, which leaves the position alone.
LEMMA SetStatusEffect ==
    ASSUME ProgressTypeOK, NEW old \in Rows, NEW m \in Edited
    PROVE  /\ SetStatus(old, m) \in Rows
           /\ SetStatus(old, m).position = old.position
           /\ SetStatus(old, m).stamp = IF old.stamp = 0 THEN WholeSecond ELSE old.stamp
  BY StampType DEF SetStatus, Rows, Edited, Unread, Read

\* What a viewer sends is a position, with its own spot in its own format.
LEMMA MergeEffect ==
    ASSUME ProgressTypeOK, NEW v \in Viewers, NEW position \in ProgressPositions
    PROVE  /\ Merge(v, position) \in ProgressPositions
           /\ Merge(v, position) = [position EXCEPT ![FormatOf(v)] = saves + 1]
  BY DEF Merge, ProgressPositions, ProgressTypeOK, FormatOf, Formats

\* The two kinds of writes are told apart.
LEMMA Kinds == Saved \cap Edited = {}
<1> SUFFICES ASSUME NEW m \in Saved, m \in Edited
             PROVE  FALSE
  OBVIOUS
<1>1. "from" \in DOMAIN m
  BY DEF Saved
<1>2. "from" \notin DOMAIN m
  BY DEF Edited
<1> QED
  BY <1>1, <1>2

-----------------------------------------------------------------------------
\* The steps, one lemma each where the sources or the writes change.

\* A save arrives.
LEMMA DeliverSaveStep ==
    ASSUME IInv, NEW m \in net, DeliverSave(m)
    PROVE  IInv'
<1> USE DEF IInv, viewers, progressHistory
<1>1. m \in Saved /\ m.to \in Sources /\ m.stamp \in Nat /\ m.position \in ProgressPositions
  BY DEF DeliverSave, Saved
<1>2. row[m.to] \in Rows /\ row[m.to].stamp \in Nat
  BY <1>1 DEF ProgressTypeOK, Rows
<1>3. /\ row'[m.to] = Upsert(row[m.to], m) /\ row'[m.to] \in Rows
      /\ row' \in [Sources -> Rows]
      /\ \A s \in Sources \ {m.to} : row'[s] = row[s]
  BY <1>1, <1>2, UpsertEffect DEF DeliverSave, ProgressTypeOK
<1>4. /\ reached'[m.to] = reached[m.to] \cup {[position |-> m.position, stamp |-> m.stamp]}
      /\ reached' \in [Sources -> SUBSET [position : ProgressPositions, stamp : Nat]]
      /\ \A s \in Sources \ {m.to} : reached'[s] = reached[s]
  BY <1>1 DEF DeliverSave, ProgressTypeOK
<1>5. net' = net \ {m} /\ UNCHANGED <<now, viewers, progressHistory>>
  BY DEF DeliverSave
<1>6. ProgressTypeOK'
  BY <1>3, <1>4, <1>5 DEF ProgressTypeOK
<1>7. LastWriterWins'
  <2>1. ASSUME NEW s \in Sources, row'[s].stamp > 0, s = m.to
        PROVE  /\ [position |-> row'[s].position, stamp |-> row'[s].stamp] \in reached'[s]
               /\ \A r \in reached'[s] : r.stamp <= row'[s].stamp
    <3>0. \A r \in reached[s] : r.stamp \in Nat
      BY DEF ProgressTypeOK
    <3>1. CASE m.stamp > row[s].stamp
      <4>1. row'[s].stamp = m.stamp /\ row'[s].position = m.position
        BY <1>1, <1>2, <1>3, <2>1, <3>1, UpsertEffect
      <4>2. \A r \in reached[s] : r.stamp <= m.stamp
        <5>1. CASE row[s].stamp > 0
          <6>1. \A r \in reached[s] : r.stamp <= row[s].stamp
            BY <5>1 DEF LastWriterWins
          <6> QED
            BY <1>1, <1>2, <2>1, <3>0, <3>1, <6>1
        <5>2. CASE row[s].stamp = 0
          BY <5>2
        <5> QED
          BY <1>2, <2>1, <5>1, <5>2
      <4> QED
        BY <1>1, <1>4, <2>1, <4>1, <4>2
    <3>2. CASE ~(m.stamp > row[s].stamp)
      <4>1. row'[s] = row[s] /\ m.stamp <= row[s].stamp /\ row[s].stamp > 0
        BY <1>1, <1>2, <1>3, <2>1, <3>2, UpsertEffect
      <4> QED
        BY <1>4, <2>1, <4>1 DEF LastWriterWins
    <3> QED
      BY <3>1, <3>2
  <2>2. ASSUME NEW s \in Sources, row'[s].stamp > 0, s # m.to
        PROVE  /\ [position |-> row'[s].position, stamp |-> row'[s].stamp] \in reached'[s]
               /\ \A r \in reached'[s] : r.stamp <= row'[s].stamp
    BY <1>3, <1>4, <2>2 DEF LastWriterWins
  <2> QED
    BY <2>1, <2>2 DEF LastWriterWins
<1>8. ASSUME Good'
      PROVE  Turns'
  <2>1. Turns
    BY <1>5, <1>8 DEF Good
  <2>2. row'[m.to].position = newest
    BY <1>1, <1>2, <1>3, <2>1, UpsertEffect DEF Turns
  <2>3. \A n \in net' \cap Saved : n.to # m.to /\ n.to \in Sources
    BY <1>1, <1>5, <2>1 DEF Turns, Saved
  <2>4. \A n \in net' \cap Saved : n.position = newest /\ row'[n.to].stamp < n.stamp
    BY <1>3, <1>5, <2>1, <2>3 DEF Turns
  <2>5. \A s \in Sources : (\A n \in net' \cap Saved : n.to # s) => row'[s].position = newest
    <3> SUFFICES ASSUME NEW s \in Sources, s # m.to, \A n \in net' \cap Saved : n.to # s
                 PROVE  row'[s].position = newest
      BY <2>2
    <3> QED
      BY <1>3, <1>5, <2>1 DEF Turns
  <2>6. \A v \in Viewers : phase[v] = "open" =>
            /\ asked[v] # {} => net' = {}
            /\ asked[v] # Sources => best[v].position = newest
    BY <2>1 DEF Turns
  <2> QED
    BY <1>5, <2>1, <2>4, <2>5, <2>6 DEF Turns
<1>9. /\ \A s \in Sources : row'[s].stamp = 0 => reached'[s] = {} /\ row'[s].position = NoPosition
      /\ \A n \in net' \cap Saved : n.stamp > 0
  BY <1>1, <1>2, <1>3, <1>4, <1>5, UpsertEffect
<1> QED
  BY <1>5, <1>6, <1>7, <1>8, <1>9

\* A status set by hand arrives.
LEMMA DeliverEditStep ==
    ASSUME IInv, NEW m \in net, DeliverEdit(m)
    PROVE  IInv'
<1> USE DEF IInv, viewers, progressHistory
<1>1. m \in Edited /\ m.to \in Sources /\ m \notin Saved
  BY Kinds DEF DeliverEdit, Edited
<1>2. row[m.to] \in Rows /\ row[m.to].stamp \in Nat
  BY <1>1 DEF ProgressTypeOK, Rows
<1>3. /\ row'[m.to] \in Rows
      /\ row'[m.to].position = row[m.to].position
      /\ row'[m.to].stamp = IF row[m.to].stamp = 0 THEN WholeSecond ELSE row[m.to].stamp
      /\ row' \in [Sources -> Rows]
      /\ \A s \in Sources \ {m.to} : row'[s] = row[s]
  BY <1>1, <1>2, SetStatusEffect DEF DeliverEdit, ProgressTypeOK
<1>4. net' = net \ {m} /\ net' \cap Saved = net \cap Saved
      /\ UNCHANGED <<now, viewers, progressHistory>>
  BY <1>1 DEF DeliverEdit
<1>5. NoPosition \in ProgressPositions /\ WholeSecond \in Nat /\ WholeSecond > 0
  BY StampType DEF NoPosition, ProgressPositions
<1>6. /\ reached' \in [Sources -> SUBSET [position : ProgressPositions, stamp : Nat]]
      /\ \A s \in Sources \ {m.to} : reached'[s] = reached[s]
      /\ row[m.to].stamp # 0 => reached'[m.to] = reached[m.to]
      /\ row[m.to].stamp = 0 =>
             reached'[m.to] = {[position |-> NoPosition, stamp |-> WholeSecond]}
  BY <1>1, <1>5 DEF DeliverEdit, ProgressTypeOK
<1>7. ProgressTypeOK'
  BY <1>3, <1>4, <1>6 DEF ProgressTypeOK
<1>8. Good' => Turns'
  <2> SUFFICES ASSUME Good'
               PROVE  Turns'
    OBVIOUS
  <2>1. Turns
    BY <1>4 DEF Good
  <2>2. net \cap Saved = {}
    BY <1>1, <2>1 DEF Turns
  <2> QED
    BY <1>3, <1>4, <2>1, <2>2 DEF Turns
<1>9. \A s \in Sources : \/ row'[s].stamp # 0
                         \/ row'[s] = row[s] /\ reached'[s] = reached[s]
  <2>1. row'[m.to].stamp # 0
    BY <1>2, <1>3, <1>5
  <2>2. ASSUME NEW s \in Sources, s # m.to
        PROVE  row'[s] = row[s] /\ reached'[s] = reached[s]
    BY <1>3, <1>6, <2>2
  <2> QED
    BY <2>1, <2>2
<1>10. LastWriterWins'
  <2>1. ASSUME NEW s \in Sources, row'[s].stamp > 0
        PROVE  /\ [position |-> row'[s].position, stamp |-> row'[s].stamp] \in reached'[s]
               /\ \A r \in reached'[s] : r.stamp <= row'[s].stamp
    <3>1. CASE s = m.to /\ row[s].stamp = 0
      BY <1>3, <1>5, <1>6, <3>1
    <3>2. CASE s = m.to /\ row[s].stamp # 0
      BY <1>2, <1>3, <1>6, <3>2 DEF LastWriterWins
    <3>3. CASE s # m.to
      BY <1>3, <1>6, <2>1, <3>3 DEF LastWriterWins
    <3> QED
      BY <3>1, <3>2, <3>3
  <2> QED
    BY <2>1 DEF LastWriterWins
<1> QED
  BY <1>4, <1>7, <1>8, <1>9, <1>10

\* A call fails: nothing is Good from then on.
LEMMA FailStep ==
    ASSUME ProgressTypeOK, Fail
    PROVE  ~Good' /\ failures' \in 0..MaxFailures
  BY DEF ProgressTypeOK, Fail, Good

\* A write is lost.
LEMMA LoseStep ==
    ASSUME IInv, NEW m \in net, Lose(m)
    PROVE  IInv'
<1>1. net' \subseteq net /\ UNCHANGED <<now, row, viewers, reached>>
  BY DEF Lose
<1>2. UNCHANGED <<saves, edits, newest, orderly, spaced>>
  BY DEF Lose, Fail
<1> QED
  BY <1>1, <1>2, FailStep DEF IInv, ProgressTypeOK, Lose, LastWriterWins, viewers

\* A viewer hears nothing from a source.
LEMMA HearNothingStep ==
    ASSUME IInv, NEW v \in Viewers, NEW s \in Sources, HearNothing(v, s)
    PROVE  IInv'
<1>1. /\ asked' = [asked EXCEPT ![v] = asked[v] \ {s}] /\ s \in asked[v]
      /\ UNCHANGED <<now, row, phase, best, net, reached>>
  BY DEF HearNothing
<1>2. UNCHANGED <<saves, edits, newest, orderly, spaced>>
  BY DEF HearNothing, Fail
<1>3. asked' \in [Viewers -> SUBSET Sources] /\ asked'[v] # Sources
      /\ \A u \in Viewers \ {v} : asked'[u] = asked[u]
  BY <1>1 DEF IInv, ProgressTypeOK
<1> QED
  BY <1>1, <1>2, <1>3, FailStep DEF IInv, ProgressTypeOK, HearNothing, LastWriterWins

\* A viewer asks the sources.
LEMMA OpenStep ==
    ASSUME IInv, NEW v \in Viewers, OpenViewer(v)
    PROVE  IInv'
<1>1. /\ phase' = [phase EXCEPT ![v] = "open"] /\ phase[v] = "closed"
      /\ asked' = [asked EXCEPT ![v] = Sources]
      /\ orderly' = (orderly /\ Quiet(v))
      /\ UNCHANGED <<now, row, best, net, reached, saves, edits, newest, failures, spaced>>
  BY DEF OpenViewer, Idle
<1>2. ProgressTypeOK' /\ LastWriterWins'
  BY <1>1 DEF IInv, ProgressTypeOK, LastWriterWins
<1>3. Good' => Turns'
  <2> SUFFICES ASSUME Good'
               PROVE  Turns'
    OBVIOUS
  <2>1. Turns /\ net = {} /\ \A u \in Viewers \ {v} : phase[u] = "closed"
    BY <1>1 DEF IInv, Good, Quiet, Idle
  <2>2. \A u \in Viewers : phase'[u] = "open" => u = v /\ asked'[u] = Sources
    BY <1>1, <2>1 DEF IInv, ProgressTypeOK
  <2> QED
    BY <1>1, <2>1, <2>2 DEF Turns
<1>4. \A u \in Viewers : /\ phase'[u] = "closed" => best'[u] = NoRow
                         /\ asked'[u] = Sources => best'[u] = NoRow
  BY <1>1 DEF IInv, ProgressTypeOK
<1> QED
  BY <1>1, <1>2, <1>3, <1>4 DEF IInv

\* A viewer hears from a source.
LEMMA HearStep ==
    ASSUME IInv, NEW v \in Viewers, NEW s \in Sources, Hear(v, s)
    PROVE  IInv'
<1>1. /\ phase[v] = "open" /\ s \in asked[v]
      /\ asked' = [asked EXCEPT ![v] = asked[v] \ {s}]
      /\ best' = [best EXCEPT ![v] = IF row[s].stamp >= best[v].stamp THEN row[s] ELSE best[v]]
      /\ UNCHANGED <<now, row, phase, net, reached, progressHistory>>
  BY DEF Hear
<1>2. ProgressTypeOK' /\ LastWriterWins'
  BY <1>1 DEF IInv, ProgressTypeOK, LastWriterWins, progressHistory
<1>3. /\ asked'[v] = asked[v] \ {s} /\ asked'[v] # Sources
      /\ best'[v] = IF row[s].stamp >= best[v].stamp THEN row[s] ELSE best[v]
      /\ \A u \in Viewers \ {v} : asked'[u] = asked[u] /\ best'[u] = best[u]
  BY <1>1 DEF IInv, ProgressTypeOK
<1>4. Good' => Turns'
  <2> SUFFICES ASSUME Good'
               PROVE  Turns'
    OBVIOUS
  <2>1. Turns /\ net = {}
    BY <1>1 DEF IInv, Good, progressHistory, Turns
  <2>2. row[s].position = newest
    BY <2>1 DEF Turns
  <2>3. best'[v].position = newest
    <3>1. CASE asked[v] = Sources
      <4>1. best[v].stamp = 0 /\ row[s].stamp \in Nat
        BY <3>1 DEF IInv, ProgressTypeOK, NoRow, Rows
      <4> QED
        BY <1>3, <2>2, <4>1
    <3>2. CASE asked[v] # Sources
      BY <1>1, <1>3, <2>1, <2>2, <3>2 DEF Turns
    <3> QED
      BY <3>1, <3>2
  <2> QED
    BY <1>1, <1>3, <2>1, <2>3 DEF Turns, progressHistory
<1> QED
  BY <1>1, <1>2, <1>3, <1>4 DEF IInv, progressHistory

\* A viewer is closed, or a save has been answered by all.
LEMMA CloseStep ==
    ASSUME IInv, NEW v \in Viewers, Close(v)
    PROVE  IInv'
<1>1. /\ phase' = [phase EXCEPT ![v] = "closed"]
      /\ asked' = [asked EXCEPT ![v] = {}]
      /\ best' = [best EXCEPT ![v] = NoRow]
      /\ UNCHANGED <<now, row, net, reached, progressHistory>>
  BY DEF Close
<1>2. NoRow \in Rows
  BY DEF NoRow, Rows, NoPosition, ProgressPositions, Unread, Read
<1>3. ProgressTypeOK' /\ LastWriterWins'
  BY <1>1, <1>2 DEF IInv, ProgressTypeOK, LastWriterWins, progressHistory
<1>4. Good' => Turns'
  BY <1>1 DEF IInv, Good, Turns, ProgressTypeOK, progressHistory
<1> QED
  BY <1>1, <1>3, <1>4 DEF IInv, ProgressTypeOK, progressHistory

\* The user sets a status.
LEMMA EditStep ==
    ASSUME IInv, NEW status \in StatusChoices, Edit(status)
    PROVE  IInv'
<1> DEFINE new == {[to |-> s, status |-> status] : s \in Sources}
<1>1. /\ net' = net \cup new /\ edits' = edits + 1 /\ edits < MaxEdits
      /\ orderly' = (orderly /\ net = {} /\ \A v \in Viewers : Idle(v))
      /\ UNCHANGED <<now, row, viewers, saves, reached, newest, failures, spaced>>
  BY DEF Edit
<1>2. new \subseteq Edited /\ new \cap Saved = {}
  BY Kinds DEF Edited, Unread, Read
<1>3. ProgressTypeOK' /\ LastWriterWins'
  BY <1>1, <1>2 DEF IInv, ProgressTypeOK, LastWriterWins, viewers
<1>4. net' \cap Saved = net \cap Saved
  BY <1>1, <1>2
<1>5. Good' => Turns'
  <2> SUFFICES ASSUME Good'
               PROVE  Turns'
    OBVIOUS
  <2>1. Turns /\ net = {} /\ \A v \in Viewers : phase[v] = "closed"
    BY <1>1 DEF IInv, Good, Idle
  <2> QED
    BY <1>1, <1>4, <2>1 DEF Turns, viewers
<1> QED
  BY <1>1, <1>3, <1>4, <1>5 DEF IInv, viewers

\* A viewer saves.
LEMMA SaveStep ==
    ASSUME IInv, NEW v \in Viewers, Save(v)
    PROVE  IInv'
<1> DEFINE position == Merge(v, best[v].position)
           new(p) == {[to |-> s, from |-> v, position |-> position,
                       percentage |-> p, stamp |-> StampOf(v)] : s \in Sources}
<1>1. PICK p \in Percentages : net' = net \cup new(p)
  BY DEF Save
<1>2. /\ phase[v] = "open" /\ asked[v] = {}
      /\ saves < MaxSaves /\ saves' = saves + 1
      /\ best' = [best EXCEPT ![v] = [best[v] EXCEPT !.position = position]]
      /\ phase' = [phase EXCEPT ![v] = IF v \in Web THEN phase[v] ELSE "saving"]
      /\ newest' = [newest EXCEPT ![FormatOf(v)] = saves + 1]
      /\ spaced' = (spaced /\ \A s \in Sources : row[s].stamp < StampOf(v))
      /\ orderly' = (orderly /\ Quiet(v))
      /\ UNCHANGED <<now, row, asked, reached, edits, failures>>
  BY DEF Save
<1>3. best[v] \in Rows /\ best[v].position \in ProgressPositions
  BY DEF IInv, ProgressTypeOK, Rows
<1>4. /\ position \in ProgressPositions
      /\ position = [best[v].position EXCEPT ![FormatOf(v)] = saves + 1]
  BY <1>3, MergeEffect DEF IInv
<1>5. StampOf(v) \in Nat /\ StampOf(v) > 0
  BY StampType DEF IInv
<1>6. new(p) \subseteq Saved /\ \A m \in new(p) : m.stamp > 0
  BY <1>4, <1>5 DEF Saved
<1> HIDE DEF position
<1>7. /\ best'[v] \in Rows /\ best'[v].position = position
      /\ \A u \in Viewers \ {v} : best'[u] = best[u] /\ phase'[u] = phase[u]
      /\ best' \in [Viewers -> Rows]
      /\ phase'[v] \in {"open", "saving"}
      /\ phase' \in [Viewers -> {"closed", "open", "saving"}]
  BY <1>2, <1>3, <1>4 DEF IInv, ProgressTypeOK, Rows
<1>8. ProgressTypeOK'
  <2>1. newest' \in ProgressPositions /\ saves' \in 0..MaxSaves
    <3>1. saves \in 0..MaxSaves /\ MaxSaves \in Nat
      BY DEF IInv, ProgressTypeOK
    <3>2. saves' \in 0..MaxSaves /\ saves + 1 \in Nat
      BY <1>2, <3>1
    <3>3. newest \in [Formats -> Nat]
      BY DEF IInv, ProgressTypeOK, ProgressPositions
    <3>4. newest' \in [Formats -> Nat]
      BY <1>2, <3>2, <3>3
    <3> QED
      BY <3>2, <3>4 DEF ProgressPositions
  <2>2. net' \subseteq Saved \cup Edited
    BY <1>1, <1>6 DEF IInv, ProgressTypeOK
  <2>3. orderly' \in BOOLEAN /\ spaced' \in BOOLEAN
    BY <1>2 DEF IInv, ProgressTypeOK
  <2> QED
    BY <1>2, <1>7, <2>1, <2>2, <2>3 DEF IInv, ProgressTypeOK
<1>9. LastWriterWins'
  BY <1>2 DEF IInv, LastWriterWins
<1>10. ASSUME Good'
       PROVE  Turns'
  <2>1. Turns /\ net = {} /\ \A u \in Viewers \ {v} : phase[u] = "closed"
    BY <1>2, <1>10 DEF IInv, Good, Quiet, Idle
  <2>2. position = newest'
    <3>1. best[v].position = newest
      BY <1>2, <2>1 DEF Turns
    <3> QED
      BY <1>2, <1>4, <3>1
  <2>3. net' = new(p) /\ net' \cap Saved = new(p) /\ net' \cap Edited = {}
    BY <1>1, <1>6, <2>1, Kinds
  <2>4. \A m \in new(p) : m.position = newest' /\ row'[m.to].stamp < m.stamp
    <3>1. \A s \in Sources : row'[s].stamp < StampOf(v)
      BY <1>2, <1>10 DEF Good
    <3> QED
      BY <2>2, <3>1
  <2>5. \A s \in Sources : \E m \in new(p) : m.to = s
    <3> TAKE s \in Sources
    <3> DEFINE m == [to |-> s, from |-> v, position |-> position,
                     percentage |-> p, stamp |-> StampOf(v)]
    <3>1. m \in new(p) /\ m.to = s
      OBVIOUS
    <3> QED
      BY <3>1
  <2>6. \A m, n \in new(p) : m.to = n.to => m = n
    OBVIOUS
  <2>7. \A u \in Viewers : phase'[u] = "open" => u = v
    BY <1>7, <2>1
  <2>8. best'[v].position = newest' /\ asked'[v] = {}
    BY <1>2, <1>7, <2>2
  <2> QED
    BY <2>3, <2>4, <2>5, <2>6, <2>7, <2>8 DEF Turns
<1>11. \A u \in Viewers : /\ phase'[u] = "closed" => best'[u] = NoRow
                          /\ asked'[u] = Sources => best'[u] = NoRow
  BY <1>2, <1>7 DEF IInv
<1>12. /\ \A s \in Sources : row'[s].stamp = 0 => reached'[s] = {} /\ row'[s].position = NoPosition
       /\ \A m \in net' \cap Saved : m.stamp > 0
  BY <1>1, <1>2, <1>6 DEF IInv
<1> QED
  BY <1>8, <1>9, <1>10, <1>11, <1>12 DEF IInv

-----------------------------------------------------------------------------
\* Together.

\* The invariant holds at the start
LEMMA InitIInv == ProgressInit => IInv
<1> SUFFICES ASSUME ProgressInit
             PROVE  IInv
  OBVIOUS
<1>1. NoRow \in Rows /\ NoPosition \in ProgressPositions
  BY DEF NoRow, Rows, NoPosition, ProgressPositions, Unread, Read
<1>2. ProgressTypeOK
  BY <1>1 DEF ProgressInit, ProgressTypeOK
<1> QED
  BY <1>1, <1>2 DEF ProgressInit, IInv, LastWriterWins, Good, Turns, NoRow

\* and is kept by every step,
LEMMA StepIInv == IInv /\ [ProgressNext]_progressVars => IInv'
<1> SUFFICES ASSUME IInv, [ProgressNext]_progressVars
             PROVE  IInv'
  OBVIOUS
<1>1. CASE Tick
  BY <1>1 DEF Tick, IInv, ProgressTypeOK, LastWriterWins, Good, Turns, viewers, progressHistory
<1>2. ASSUME NEW status \in StatusChoices, Edit(status)
      PROVE  IInv'
  BY <1>2, EditStep
<1>3. ASSUME NEW m \in net, DeliverSave(m) \/ DeliverEdit(m) \/ Lose(m)
      PROVE  IInv'
  BY <1>3, DeliverSaveStep, DeliverEditStep, LoseStep
<1>4. ASSUME NEW v \in Viewers, OpenViewer(v) \/ Save(v) \/ Close(v)
      PROVE  IInv'
  BY <1>4, OpenStep, SaveStep, CloseStep
<1>5. ASSUME NEW v \in Viewers, NEW s \in Sources, Hear(v, s) \/ HearNothing(v, s)
      PROVE  IInv'
  BY <1>5, HearStep, HearNothingStep
<1>6. CASE UNCHANGED progressVars
  BY <1>6 DEF progressVars, IInv, ProgressTypeOK, LastWriterWins, Good, Turns, viewers, progressHistory
<1> QED
  BY <1>1, <1>2, <1>3, <1>4, <1>5, <1>6 DEF ProgressNext

\* so it holds for ever.
LEMMA Invariance == ProgressSpec => []IInv
  BY InitIInv, StepIInv, PTL DEF ProgressSpec

\* Every variable keeps its type.
THEOREM ProgressTypeCorrect == ProgressSpec => []ProgressTypeOK
<1>1. IInv => ProgressTypeOK
  BY DEF IInv
<1> QED
  BY <1>1, Invariance, PTL

\* A source holds the newest of the positions that reached it, whatever the
\* order in which they came (upsert_reading_state).
THEOREM LastWriter == ProgressSpec => []LastWriterWins
<1>1. IInv => LastWriterWins
  BY DEF IInv
<1> QED
  BY <1>1, Invariance, PTL

\* When viewers have taken turns and no stamp repeated, every source has the
\* last position of either format: switching viewers resumes there.
THEOREM Resuming == ProgressSpec => []SwitchingResumes
<1>1. IInv => SwitchingResumes
  BY DEF IInv, Good, Turns, SwitchingResumes, AtRest, ResumesEverywhere
<1> QED
  BY <1>1, Invariance, PTL

\* Only the user takes a status back.
THEOREM StatusRises == ProgressSpec => StatusOnlyRises
<1> DEFINE Rises == \A s \in Sources :
                        \/ row'[s].status = row[s].status
                        \/ row'[s].status = row[s].status + 1
                        \/ \E m \in net \cap Edited : m.to = s
<1>1. IInv /\ [ProgressNext]_progressVars => [Rises]_progressVars
  <2> SUFFICES ASSUME IInv, ProgressNext
               PROVE  Rises
    OBVIOUS
  <2>1. ASSUME NEW m \in net, DeliverSave(m)
        PROVE  Rises
    <3>1. m \in Saved /\ m.to \in Sources /\ row \in [Sources -> Rows]
      BY <2>1 DEF DeliverSave, Saved, IInv, ProgressTypeOK
    <3>2. row' = [row EXCEPT ![m.to] = Upsert(row[m.to], m)]
      BY <2>1 DEF DeliverSave
    <3>3. Upsert(row[m.to], m).status \in {row[m.to].status, row[m.to].status + 1}
      BY <3>1, UpsertEffect
    <3> QED
      BY <3>1, <3>2, <3>3
  <2>2. ASSUME NEW m \in net, DeliverEdit(m)
        PROVE  Rises
    <3>1. m \in net \cap Edited /\ row \in [Sources -> Rows]
      BY <2>2 DEF DeliverEdit, IInv, ProgressTypeOK
    <3>2. row' = [row EXCEPT ![m.to] = SetStatus(row[m.to], m)]
      BY <2>2 DEF DeliverEdit
    <3> QED
      BY <3>1, <3>2
  <2>3. ASSUME row' = row
        PROVE  Rises
    BY <2>3
  <2>4. \/ row' = row
        \/ \E m \in net : DeliverSave(m) \/ DeliverEdit(m)
    BY DEF ProgressNext, Tick, Edit, Lose, OpenViewer, Save, Close, Hear, HearNothing
  <2> QED
    BY <2>1, <2>2, <2>3, <2>4
<1> QED
  BY <1>1, Invariance, PTL DEF ProgressSpec, StatusOnlyRises
=============================================================================
