-------------------------- MODULE SpiLink_proofs ---------------------------
(***************************************************************************)
(* What holds of the link for requests of any number and length.           *)
(***************************************************************************)
EXTENDS SpiLink, TLAPS, WellFoundedInduction, SequenceTheorems

-----------------------------------------------------------------------------
(***************************************************************************)
(* Where a frame ends.                                                     *)
(***************************************************************************)

LEMMA HasLeast ==
  ASSUME NEW T, T \subseteq Nat, T # {}
  PROVE  \E n \in T : \A k \in T : n <= k
<1>1. PICK n \in T : \A k \in T : ~(<<k, n>> \in OpToRel(<, Nat))
  BY NatLessThanWellFounded, WFMin, Zenon
<1>2. ASSUME NEW k \in T PROVE n <= k
  <2>1. <<k, n>> \in Nat \X Nat
    OBVIOUS
  <2>2. ~(k < n)
    BY <1>1, <2>1, Zenon DEF OpToRel
  <2>3. QED
    BY <2>2
<1>3. QED
  BY <1>2

\* f is the first n parameters of r, one after another.
FirstParams(r, n, f) ==
  f = [k \in 0 .. n |-> IF k = 0 THEN <<>> ELSE f[k - 1] \o Param(r.cmd, r.params[k])]

LEMMA FirstParamsExist ==
  ASSUME NEW r, NEW n \in Nat
  PROVE  \E f : FirstParams(r, n, f)
<1> DEFINE T == {m \in Nat : ~ \E f : FirstParams(r, m, f)}
<1>1. SUFFICES ASSUME T # {} PROVE FALSE
  OBVIOUS
<1>2. PICK m \in T : \A k \in T : m <= k
  <2> HIDE DEF T
  <2> T \subseteq Nat  BY DEF T
  <2> QED  BY <1>1, HasLeast
<1>3. m # 0
  <2>1. FirstParams(r, 0, [k \in 0 .. 0 |-> <<>>])
    BY DEF FirstParams
  <2> QED  BY <2>1
<1>4. m - 1 \in Nat /\ m - 1 \notin T
  BY <1>2, <1>3
<1>5. PICK f : FirstParams(r, m - 1, f)
  BY <1>4
<1> DEFINE P(k) == Param(r.cmd, r.params[k])
           g == [k \in 0 .. m |-> IF k = m THEN f[m - 1] \o P(m) ELSE f[k]]
<1>6. FirstParams(r, m, g)
  <2>1. ASSUME NEW k \in 0 .. m PROVE g[k] = IF k = 0 THEN <<>> ELSE g[k - 1] \o P(k)
    <3>1. CASE k = m
      <4>1. g[m - 1] = f[m - 1]
        BY <1>4
      <4> QED  BY <3>1, <4>1, <1>3
    <3>2. CASE k # m
      <4>1. k \in 0 .. m - 1 /\ g[k] = f[k]
        BY <3>2, <1>4
      <4>2. f[k] = IF k = 0 THEN <<>> ELSE f[k - 1] \o P(k)
        <5> HIDE DEF P
        <5> f = [j \in 0 .. m - 1 |-> IF j = 0 THEN <<>> ELSE f[j - 1] \o P(j)]
          BY <1>5 DEF FirstParams, P
        <5> QED  BY <4>1
      <4>3. k # 0 => g[k - 1] = f[k - 1]
        BY <4>1, <1>4
      <4> QED  BY <4>1, <4>2, <4>3
    <3> QED  BY <3>1, <3>2
  <2> HIDE DEF P
  <2>2. g = [k \in 0 .. m |-> IF k = 0 THEN <<>> ELSE g[k - 1] \o P(k)]
    BY <2>1
  <2> QED  BY <2>2 DEF FirstParams, P
<1> QED  BY <1>6

LEMMA ParamsStep ==
  ASSUME NEW r, Len(r.params) \in Nat
  PROVE  /\ Params(r)[0] = <<>>
         /\ \A k \in 1 .. Len(r.params) :
              Params(r)[k] = Params(r)[k - 1] \o Param(r.cmd, r.params[k])
<1>1. FirstParams(r, Len(r.params), Params(r))
  BY FirstParamsExist, Zenon DEF FirstParams, Params
<1> DEFINE P(k) == Param(r.cmd, r.params[k])
           n == Len(r.params)
           f == Params(r)
<1> HIDE DEF P, f
<1>2. f = [k \in 0 .. n |-> IF k = 0 THEN <<>> ELSE f[k - 1] \o P(k)]
  BY <1>1 DEF FirstParams, P, f
<1>3. f[0] = <<>>
  BY <1>2
<1>4. ASSUME NEW k \in 1 .. n PROVE f[k] = f[k - 1] \o P(k)
  <2>1. k \in 0 .. n /\ k # 0
    OBVIOUS
  <2> QED  BY <1>2, <2>1
<1> QED  BY <1>3, <1>4 DEF P, f

LEMMA Halves ==
  ASSUME NEW n \in Nat
  PROVE  /\ n < 256 => n % 256 = n /\ n \in 0 .. 255
         /\ n % 256 \in 0 .. 255
         /\ n < 65536 => n \div 256 \in 0 .. 255 /\ n = (n \div 256) * 256 + (n % 256)
OBVIOUS

LEMMA WithByte ==
  ASSUME NEW b \in 0 .. 255, NEW p \in Seq(0 .. 255)
  PROVE  <<b>> \o p \in Seq(0 .. 255) /\ (<<b>> \o p)[1] = b /\ Len(<<b>> \o p) = Len(p) + 1
<1>1. <<b>> \o p \in Seq(0 .. 255)
  OBVIOUS
<1>2. (<<b>> \o p)[1] = b
  OBVIOUS
<1>3. Len(<<b>> \o p) = Len(p) + 1
  OBVIOUS
<1> QED  BY <1>1, <1>2, <1>3

LEMMA ParamType ==
  ASSUME NEW c, NEW p \in Seq(0 .. 255), Len(p) < Lengths(c)
  PROVE  /\ Param(c, p) \in Seq(0 .. 255)
         /\ Wide(c) => /\ Len(Param(c, p)) = Len(p) + 2
                       /\ Len(p) = Param(c, p)[1] * 256 + Param(c, p)[2]
         /\ ~Wide(c) => Len(Param(c, p)) = Len(p) + 1 /\ Len(p) = Param(c, p)[1]
<1>1. PICK n \in Nat : n = Len(p)
  BY LenProperties
<1>2. CASE Wide(c)
  <2>1. n \div 256 \in 0 .. 255 /\ n % 256 \in 0 .. 255 /\ n = (n \div 256) * 256 + (n % 256)
    <3>1. n < 65536
      BY <1>1, <1>2, SMT DEF Lengths
    <3>2. n % 256 \in 0 .. 255
      BY Halves, SMT
    <3>3. n \div 256 \in 0 .. 255 /\ n = (n \div 256) * 256 + (n % 256)
      BY <3>1, Halves, SMT
    <3> QED  BY <3>2, <3>3, Zenon
  <2> PICK h : h = n \div 256
    OBVIOUS
  <2> PICK l : l = n % 256
    OBVIOUS
  <2>2. h \in 0 .. 255 /\ l \in 0 .. 255 /\ h = n \div 256 /\ l = n % 256
    BY <2>1, Zenon
  <2>3. Param(c, p) = <<h>> \o <<l>> \o p
    BY <1>1, <1>2, <2>2, Zenon DEF Param
  <2> QED  BY <1>1, <1>2, <2>1, <2>2, <2>3
<1>3. CASE ~Wide(c)
  <2>1. n % 256 = n /\ n \in 0 .. 255
    <3> n < 256  BY <1>1, <1>3 DEF Lengths
    <3> QED  BY Halves
  <2>2. Param(c, p) = <<>> \o <<n>> \o p
    BY <1>1, <1>3, <2>1, Zenon DEF Param
  <2>3. <<n>> \in Seq(0 .. 255)
    BY <2>1
  <2>4. <<>> \o <<n>> = <<n>>
    BY <2>3, ConcatEmptySeq, Zenon
  <2>5. Param(c, p) = <<n>> \o p
    BY <2>2, <2>4
  <2>6. n \in 0 .. 255
    BY <2>1
  <2>7. /\ <<n>> \o p \in Seq(0 .. 255) /\ (<<n>> \o p)[1] = n
        /\ Len(<<n>> \o p) = Len(p) + 1
    BY <2>6, WithByte, Zenon
  <2>8. Param(c, p) \in Seq(0 .. 255) /\ Param(c, p)[1] = n /\ Len(Param(c, p)) = Len(p) + 1
    BY <2>5, <2>7, Zenon
  <2> QED  BY <1>1, <1>3, <2>8, Zenon
<1> QED  BY <1>2, <1>3

\* The parameters of r one after another: each makes the bytes longer.
Grows(r, k) ==
  /\ Params(r)[k] \in Seq(0 .. 255)
  /\ \A j \in 0 .. k : /\ Len(Params(r)[j]) <= Len(Params(r)[k])
                       /\ \A i \in 1 .. Len(Params(r)[j]) : Params(r)[k][i] = Params(r)[j][i]

LEMMA AnsweredIsByte ==
  ASSUME NEW c \in Answered
  PROVE  c \in 16 .. 70 /\ c \in Cmds
BY DEF Answered, Cmds, SetCmds, GetCmds, ImmSetCmds

LEMMA Requests ==
  ASSUME NEW r \in Calls
  PROVE  /\ r.cmd \in Answered /\ r.cmd \in 16 .. 70
         /\ r.params \in Seq(Seq(0 .. 255))
         /\ Len(r.params) \in Nat /\ Len(r.params) < 128
<1>1. r \in [cmd : Answered, params : Seq(Seq(0 .. 255))] /\ Len(r.params) < 128
  BY CallsAssumption
<1>2. r.cmd \in Answered /\ r.params \in Seq(Seq(0 .. 255))
  BY <1>1
<1>3. Len(r.params) \in Nat
  BY <1>2, LenProperties
<1>4. r.cmd \in 16 .. 70
  BY <1>2, AnsweredIsByte
<1> QED  BY <1>1, <1>2, <1>3, <1>4

LEMMA ParamOf ==
  ASSUME NEW r \in Calls, NEW k \in 1 .. Len(r.params)
  PROVE  /\ r.params[k] \in Seq(0 .. 255)
         /\ Len(r.params[k]) < Lengths(r.cmd)
<1>1. r.params \in Seq(Seq(0 .. 255))
  BY Requests, Zenon
<1>2. r.params[k] \in Seq(0 .. 255)
  BY <1>1, ElementOfSeq, Zenon
<1>3. Len(r.params[k]) < Lengths(r.cmd)
  BY CallsAssumption, Zenon
<1> QED  BY <1>2, <1>3, Zenon

LEMMA ParamsGrow ==
  ASSUME NEW r \in Calls, NEW n \in 0 .. Len(r.params)
  PROVE  Grows(r, n)
<1>0. Len(r.params) \in Nat
  BY Requests
<1> DEFINE T == {m \in 0 .. Len(r.params) : ~ Grows(r, m)}
<1>1. SUFFICES ASSUME T # {} PROVE FALSE
  OBVIOUS
<1>2. PICK m \in T : \A k \in T : m <= k
  <2> HIDE DEF T
  <2> T \subseteq Nat  BY <1>0 DEF T
  <2> QED  BY <1>1, HasLeast
<1>3. m # 0
  <2>1. Params(r)[0] = <<>>
    BY ParamsStep, <1>0
  <2>2. Grows(r, 0)
    BY <2>1 DEF Grows
  <2> QED  BY <2>2
<1>4. m \in 1 .. Len(r.params) /\ m - 1 \in 0 .. Len(r.params) /\ Grows(r, m - 1)
  BY <1>0, <1>2, <1>3
<1> DEFINE a == Params(r)[m - 1]
           p == Param(r.cmd, r.params[m])
<1>5. p \in Seq(0 .. 255) /\ a \in Seq(0 .. 255)
  <2>1. p \in Seq(0 .. 255)
    BY <1>4, ParamOf, ParamType, Zenon
  <2>2. a \in Seq(0 .. 255)
    BY <1>4 DEF Grows
  <2> QED  BY <2>1, <2>2
<1>6. Params(r)[m] = a \o p
  BY <1>0, <1>4, ParamsStep
<1>7. /\ a \o p \in Seq(0 .. 255) /\ Len(a) <= Len(a \o p)
      /\ \A i \in 1 .. Len(a) : (a \o p)[i] = a[i]
  <2> HIDE DEF a, p
  <2> QED  BY <1>5
<1>8. ASSUME NEW j \in 0 .. m
      PROVE  /\ Len(Params(r)[j]) <= Len(Params(r)[m])
             /\ \A i \in 1 .. Len(Params(r)[j]) : Params(r)[m][i] = Params(r)[j][i]
  <2>1. CASE j = m
    <3> Params(r)[m] \in Seq(0 .. 255)  BY <1>6, <1>7
    <3> QED  BY <2>1
  <2>2. CASE j # m
    <3>1. j \in 0 .. m - 1 /\ Len(a) \in Nat
      BY <2>2, <1>4, <1>5
    <3>2. Len(Params(r)[j]) <= Len(a) /\ \A i \in 1 .. Len(Params(r)[j]) : a[i] = Params(r)[j][i]
      BY <3>1, <1>4 DEF Grows
    <3>3. Grows(r, j)
      BY <1>2, <2>2, <1>4, <3>1
    <3>4. Len(Params(r)[j]) \in Nat
      BY <3>3 DEF Grows
    <3> HIDE DEF a, p
    <3> QED  BY <3>1, <3>2, <3>4, <1>5, <1>6, <1>7
  <2> QED  BY <2>1, <2>2
<1>9. Grows(r, m)
  BY <1>6, <1>7, <1>8 DEF Grows
<1> QED  BY <1>9

\* f has the places after each of the first n parameters of the bytes b.
FirstPlaces(b, n, end, f) ==
  f = [k \in 0 .. n |-> IF k = 0 THEN 3
                        ELSE IF f[k - 1] >= end THEN end + 1
                        ELSE f[k - 1] + ParamSize(b, f[k - 1])]

LEMMA FirstPlacesExist ==
  ASSUME NEW b, NEW end, NEW n \in Nat
  PROVE  \E f : FirstPlaces(b, n, end, f)
<1> DEFINE T == {m \in Nat : ~ \E f : FirstPlaces(b, m, end, f)}
<1>1. SUFFICES ASSUME T # {} PROVE FALSE
  OBVIOUS
<1>2. PICK m \in T : \A k \in T : m <= k
  <2> HIDE DEF T
  <2> T \subseteq Nat  BY DEF T
  <2> QED  BY <1>1, HasLeast
<1>3. m # 0
  <2>1. FirstPlaces(b, 0, end, [k \in 0 .. 0 |-> 3])
    BY DEF FirstPlaces
  <2> QED  BY <2>1
<1>4. m - 1 \in Nat /\ m - 1 \notin T
  BY <1>2, <1>3
<1>5. PICK f : FirstPlaces(b, m - 1, end, f)
  BY <1>4
<1> DEFINE Go(x) == IF x >= end THEN end + 1 ELSE x + ParamSize(b, x)
           g == [k \in 0 .. m |-> IF k = m THEN Go(f[m - 1]) ELSE f[k]]
<1>6. FirstPlaces(b, m, end, g)
  <2>1. ASSUME NEW k \in 0 .. m PROVE g[k] = IF k = 0 THEN 3 ELSE Go(g[k - 1])
    <3>1. CASE k = m
      <4>1. g[m - 1] = f[m - 1]
        BY <1>4
      <4> HIDE DEF Go
      <4> QED  BY <3>1, <4>1, <1>3
    <3>2. CASE k # m
      <4>1. k \in 0 .. m - 1 /\ g[k] = f[k]
        BY <3>2, <1>4
      <4>2. f[k] = IF k = 0 THEN 3 ELSE Go(f[k - 1])
        <5> f = [j \in 0 .. m - 1 |-> IF j = 0 THEN 3 ELSE Go(f[j - 1])]
          BY <1>5, Zenon DEF FirstPlaces
        <5> HIDE DEF Go
        <5> QED  BY <4>1
      <4>3. k # 0 => g[k - 1] = f[k - 1]
        BY <4>1, <1>4
      <4> HIDE DEF Go
      <4> QED  BY <4>1, <4>2, <4>3
    <3> QED  BY <3>1, <3>2
  <2>2. g = [k \in 0 .. m |-> IF k = 0 THEN 3 ELSE Go(g[k - 1])]
    <3> HIDE DEF Go
    <3> QED  BY <2>1
  <2> HIDE DEF g
  <2> QED  BY <2>2, Zenon DEF FirstPlaces
<1> QED  BY <1>6

\* The place y follows the place x.
Onward(b, end, x, y) == /\ x >= end => y = end + 1
                        /\ ~(x >= end) => y = x + ParamSize(b, x)

LEMMA PlacesStep ==
  ASSUME NEW b, NEW end, NEW n \in Nat
  PROVE  /\ Places(b, n, end)[0] = 3
         /\ \A k \in 1 .. n :
              Onward(b, end, Places(b, n, end)[k - 1], Places(b, n, end)[k])
<1>1. FirstPlaces(b, n, end, Places(b, n, end))
  <2>1. PICK f : FirstPlaces(b, n, end, f)
    BY FirstPlacesExist, Zenon
  <2> QED  BY <2>1, Zenon DEF FirstPlaces, Places
<1> DEFINE f == Places(b, n, end)
           Go(x) == IF x >= end THEN end + 1 ELSE x + ParamSize(b, x)
<1>2. f = [k \in 0 .. n |-> IF k = 0 THEN 3 ELSE Go(f[k - 1])]
  BY <1>1, Zenon DEF FirstPlaces
<1> HIDE DEF Go, f
<1>3. f[0] = 3
  BY <1>2
<1>4. ASSUME NEW k \in 1 .. n PROVE f[k] = Go(f[k - 1])
  <2>1. k \in 0 .. n /\ k # 0
    OBVIOUS
  <2> QED  BY <1>2, <2>1
<1>5. ASSUME NEW k \in 1 .. n
      PROVE  Onward(b, end, f[k - 1], f[k])
  BY <1>4, Zenon DEF Go, Onward
<1> QED  BY <1>3, <1>5, Zenon DEF f

LEMMA Concat ==
  ASSUME NEW a \in Seq(0 .. 255), NEW t \in Seq(0 .. 255)
  PROVE  /\ a \o t \in Seq(0 .. 255) /\ Len(a \o t) = Len(a) + Len(t)
         /\ \A i \in 1 .. Len(a) : (a \o t)[i] = a[i]
         /\ \A i \in 1 .. Len(t) : (a \o t)[Len(a) + i] = t[i]
<1>1. a \o t \in Seq(0 .. 255)
  OBVIOUS
<1>2. Len(a \o t) = Len(a) + Len(t)
  OBVIOUS
<1>3. \A i \in 1 .. Len(a) : (a \o t)[i] = a[i]
  OBVIOUS
<1>4. \A i \in 1 .. Len(t) : (a \o t)[Len(a) + i] = t[i]
  OBVIOUS
<1> QED  BY <1>1, <1>2, <1>3, <1>4

Wrap(c, n, u) == <<START, c, n>> \o u \o <<END>>
Framed(F, c, n, u) ==
  /\ F \in Seq(0 .. 255) /\ Len(F) = 4 + Len(u)
  /\ F[1] = START /\ F[2] = c /\ F[3] = n /\ F[Len(F)] = END
  /\ \A i \in 1 .. Len(u) : F[3 + i] = u[i]

LEMMA Wrapped ==
  ASSUME NEW c \in 0 .. 255, NEW n \in 0 .. 255, NEW u \in Seq(0 .. 255)
  PROVE  Framed(Wrap(c, n, u), c, n, u)
<1> DEFINE F == Wrap(c, n, u)
<1> DEFINE h == <<START, c, n>>
           t == <<END>>
<1>1. h \in Seq(0 .. 255) /\ Len(h) = 3 /\ h[1] = START /\ h[2] = c /\ h[3] = n
  BY DEF START
<1>2. t \in Seq(0 .. 255) /\ Len(t) = 1 /\ t[1] = END
  BY DEF END
<1> HIDE DEF h, t
<1> DEFINE a == h \o u
<1>3. /\ a \in Seq(0 .. 255) /\ Len(a) = 3 + Len(u)
      /\ \A i \in 1 .. 3 : a[i] = h[i]
      /\ \A i \in 1 .. Len(u) : a[3 + i] = u[i]
  <2>1. /\ h \o u \in Seq(0 .. 255) /\ Len(h \o u) = Len(h) + Len(u)
        /\ \A i \in 1 .. Len(h) : (h \o u)[i] = h[i]
        /\ \A i \in 1 .. Len(u) : (h \o u)[Len(h) + i] = u[i]
    BY <1>1, Concat, Zenon
  <2> QED  BY <1>1, <2>1, Zenon
<1> HIDE DEF a
<1>4. /\ a \o t \in Seq(0 .. 255) /\ Len(a \o t) = Len(a) + 1
      /\ \A i \in 1 .. Len(a) : (a \o t)[i] = a[i]
      /\ (a \o t)[Len(a) + 1] = t[1]
  <2>1. /\ a \o t \in Seq(0 .. 255) /\ Len(a \o t) = Len(a) + Len(t)
        /\ \A i \in 1 .. Len(a) : (a \o t)[i] = a[i]
        /\ \A i \in 1 .. Len(t) : (a \o t)[Len(a) + i] = t[i]
    BY <1>2, <1>3, Concat, Zenon
  <2>2. 1 \in 1 .. Len(t)
    BY <1>2
  <2> QED  BY <1>2, <2>1, <2>2, Zenon
<1>5. F = a \o t
  BY DEF a, h, t, Wrap
<1> HIDE DEF F
<1>6. PICK l \in Nat : l = Len(u)
  BY LenProperties
<1>7. F \in Seq(0 .. 255) /\ Len(F) = 4 + l /\ F[4 + l] = END
  BY <1>2, <1>3, <1>4, <1>5, <1>6
<1>8. F[1] = START /\ F[2] = c /\ F[3] = n
  BY <1>1, <1>3, <1>4, <1>5, <1>6
<1>9. \A i \in 1 .. l : F[3 + i] = u[i]
  BY <1>3, <1>4, <1>5, <1>6
<1>10. Framed(F, c, n, u)
  BY <1>6, <1>7, <1>8, <1>9 DEF Framed
<1> QED  BY <1>10 DEF F

LEMMA FrameBytes ==
  ASSUME NEW r \in Calls
  PROVE  /\ Len(r.params) \in 0 .. 127 /\ Params(r)[Len(r.params)] \in Seq(0 .. 255)
         /\ Framed(Frame(r), r.cmd, Len(r.params), Params(r)[Len(r.params)])
<1> DEFINE n == Len(r.params)
           c == r.cmd
           u == Params(r)[n]
           F == Frame(r)
<1>1. c \in 0 .. 255
  <2>1. c \in 16 .. 70
    BY Requests, Zenon
  <2> QED  BY <2>1
<1>2. n \in 0 .. 255 /\ n \in 0 .. 127 /\ n \in 0 .. n
  <2>1. n \in Nat /\ n < 128
    BY Requests, Zenon
  <2> HIDE DEF n
  <2> QED  BY <2>1
<1>3. u \in Seq(0 .. 255)
  <2>1. Grows(r, n)
    BY <1>2, ParamsGrow, Zenon
  <2> QED  BY <2>1, Zenon DEF Grows
<1>4. F = Wrap(c, n, u)
  BY Zenon DEF Frame, Wrap
<1> HIDE DEF c, n, u, F
<1>5. Framed(F, c, n, u)
  BY <1>1, <1>2, <1>3, <1>4, Wrapped, Zenon
<1> QED  BY <1>2, <1>3, <1>5, Zenon DEF c, n, u, F

\* The walk along the lengths of a frame goes from parameter to parameter.
LEMMA SizeInFrame ==
  ASSUME NEW r \in Calls, NEW k \in 1 .. Len(r.params)
  PROVE  LET a == Len(Params(r)[k - 1])
             b == Len(Params(r)[k])
             l == Len(Params(r)[Len(r.params)])
         IN  /\ a \in Nat /\ b \in Nat /\ l \in Nat
             /\ a < b /\ b <= l
             /\ Wide(r.cmd) => a + 1 < b
             /\ Wide(r.cmd) => Frame(r)[3 + a + 1] * 256 + Frame(r)[3 + a + 2] + 2 = b - a
             /\ ~Wide(r.cmd) => Frame(r)[3 + a + 1] + 1 = b - a
<1> DEFINE n == Len(r.params)
           x == Params(r)[k - 1]
           y == Params(r)[k]
           u == Params(r)[n]
           q == Param(r.cmd, r.params[k])
           F == Frame(r)
<1>1. n \in Nat /\ k \in 0 .. n /\ k - 1 \in 0 .. n /\ n \in 0 .. n
  <2>1. n \in Nat
    BY Requests, Zenon
  <2> HIDE DEF n
  <2> k \in 1 .. n  BY DEF n
  <2> QED  BY <2>1
<1>2. x \in Seq(0 .. 255) /\ y \in Seq(0 .. 255) /\ u \in Seq(0 .. 255)
  <2>1. Grows(r, k - 1) /\ Grows(r, k) /\ Grows(r, n)
    BY <1>1, ParamsGrow, Zenon
  <2> QED  BY <2>1, Zenon DEF Grows
<1>3. Len(y) <= Len(u) /\ \A i \in 1 .. Len(y) : u[i] = y[i]
  <2>1. Grows(r, n)
    BY <1>1, ParamsGrow, Zenon
  <2> QED  BY <1>1, <2>1, Zenon DEF Grows
<1>4. r.params[k] \in Seq(0 .. 255) /\ Len(r.params[k]) < Lengths(r.cmd)
  BY ParamOf, Zenon
<1>5. PICK p \in Seq(0 .. 255) : p = r.params[k] /\ Len(p) < Lengths(r.cmd)
  BY <1>4, Zenon
<1>6. /\ q \in Seq(0 .. 255)
      /\ Wide(r.cmd) => Len(q) = Len(p) + 2 /\ Len(p) = q[1] * 256 + q[2]
      /\ ~Wide(r.cmd) => Len(q) = Len(p) + 1 /\ Len(p) = q[1]
  BY <1>5, ParamType, ZenonT(40)
<1>7. y = x \o q
  BY <1>1, ParamsStep, Zenon
<1>8. F[2] = r.cmd /\ \A i \in 1 .. Len(u) : F[3 + i] = u[i]
  BY FrameBytes, Zenon DEF Framed
<1> HIDE DEF n, x, y, u, q, F
<1>9. Len(y) = Len(x) + Len(q) /\ \A i \in 1 .. Len(q) : y[Len(x) + i] = q[i]
  <2>1. Len(x \o q) = Len(x) + Len(q) /\ \A i \in 1 .. Len(q) : (x \o q)[Len(x) + i] = q[i]
    BY <1>2, <1>6, Concat, ZenonT(40)
  <2> QED  BY <1>7, <2>1, Zenon
<1>10. PICK a \in Nat, b \in Nat, l \in Nat, m \in Nat :
         a = Len(x) /\ b = Len(y) /\ l = Len(u) /\ m = Len(q)
  BY <1>2, <1>6, LenProperties, Zenon
<1>11. PICK w \in Nat : w = Len(p)
  BY LenProperties
<1>12. \A i \in 1 .. m : F[3 + (a + i)] = q[i]
  <2> TAKE i \in 1 .. m
  <2>1. b = a + m /\ y[a + i] = q[i]
    BY <1>9, <1>10, Zenon
  <2>2. a + i \in 1 .. b /\ a + i \in 1 .. l
    BY <1>3, <1>10, <2>1
  <2>3. F[3 + (a + i)] = u[a + i] /\ u[a + i] = y[a + i]
    BY <1>3, <1>8, <1>10, <2>2, Zenon
  <2> QED  BY <2>1, <2>3, Zenon
<1>13. b = a + m /\ b <= l
  BY <1>3, <1>9, <1>10, Zenon
<1>14. ASSUME Wide(r.cmd)
       PROVE  m >= 2 /\ F[3 + a + 1] * 256 + F[3 + a + 2] + 2 = m
  <2>1. m = w + 2 /\ w = q[1] * 256 + q[2]
    BY <1>6, <1>10, <1>11, <1>14, Zenon
  <2>2. 1 \in 1 .. m /\ 2 \in 1 .. m /\ m >= 2 /\ 3 + a + 1 = 3 + (a + 1) /\ 3 + a + 2 = 3 + (a + 2)
    BY <2>1
  <2>3. F[3 + a + 1] = q[1] /\ F[3 + a + 2] = q[2]
    BY <1>12, <2>2, Zenon
  <2> QED  BY <2>1, <2>2, <2>3, Zenon
<1>15. ASSUME ~Wide(r.cmd)
       PROVE  m >= 1 /\ F[3 + a + 1] + 1 = m
  <2>1. m = w + 1 /\ w = q[1]
    BY <1>6, <1>10, <1>11, <1>15, Zenon
  <2>2. 1 \in 1 .. m /\ m >= 1 /\ 3 + a + 1 = 3 + (a + 1)
    BY <2>1
  <2>3. F[3 + a + 1] = q[1]
    BY <1>12, <2>2, Zenon
  <2> QED  BY <2>1, <2>2, <2>3, Zenon
<1>16. /\ a < b /\ b <= l /\ b - a = m
       /\ Wide(r.cmd) => a + 1 < b
  <2>1. m >= 1 /\ (Wide(r.cmd) => m >= 2)
    BY <1>14, <1>15
  <2> QED  BY <1>13, <2>1
<1>17. /\ Wide(r.cmd) => F[3 + a + 1] * 256 + F[3 + a + 2] + 2 = b - a
       /\ ~Wide(r.cmd) => F[3 + a + 1] + 1 = b - a
  BY <1>14, <1>15, <1>16, Zenon
<1> QED  BY <1>10, <1>16, <1>17, Zenon DEF n, x, y, u, F

\* EndOfFrame, asked after every byte the interrupt handler takes, finds the end
\* of a request at its last byte and nowhere before, whatever the bytes of its
\* parameters are: an END among them does not end it.
THEOREM EndIsTheEnd ==
  ASSUME NEW r \in Calls, NEW m \in 1 .. Len(Frame(r)),
         NEW b \in Seq(0 .. 255), Len(b) = m, \A i \in 1 .. m : b[i] = Frame(r)[i]
  PROVE  EndOfFrame(b) <=> m = Len(Frame(r))
<1> DEFINE n == Len(r.params)
           F == Frame(r)
           U(k) == Len(Params(r)[k])
           P(k) == Places(b, n, m - 1)[k]
<1>1. n \in 0 .. 127 /\ F \in Seq(0 .. 255) /\ Len(F) = 4 + U(n)
      /\ F[2] = r.cmd /\ F[3] = n /\ F[Len(F)] = END
  BY FrameBytes, Zenon DEF Framed
<1>2. U(0) = 0 /\ U(n) \in Nat
  <2>1. n \in Nat
    <3> HIDE DEF n
    <3> QED  BY <1>1
  <2>2. Params(r)[0] = <<>>
    BY <2>1, ParamsStep, Zenon
  <2>3. Len(Params(r)[0]) = 0
    BY <2>2
  <2>4. Params(r)[n] \in Seq(0 .. 255)
    BY FrameBytes, Zenon
  <2> QED  BY <2>3, <2>4, LenProperties, Zenon
<1>3. \A k \in 1 .. n : /\ U(k - 1) \in Nat /\ U(k) \in Nat
                        /\ U(k - 1) < U(k) /\ U(k) <= U(n)
                        /\ Wide(r.cmd) => U(k - 1) + 1 < U(k)
                        /\ Wide(r.cmd) => F[3 + U(k - 1) + 1] * 256 + F[3 + U(k - 1) + 2] + 2
                                             = U(k) - U(k - 1)
                        /\ ~Wide(r.cmd) => F[3 + U(k - 1) + 1] + 1 = U(k) - U(k - 1)
  BY SizeInFrame, Zenon
<1>4. /\ P(0) = 3
      /\ \A k \in 1 .. n : Onward(b, m - 1, P(k - 1), P(k))
  <2>1. n \in Nat
    <3> HIDE DEF n
    <3> QED  BY <1>1
  <2>2. P(0) = 3
    BY <2>1, PlacesStep, Zenon
  <2>3. ASSUME NEW k \in 1 .. n
        PROVE  Onward(b, m - 1, P(k - 1), P(k))
    BY <2>1, PlacesStep, Zenon
  <2> QED  BY <2>2, <2>3, Zenon
<1>5. m \in Nat /\ m <= Len(F) /\ m >= 1
  <2> HIDE DEF F
  <2> m \in 1 .. Len(F)  BY DEF F
  <2> QED  BY <1>1
<1>6. \A i \in 1 .. m : b[i] = F[i]
  OBVIOUS
<1>7. EndOfFrame(b) <=> b[m] = END /\ m >= 3 /\ b[3] < 128 /\ Places(b, b[3], m - 1)[b[3]] = m - 1
  BY Zenon DEF EndOfFrame
<1>8. CASE m < 3
  <2>1. ~(m >= 3)
    BY <1>5, <1>8
  <2>2. m # Len(F)
    <3> HIDE DEF F, U, n
    <3> QED  BY <1>1, <1>2, <1>5, <1>8
  <2> QED  BY <1>7, <2>1, <2>2, Zenon
<1>9. CASE m >= 3
  <2>1. b[3] = n /\ b[2] = r.cmd /\ n < 128 /\ n \in Nat
    <3> HIDE DEF F, U, n
    <3>1. 2 \in 1 .. m /\ 3 \in 1 .. m
      BY <1>5, <1>9
    <3> QED  BY <3>1, <1>1, <1>6
  <2>2. \A k \in 0 .. n : P(k) = 3 + U(k) \/ (P(k) = m /\ m < Len(F))
    <3> HIDE DEF F, U, P, n
    <3> DEFINE Off(k) == ~(P(k) = 3 + U(k) \/ (P(k) = m /\ m < Len(F)))
               T == {k \in 0 .. n : Off(k)}
    <3>1. SUFFICES ASSUME T # {} PROVE FALSE
      OBVIOUS
    <3>2. PICK k \in T : \A j \in T : k <= j
      <4> HIDE DEF T
      <4> T \subseteq Nat  BY <2>1 DEF T
      <4> QED  BY <3>1, HasLeast
    <3>3. k \in 0 .. n /\ Off(k)
      BY <3>2
    <3>4. k # 0
      BY <1>2, <1>4, <3>3
    <3>5. k - 1 \in 0 .. n /\ ~Off(k - 1) /\ k \in 1 .. n
      BY <2>1, <3>2, <3>3, <3>4
    <3> HIDE DEF T
    <3>6. PICK a \in Nat : a = U(k - 1)
      BY <1>3, <3>5
    <3>7. PICK c \in Nat : c = U(k)
      BY <1>3, <3>5
    <3>8. PICK l \in Nat : l = U(n) /\ Len(F) = 4 + l
      BY <1>1, <1>2
    <3>9. /\ a < c /\ c <= l
          /\ Wide(r.cmd) => a + 1 < c /\ F[3 + a + 1] * 256 + F[3 + a + 2] + 2 = c - a
          /\ ~Wide(r.cmd) => F[3 + a + 1] + 1 = c - a
      BY <1>3, <3>5, <3>6, <3>7, <3>8, Zenon
    <3>10. CASE P(k - 1) >= m - 1
      <4>1. P(k) = m
        BY <1>4, <1>5, <3>5, <3>10 DEF Onward
      <4>2. m < Len(F)
        BY <1>5, <3>5, <3>6, <3>8, <3>9, <3>10
      <4> QED  BY <3>3, <4>1, <4>2
    <3>11. CASE ~(P(k - 1) >= m - 1)
      <4>1. P(k - 1) = 3 + a /\ 3 + a < m - 1
        BY <1>5, <3>5, <3>6, <3>11
      <4>2. P(k) = 3 + a + ParamSize(b, 3 + a)
        BY <1>4, <3>5, <3>11, <4>1 DEF Onward
      <4>3. ParamSize(b, 3 + a) = c - a
        <5>1. 3 + a + 1 \in 1 .. m /\ 3 + a + 2 \in 1 .. m
          BY <1>5, <4>1
        <5>2. b[3 + a + 1] = F[3 + a + 1] /\ b[3 + a + 2] = F[3 + a + 2]
          BY <1>6, <5>1, Zenon DEF F
        <5> QED  BY <2>1, <3>9, <5>2, Zenon DEF ParamSize
      <4>4. P(k) = 3 + c
        BY <4>2, <4>3
      <4> QED  BY <3>3, <3>7, <4>4
    <3> QED  BY <3>10, <3>11
  <2>3. P(n) = m - 1 <=> m = Len(F)
    <3> HIDE DEF F, U, P, n
    <3>1. n \in 0 .. n
      BY <2>1
    <3> QED  BY <1>1, <1>2, <1>5, <2>2, <3>1
  <2>4. EndOfFrame(b) <=> b[m] = END /\ P(n) = m - 1
    BY <1>7, <1>9, <2>1, Zenon
  <2>5. m = Len(F) => b[m] = END
    <3> HIDE DEF F, U, P, n
    <3> QED  BY <1>1, <1>5, <1>6
  <2> QED  BY <2>3, <2>4, <2>5, Zenon
<1> QED
  <2> HIDE DEF F, U, P, n
  <2>1. m < 3 \/ m >= 3
    BY <1>5
  <2> QED  BY <2>1, <1>8, <1>9

LEMMA FrameIsSeq ==
  ASSUME NEW r \in Calls
  PROVE  /\ Frame(r) \in Seq(0 .. 255) /\ Frame(r)[1] = START /\ Frame(r)[2] = r.cmd
         /\ Len(Frame(r)) \in Nat /\ Len(Frame(r)) >= 4 /\ Len(Frame(r)) < BUFFERSIZE
<1>1. /\ Frame(r) \in Seq(0 .. 255) /\ Frame(r)[1] = START /\ Frame(r)[2] = r.cmd
      /\ Len(Frame(r)) = 4 + Len(Params(r)[Len(r.params)])
      /\ Params(r)[Len(r.params)] \in Seq(0 .. 255)
  BY FrameBytes, Zenon DEF Framed
<1>2. PICK l \in Nat : l = Len(Params(r)[Len(r.params)])
  BY <1>1, LenProperties, Zenon
<1>3. 4 + l \in Nat /\ 4 + l >= 4
  OBVIOUS
<1>4. Len(Frame(r)) < BUFFERSIZE
  BY CallsAssumption, Zenon
<1> QED  BY <1>1, <1>2, <1>3, <1>4, Zenon

-----------------------------------------------------------------------------
(***************************************************************************)
(* The invariant.                                                          *)
(***************************************************************************)

\* What holds whatever the host's pauses do: the host's place in its call, and
\* what the shield has in its buffers.
HostTidy ==
  /\ hpc = "send" => hi < Len(Frame(call))
  /\ hpc # "read" => got = <<>>
  /\ hpc = "idle" => hi = 0 /\ ~paused
  /\ paused => trouble
  /\ gaps = 0 => ~trouble

ShieldTidy ==
  /\ sh = "listen" => rbuf = <<>> /\ rdr = <<>>
  /\ sh = "isr" => IF tx = <<>> THEN rbuf # <<>> /\ rdr = <<>>
                                ELSE rbuf = <<>> /\ rdr # <<>>
  /\ sh = "busy" => Len(rbuf) >= 3 /\ tx = <<>>
  /\ sh # "reply" => rest = <<>>

\* A command that is acknowledged first has not run, the others have.
RanByReply == ran = IF call.cmd \in SetCmds THEN <<>> ELSE <<Frame(call)>>

\* The host has read the bytes got of the reply, the next is on its way, and
\* the rest is to be written.
Reading(w) ==
  /\ Len(got) \in 0 .. 4 /\ Len(tx) = 1 /\ Len(rest) = 4 - Len(got)
  /\ \A i \in 1 .. Len(got) : got[i] = w[i]
  /\ tx[1] = w[Len(got) + 1]
  /\ \A i \in 1 .. Len(rest) : rest[i] = w[Len(got) + 1 + i]

\* The stages of a call that meets no trouble.
AtRest == /\ hpc = "idle" /\ answer = "none" /\ sh = "listen" /\ tx = <<>> /\ ran = <<>>
Sending == /\ hpc = "send" /\ tx = <<>> /\ ran = <<>>
           /\ sh = IF hi = 0 THEN "listen" ELSE "isr"
           /\ rbuf = SubSeq(Frame(call), 1, hi)
Waiting == /\ hpc = "wait" /\ tx = <<>> /\ ran = <<>>
           /\ sh = "busy" /\ rbuf = Frame(call)
Replied == /\ hpc \in {"wait", "start"} /\ RanByReply
           /\ sh = "reply" /\ rbuf = Frame(call)
           /\ tx = <<START>> /\ rest = Tail(ReplyTo(call.cmd))
BeingRead == /\ hpc = "read" /\ RanByReply
             /\ sh = "reply" /\ rbuf = Frame(call)
             /\ Reading(Tail(ReplyTo(call.cmd)))
Finished == /\ hpc = "idle" /\ answer = "ok" /\ tx = <<>>
            /\ \/ sh = "listen" /\ ran = <<Frame(call)>>
               \/ sh = "set" /\ rbuf = Frame(call) /\ ran = <<>> /\ call.cmd \in SetCmds

Smooth == ~trouble =>
  /\ rdr = <<>>
  /\ AtRest \/ Sending \/ Waiting \/ Replied \/ BeingRead \/ Finished

IInv == TypeOK /\ HostTidy /\ ShieldTidy /\ Smooth

-----------------------------------------------------------------------------
(***************************************************************************)
(* The shield's part of the types, over each thing that happens to it.     *)
(***************************************************************************)

ShieldTypes == /\ sh \in {"listen", "isr", "busy", "reply", "set"}
               /\ rbuf \in Seq(0 .. 255) /\ Len(rbuf) < BUFFERSIZE
               /\ rdr \in Seq(0 .. 255) /\ Len(rdr) <= 1
               /\ last \in 0 .. 255
               /\ tx \in Seq(0 .. 255) /\ Len(tx) <= 2
               /\ rest \in Seq(0 .. 255)
               /\ ran \in Seq(Seq(0 .. 255))

LEMMA AppendByte ==
  ASSUME NEW q \in Seq(0 .. 255), NEW b \in 0 .. 255
  PROVE  /\ Append(q, b) \in Seq(0 .. 255) /\ Len(Append(q, b)) = Len(q) + 1
         /\ Append(q, b) # <<>>
         /\ \A i \in 1 .. Len(q) : Append(q, b)[i] = q[i]
         /\ Append(q, b)[Len(q) + 1] = b
<1>1. Append(q, b) \in Seq(0 .. 255) /\ Len(Append(q, b)) = Len(q) + 1
  OBVIOUS
<1>2. Append(q, b) # <<>>
  <2>1. Len(q) + 1 # 0
    OBVIOUS
  <2>2. Len(<<>>) = 0
    BY EmptySeq
  <2> QED  BY <1>1, <2>1, <2>2, Zenon
<1>3. \A i \in 1 .. Len(q) : Append(q, b)[i] = q[i]
  OBVIOUS
<1>4. Append(q, b)[Len(q) + 1] = b
  OBVIOUS
<1> QED  BY <1>1, <1>2, <1>3, <1>4

LEMMA FirstByte ==
  ASSUME NEW q \in Seq(0 .. 255), q # <<>>
  PROVE  /\ Head(q) \in 0 .. 255 /\ Head(q) = q[1]
         /\ Tail(q) \in Seq(0 .. 255) /\ Len(Tail(q)) = Len(q) - 1
         /\ Len(q) \in Nat /\ Len(q) >= 1
         /\ \A i \in 1 .. Len(q) - 1 : Tail(q)[i] = q[i + 1]
<1>1. Head(q) \in 0 .. 255 /\ Head(q) = q[1] /\ Len(q) \in Nat /\ Len(q) >= 1
  <2>1. Len(q) \in Nat /\ Len(q) # 0
    BY LenProperties, EmptySeq
  <2>2. Len(q) >= 1
    BY <2>1
  <2>3. Head(q) = q[1]
    OBVIOUS
  <2>4. 1 \in 1 .. Len(q)
    BY <2>1
  <2>5. q[1] \in 0 .. 255
    BY <2>4, ElementOfSeq, Zenon
  <2> QED  BY <2>1, <2>2, <2>3, <2>5
<1>2. Tail(q) \in Seq(0 .. 255) /\ Len(Tail(q)) = Len(q) - 1
  OBVIOUS
<1>3. \A i \in 1 .. Len(q) - 1 : Tail(q)[i] = q[i + 1]
  OBVIOUS
<1> QED  BY <1>1, <1>2, <1>3

LEMMA OneByte ==
  ASSUME NEW b \in 0 .. 255
  PROVE  <<b>> \in Seq(0 .. 255) /\ Len(<<b>>) = 1 /\ <<b>>[1] = b /\ Head(<<b>>) = b
OBVIOUS

\* A byte arrives.
LEMMA ArriveTypes ==
  ASSUME ShieldTypes, ShieldTidy, BUFFERSIZE \in Nat, BUFFERSIZE > 4,
         NEW b \in 0 .. 255, Arrive(b), ran' = ran
  PROVE  ShieldTypes' /\ ShieldTidy'
<1> DEFINE tail == IF Len(tx) > 1 THEN Tail(tx) ELSE <<>>
<1>1. /\ tail \in Seq(0 .. 255) /\ Len(tail) <= 1 /\ (Len(tx) <= 1 => tail = <<>>)
      /\ <<b>> \in Seq(0 .. 255) /\ Len(<<b>>) = 1 /\ <<>> \in Seq(0 .. 255) /\ Len(<<>>) = 0
  BY DEF ShieldTypes
<1> HIDE DEF tail
<1>2. last' = b
  BY DEF Arrive
<1>3. CASE sh \in {"listen", "isr"} /\ Len(tx) <= 1 /\ Taken(b) /\ rdr' = <<>> /\ rest' = rest
  <2>1. tx' = <<>>
    BY <1>1, <1>3 DEF Arrive, tail
  <2>2. PICK f \in Seq(0 .. 255) : f = Append(rbuf, b) /\ Len(f) = Len(rbuf) + 1 /\ f # <<>>
    <3> rbuf \in Seq(0 .. 255)  BY DEF ShieldTypes
    <3> QED  BY AppendByte, Zenon
  <2>3. CASE Len(f) >= BUFFERSIZE
    <3>1. rbuf' = <<>> /\ sh' = "listen"
      BY <1>3, <2>2, <2>3 DEF Taken
    <3> QED  BY <1>1, <1>2, <1>3, <2>1, <3>1 DEF ShieldTypes, ShieldTidy
  <2>4. CASE ~(Len(f) >= BUFFERSIZE)
    <3>1. rbuf' = f /\ sh' = IF EndOfFrame(f) THEN "busy" ELSE "isr"
      BY <1>3, <2>2, <2>4, Zenon DEF Taken
    <3>2. EndOfFrame(f) => Len(f) >= 3
      BY Zenon DEF EndOfFrame
    <3>3. PICK l \in Nat : l = Len(rbuf) /\ l + 1 = Len(f)
      BY <2>2 DEF ShieldTypes
    <3>4. sh' \in {"isr", "busy"} /\ (sh' = "busy" => l + 1 >= 3)
      BY <3>1, <3>2, <3>3
    <3>5. l + 1 < BUFFERSIZE
      BY <2>4, <3>3
    <3>7. ShieldTypes'
      BY <1>1, <1>2, <1>3, <2>1, <3>1, <3>3, <3>4, <3>5 DEF ShieldTypes
    <3>8. ShieldTidy'
      BY <1>3, <2>1, <2>2, <3>1, <3>3, <3>4 DEF ShieldTidy
    <3> QED  BY <3>7, <3>8
  <2> QED  BY <2>3, <2>4
<1>8. CASE /\ sh \in {"listen", "isr"} /\ Len(tx) > 1
           /\ sh' = "isr" /\ rdr' = <<b>> /\ UNCHANGED <<rbuf, rest>>
  <2>1. tx' = Tail(tx) /\ tx # <<>>
    BY <1>1, <1>8 DEF Arrive
  <2>2. tx' \in Seq(0 .. 255) /\ Len(tx') = Len(tx) - 1
    BY <2>1, FirstByte, Zenon DEF ShieldTypes
  <2>3. tx' # <<>> /\ Len(tx') <= 2 /\ rdr' # <<>>
    BY <1>1, <1>8, <2>2 DEF ShieldTypes
  <2>4. rbuf' = <<>>
    BY <1>8, <2>1 DEF ShieldTidy
  <2> QED  BY <1>1, <1>2, <1>8, <2>2, <2>3, <2>4 DEF ShieldTypes, ShieldTidy
<1>4. CASE sh \in {"busy", "set"} /\ rdr' = <<b>> /\ UNCHANGED <<sh, rbuf, rest>>
  <2>1. tx' = tail
    BY <1>4 DEF Arrive, tail
  <2> QED  BY <1>1, <1>2, <1>4, <2>1 DEF ShieldTypes, ShieldTidy
<1>5. CASE sh = "reply" /\ Len(tx) > 1 /\ rdr' = <<b>> /\ UNCHANGED <<sh, rbuf, rest>>
  <2>1. tx' = tail
    BY <1>5 DEF Arrive, tail
  <2> QED  BY <1>1, <1>2, <1>5, <2>1 DEF ShieldTypes, ShieldTidy
<1>6. CASE sh = "reply" /\ Len(tx) <= 1 /\ rest # <<>> /\ rest' = Tail(rest) /\ rdr' = <<>>
           /\ UNCHANGED <<sh, rbuf>>
  <2>1. ~(Len(tx) > 1)
    BY <1>6 DEF ShieldTypes
  <2>2. tx' = <<Head(rest)>>
    BY <1>6, <2>1, Zenon DEF Arrive
  <2>3. /\ <<Head(rest)>> \in Seq(0 .. 255) /\ Len(<<Head(rest)>>) = 1
        /\ Tail(rest) \in Seq(0 .. 255)
    <3>1. rest \in Seq(0 .. 255)
      BY DEF ShieldTypes
    <3>2. Head(rest) \in 0 .. 255 /\ Tail(rest) \in Seq(0 .. 255)
      BY <1>6, <3>1, FirstByte, Zenon
    <3> QED  BY <3>2, OneByte, Zenon
  <2> QED  BY <1>1, <1>2, <1>6, <2>2, <2>3 DEF ShieldTypes, ShieldTidy
<1>7. CASE sh = "reply" /\ Len(tx) <= 1 /\ rest = <<>>
           /\ sh' = (IF IsSet THEN "set" ELSE "listen")
           /\ rbuf' = (IF IsSet THEN rbuf ELSE <<>>)
           /\ rdr' = <<>> /\ UNCHANGED rest
  <2>1. tx' = <<>>
    BY <1>1, <1>7, Zenon DEF Arrive, tail
  <2> QED  BY <1>1, <1>2, <1>7, <2>1 DEF ShieldTypes, ShieldTidy
<1> QED  BY <1>3, <1>4, <1>5, <1>6, <1>7, <1>8 DEF Arrive

LEMMA Bounded ==
  ASSUME NEW r \in Calls
  PROVE  BUFFERSIZE \in Nat /\ BUFFERSIZE > 4
<1>1. PICK n \in Nat : n = Len(Frame(r)) /\ n >= 4 /\ n < BUFFERSIZE
  BY FrameIsSeq, Zenon
<1>2. BUFFERSIZE \in Nat
  BY SizeAssumption
<1> QED  BY <1>1, <1>2

LEMMA MessageIn ==
  ASSUME NEW b \in Seq(0 .. 255)
  PROVE  /\ Message(b) \in Seq(0 .. 255) /\ Len(Message(b)) <= Len(b)
         /\ b # <<>> /\ b[1] = START => Message(b) = b
<1> DEFINE s == {i \in 1 .. Len(b) : b[i] = START}
           i == CHOOSE i \in s : \A j \in s : i <= j
<1>1. Len(b) \in Nat
  BY LenProperties
<1>2. CASE s = {}
  <2>1. Message(b) = <<>>
    BY <1>2, Zenon DEF Message
  <2>2. <<>> \in Seq(0 .. 255) /\ Len(<<>>) = 0
    BY EmptySeq
  <2>3. b # <<>> /\ b[1] = START => 1 \in s
    <3> HIDE DEF i
    <3> SUFFICES ASSUME b # <<>>, b[1] = START PROVE 1 \in s
      OBVIOUS
    <3>1. Len(b) >= 1
      BY FirstByte, Zenon
    <3> QED  BY <1>1, <3>1
  <2> QED  BY <1>1, <1>2, <2>1, <2>2, <2>3
<1>3. CASE s # {}
  <2>1. \E n \in s : \A j \in s : n <= j
    <3> s \subseteq Nat  BY <1>1
    <3> HIDE DEF s
    <3> QED  BY <1>3, HasLeast, Zenon
  <2>2. i \in s /\ \A j \in s : i <= j
    <3> HIDE DEF s
    <3> QED  BY <2>1, Zenon
  <2>3. Message(b) = SubSeq(b, i, Len(b))
    BY <1>3, Zenon DEF Message
  <2> HIDE DEF i
  <2>4. i \in 1 .. Len(b)
    BY <2>2
  <2>5. SubSeq(b, i, Len(b)) \in Seq(0 .. 255) /\ Len(SubSeq(b, i, Len(b))) = Len(b) - i + 1
    <3>1. PICK k \in Nat : k = i /\ k >= 1 /\ k <= Len(b)
      BY <1>1, <2>4
    <3> HIDE DEF s
    <3>2. k \in Int /\ Len(b) \in Int /\ \A j \in k .. Len(b) : b[j] \in 0 .. 255
      <4>1. \A j \in k .. Len(b) : j \in 1 .. Len(b)
        BY <1>1, <3>1
      <4> QED  BY <1>1, <4>1, ElementOfSeq
    <3>3. SubSeq(b, k, Len(b)) \in Seq(0 .. 255)
      BY <3>2, SubSeqProperties, Zenon
    <3>4. Len(SubSeq(b, k, Len(b))) = IF k <= Len(b) THEN Len(b) - k + 1 ELSE 0
      BY <3>2, SubSeqProperties, Zenon
    <3> QED  BY <3>1, <3>3, <3>4
  <2>6. Len(Message(b)) <= Len(b)
    BY <1>1, <2>3, <2>4, <2>5
  <2>7. b[1] = START => Message(b) = b
    <3> SUFFICES ASSUME b[1] = START PROVE Message(b) = b
      OBVIOUS
    <3>1. 1 \in s
      BY <1>1, <2>4
    <3>2. i = 1
      BY <2>2, <2>4, <3>1
    <3>3. SubSeq(b, 1, Len(b)) = b
      BY <1>1
    <3> QED  BY <2>3, <3>2, <3>3
  <2> QED  BY <2>3, <2>5, <2>6, <2>7
<1> QED  BY <1>2, <1>3

LEMMA ReplyBytes ==
  ASSUME NEW c \in Cmds
  PROVE  /\ Tail(ReplyTo(c)) \in Seq(0 .. 255)
         /\ Tail(ReplyTo(c)) = <<c + 128, 1, 1, 1, END>>
<1>1. c \in 16 .. 70
  BY DEF Cmds, SetCmds, GetCmds, ImmSetCmds
<1>2. Tail(ReplyTo(c)) = <<c + 128, 1, 1, 1, END>>
  BY DEF ReplyTo, Reply
<1>3. <<c + 128, 1, 1, 1, END>> \in Seq(0 .. 255)
  BY <1>1 DEF END
<1> QED  BY <1>2, <1>3

\* The interrupt is enabled again.
LEMMA ListenTypes ==
  ASSUME ShieldTypes, Listen
  PROVE  /\ sh' \in {"listen", "isr"}
         /\ rbuf' \in Seq(0 .. 255) /\ Len(rbuf') <= 1
         /\ rdr' \in Seq(0 .. 255) /\ Len(rdr') <= 1
         /\ sh' = "listen" => rbuf' = <<>> /\ rdr' = <<>>
         /\ sh' = "isr" => IF tx' = <<>> THEN rbuf' # <<>> /\ rdr' = <<>>
                                         ELSE rbuf' = <<>> /\ rdr' # <<>>
<1>1. <<>> \in Seq(0 .. 255) /\ Len(<<>>) = 0
  BY EmptySeq
<1> QED  BY <1>1 DEF ShieldTypes, Listen

LEMMA ListenTidy ==
  ASSUME ShieldTypes, Listen, BUFFERSIZE \in Nat, BUFFERSIZE > 4,
         last' = last, rest' = <<>>, tx' \in Seq(0 .. 255), Len(tx') <= 2,
         ran' \in Seq(Seq(0 .. 255))
  PROVE  ShieldTypes' /\ ShieldTidy'
<1>1. /\ sh' \in {"listen", "isr"}
      /\ rbuf' \in Seq(0 .. 255) /\ Len(rbuf') <= 1
      /\ rdr' \in Seq(0 .. 255) /\ Len(rdr') <= 1
      /\ sh' = "listen" => rbuf' = <<>> /\ rdr' = <<>>
      /\ sh' = "isr" => IF tx' = <<>> THEN rbuf' # <<>> /\ rdr' = <<>>
                                      ELSE rbuf' = <<>> /\ rdr' # <<>>
  BY ListenTypes, Zenon
<1>2. Len(rbuf') \in Nat /\ rest' \in Seq(0 .. 255)
  BY <1>1, LenProperties, EmptySeq
<1>3. ShieldTypes'
  BY <1>1, <1>2 DEF ShieldTypes
<1>4. ShieldTidy'
  BY <1>1 DEF ShieldTidy
<1> QED  BY <1>3, <1>4

LEMMA PollTypes ==
  ASSUME ShieldTypes, ShieldTidy, BUFFERSIZE \in Nat, BUFFERSIZE > 4, Poll
  PROVE  ShieldTypes' /\ ShieldTidy'
<1>1. PICK msg \in Seq(0 .. 255) : msg = Message(rbuf) /\ Len(msg) <= Len(rbuf)
  BY MessageIn, Zenon DEF ShieldTypes
<1>2. sh = "busy" /\ tx = <<>> /\ rest = <<>> /\ last' = last
  BY DEF Poll, ShieldTidy
<1>3. CASE /\ msg[2] \in Cmds
           /\ sh' = "reply"
           /\ rbuf' = msg
           /\ tx' = Append(tx, START)
           /\ rest' = Tail(ReplyTo(msg[2]))
           /\ ran' = IF msg[2] \in SetCmds THEN ran ELSE Append(ran, msg)
           /\ UNCHANGED rdr
  <2>1. tx' \in Seq(0 .. 255) /\ Len(tx') = 1
    BY <1>2, <1>3 DEF START
  <2>2. rest' \in Seq(0 .. 255)
    BY <1>3, ReplyBytes, Zenon
  <2>3. ran' \in Seq(Seq(0 .. 255))
    BY <1>3 DEF ShieldTypes
  <2>4. rbuf' \in Seq(0 .. 255) /\ Len(rbuf') < BUFFERSIZE
    <3> Len(msg) \in Nat /\ Len(rbuf) \in Nat  BY LenProperties DEF ShieldTypes
    <3> QED  BY <1>1, <1>3 DEF ShieldTypes
  <2>5. ShieldTypes'
    BY <1>2, <1>3, <2>1, <2>2, <2>3, <2>4 DEF ShieldTypes
  <2>6. ShieldTidy'
    BY <1>3 DEF ShieldTidy
  <2> QED  BY <2>5, <2>6
<1>4. CASE msg[2] \notin Cmds /\ Listen /\ UNCHANGED <<tx, rest, ran>>
  <2>1. rest' = <<>> /\ tx' \in Seq(0 .. 255) /\ Len(tx') <= 2 /\ ran' \in Seq(Seq(0 .. 255))
    BY <1>2, <1>4 DEF ShieldTypes
  <2> QED  BY <1>2, <1>4, <2>1, ListenTidy
<1> QED  BY <1>1, <1>3, <1>4 DEF Poll

LEMMA PollBadTypes ==
  ASSUME ShieldTypes, ShieldTidy, BUFFERSIZE \in Nat, BUFFERSIZE > 4, PollBad
  PROVE  ShieldTypes' /\ ShieldTidy'
<1>1. tx = <<>> /\ rest' = <<>> /\ last' = last
  BY DEF PollBad, ShieldTidy
<1>2. tx' \in Seq(0 .. 255) /\ Len(tx') <= 2
  BY <1>1 DEF PollBad, ERR
<1>3. ran' \in Seq(Seq(0 .. 255)) /\ Listen
  BY DEF PollBad, ShieldTypes
<1> QED  BY <1>1, <1>2, <1>3, ListenTidy

LEMMA RunSetTypes ==
  ASSUME ShieldTypes, ShieldTidy, BUFFERSIZE \in Nat, BUFFERSIZE > 4, RunSet
  PROVE  ShieldTypes' /\ ShieldTidy'
<1>1. rest' = <<>> /\ last' = last /\ Listen /\ tx' = tx
  BY DEF RunSet, ShieldTidy
<1>2. ran' \in Seq(Seq(0 .. 255))
  BY DEF RunSet, ShieldTypes
<1> QED  BY <1>1, <1>2, ListenTidy DEF ShieldTypes

LEMMA StreamTimeoutTypes ==
  ASSUME ShieldTypes, ShieldTidy, BUFFERSIZE \in Nat, BUFFERSIZE > 4, StreamTimeout
  PROVE  ShieldTypes' /\ ShieldTidy'
<1>1. sh = "reply" /\ last' = last /\ ran' = ran /\ ran' \in Seq(Seq(0 .. 255))
  BY DEF StreamTimeout, ShieldTypes
<1>2. CASE rest # <<>> /\ Len(tx) < 2 /\ tx' = Append(tx, Head(rest)) /\ rest' = Tail(rest)
           /\ UNCHANGED <<sh, rbuf, rdr>>
  <2>1. Head(rest) \in 0 .. 255 /\ Tail(rest) \in Seq(0 .. 255)
    BY <1>2, FirstByte, Zenon DEF ShieldTypes
  <2>2. tx' \in Seq(0 .. 255) /\ Len(tx') = Len(tx) + 1
    BY <1>2, <2>1, AppendByte, Zenon DEF ShieldTypes
  <2>3. Len(tx') <= 2
    <3> Len(tx) \in Nat  BY LenProperties DEF ShieldTypes
    <3> QED  BY <1>2, <2>2
  <2> QED  BY <1>1, <1>2, <2>1, <2>2, <2>3 DEF ShieldTypes, ShieldTidy
<1>3. CASE rest # <<>> /\ Len(tx) = 2 /\ rest' = <<>> /\ Listen /\ UNCHANGED tx
  BY <1>1, <1>3, ListenTidy DEF ShieldTypes
<1>4. CASE rest = <<>> /\ Written /\ UNCHANGED <<tx, rest>>
  <2>1. CASE IsSet
    BY <1>1, <1>4, <2>1 DEF Written, ShieldTypes, ShieldTidy
  <2>2. CASE ~IsSet
    BY <1>1, <1>4, <2>2, ListenTidy DEF Written, ShieldTypes
  <2> QED  BY <2>1, <2>2
<1> QED  BY <1>2, <1>3, <1>4 DEF StreamTimeout

LEMMA IsrTimeoutTypes ==
  ASSUME ShieldTypes, ShieldTidy, BUFFERSIZE \in Nat, BUFFERSIZE > 4, IsrTimeout
  PROVE  ShieldTypes' /\ ShieldTidy'
<1>1. <<>> \in Seq(0 .. 255) /\ Len(<<>>) = 0
  BY EmptySeq
<1>2. ShieldTypes'
  BY <1>1 DEF IsrTimeout, wire, ShieldTypes
<1>3. ShieldTidy'
  BY DEF IsrTimeout, wire, ShieldTidy
<1> QED  BY <1>2, <1>3

-----------------------------------------------------------------------------
(***************************************************************************)
(* The types and the tidy states, over the host's steps.                   *)
(***************************************************************************)

HostTypes == /\ hpc \in {"idle", "send", "wait", "start", "read"}
             /\ call \in Calls
             /\ hi \in Nat
             /\ got \in Seq(0 .. 255)
             /\ answer \in {"none", "ok", "lost"}
             /\ paused \in BOOLEAN /\ trouble \in BOOLEAN
             /\ gaps \in 0 .. MaxGaps

LEMMA Types == TypeOK <=> HostTypes /\ ShieldTypes
BY DEF TypeOK, HostTypes, ShieldTypes

LEMMA SeenIsByte ==
  ASSUME ShieldTypes
  PROVE  Seen \in 0 .. 255
<1>1. tx # <<>> => Head(tx) \in 0 .. 255
  BY FirstByte, Zenon DEF ShieldTypes
<1>2. last \in 0 .. 255
  BY DEF ShieldTypes
<1> QED  BY <1>1, <1>2, Zenon DEF Seen

\* The wire and the shield as they are.
LEMMA ShieldStays ==
  ASSUME ShieldTypes, ShieldTidy, UNCHANGED wire, UNCHANGED <<sh, rbuf, rest>>,
         ran' \in Seq(Seq(0 .. 255))
  PROVE  ShieldTypes' /\ ShieldTidy'
BY DEF ShieldTypes, ShieldTidy, wire

LEMMA SendTidy ==
  ASSUME TypeOK, HostTidy, ShieldTidy, Send
  PROVE  TypeOK' /\ HostTidy' /\ ShieldTidy'
<1> DEFINE F == Frame(call)
<1>1. HostTypes /\ ShieldTypes /\ call \in Calls /\ hpc = "send" /\ hi \in Nat
  BY Types DEF HostTypes, Send
<1>2. PICK l \in Nat : l = Len(F) /\ F \in Seq(0 .. 255)
  BY <1>1, FrameIsSeq, Zenon
<1>3. BUFFERSIZE \in Nat /\ BUFFERSIZE > 4
  BY <1>1, Bounded, Zenon
<1> HIDE DEF F
<1>4. hi < l /\ hi' = hi + 1
  BY <1>1, <1>2, Zenon DEF HostTidy, Send, F
<1>5. hi + 1 \in 1 .. l /\ hi + 1 \in Nat
  BY <1>1, <1>4
<1>6. F[hi + 1] \in 0 .. 255
  BY <1>2, <1>5, ElementOfSeq, Zenon
<1>7. Arrive(F[hi + 1]) /\ ran' = ran
  BY <1>4, Zenon DEF Send, F
<1>8. ShieldTypes' /\ ShieldTidy'
  BY <1>1, <1>3, <1>6, <1>7, ArriveTypes
<1>9. hpc' = IF hi + 1 = l THEN "wait" ELSE "send"
  BY <1>2, <1>4, Zenon DEF Send, F
<1>10. UNCHANGED <<call, got, answer, paused, gaps, ran, trouble>>
  BY DEF Send
<1>11. HostTypes'
  BY <1>1, <1>4, <1>5, <1>9, <1>10 DEF HostTypes
<1>12. HostTidy'
  <2>1. hpc' = "send" => hi' < Len(Frame(call))'
    <3>1. Len(Frame(call))' = l
      BY <1>2, <1>10 DEF F
    <3> QED  BY <1>4, <1>5, <1>9, <3>1
  <2>2. hpc' \in {"send", "wait"}
    BY <1>9
  <2> QED  BY <1>1, <1>10, <2>1, <2>2 DEF HostTidy
<1> QED  BY <1>8, <1>11, <1>12 DEF TypeOK, HostTypes, ShieldTypes

LEMMA WaitReadyTidy ==
  ASSUME TypeOK, HostTidy, ShieldTidy, WaitReady
  PROVE  TypeOK' /\ HostTidy' /\ ShieldTidy'
<1>1. HostTypes /\ ShieldTypes
  BY Types
<1>2. ShieldTypes' /\ ShieldTidy'
  BY <1>1, ShieldStays DEF WaitReady, shield, ShieldTypes
<1>3. HostTypes' /\ HostTidy'
  BY <1>1 DEF WaitReady, HostTypes, HostTidy
<1> QED  BY <1>2, <1>3 DEF TypeOK, HostTypes, ShieldTypes

LEMMA ReadStartTidy ==
  ASSUME TypeOK, HostTidy, ShieldTidy, ReadStart
  PROVE  TypeOK' /\ HostTidy' /\ ShieldTidy'
<1>1. HostTypes /\ ShieldTypes /\ BUFFERSIZE \in Nat /\ BUFFERSIZE > 4
  <2> call \in Calls  BY DEF TypeOK
  <2> QED  BY Types, Bounded, Zenon
<1>2. ShieldTypes' /\ ShieldTidy'
  <2>1. Arrive(DUMMY) /\ ran' = ran /\ DUMMY \in 0 .. 255
    BY DEF ReadStart, DUMMY
  <2> QED  BY <1>1, <2>1, ArriveTypes, Zenon
<1>3. HostTypes' /\ HostTidy'
  <2>1. /\ hpc = "start" /\ got = <<>> /\ <<>> \in Seq(0 .. 255)
        /\ UNCHANGED <<call, paused, gaps, ran, trouble>> /\ ~paused
    BY EmptySeq DEF ReadStart, HostTidy
  <2>2. CASE hpc' = "read" /\ hi' = 0 /\ UNCHANGED <<got, answer>>
    BY <1>1, <2>1, <2>2 DEF HostTypes, HostTidy
  <2>3. CASE hi' = hi + 1 /\ UNCHANGED <<hpc, got, answer>>
    BY <1>1, <2>1, <2>3 DEF HostTypes, HostTidy
  <2>4. CASE Return("lost")
    BY <1>1, <2>1, <2>4 DEF HostTypes, HostTidy, Return
  <2> QED  BY <2>2, <2>3, <2>4, Zenon DEF ReadStart
<1> QED  BY <1>2, <1>3 DEF TypeOK, HostTypes, ShieldTypes

LEMMA ReadReplyTidy ==
  ASSUME TypeOK, HostTidy, ShieldTidy, ReadReply
  PROVE  TypeOK' /\ HostTidy' /\ ShieldTidy'
<1>1. HostTypes /\ ShieldTypes /\ BUFFERSIZE \in Nat /\ BUFFERSIZE > 4
  <2> call \in Calls  BY DEF TypeOK
  <2> QED  BY Types, Bounded, Zenon
<1>2. ShieldTypes' /\ ShieldTidy'
  <2>1. Arrive(DUMMY) /\ ran' = ran /\ DUMMY \in 0 .. 255
    BY DEF ReadReply, DUMMY
  <2> QED  BY <1>1, <2>1, ArriveTypes, Zenon
<1>3. HostTypes' /\ HostTidy'
  <2>1. /\ hpc = "read" /\ <<>> \in Seq(0 .. 255)
        /\ UNCHANGED <<call, paused, gaps, ran, trouble>> /\ ~paused
    BY EmptySeq DEF ReadReply
  <2>2. Append(got, Seen) \in Seq(0 .. 255)
    BY <1>1, SeenIsByte, AppendByte, Zenon DEF HostTypes
  <2>3. CASE got' = Append(got, Seen) /\ UNCHANGED <<hpc, hi, answer>>
    BY <1>1, <2>1, <2>2, <2>3 DEF HostTypes, HostTidy
  <2>4. CASE \E a \in {"lost", "ok"} : Return(a)
    BY <1>1, <2>1, <2>4 DEF HostTypes, HostTidy, Return
  <2> QED  BY <2>3, <2>4, Zenon DEF ReadReply
<1> QED  BY <1>2, <1>3 DEF TypeOK, HostTypes, ShieldTypes

LEMMA PauseTidy ==
  ASSUME TypeOK, HostTidy, ShieldTidy, Pause \/ Resume
  PROVE  TypeOK' /\ HostTidy' /\ ShieldTidy'
<1>1. HostTypes /\ ShieldTypes
  BY Types
<1>2. ShieldTypes' /\ ShieldTidy'
  BY <1>1, ShieldStays DEF Pause, Resume, shield, ShieldTypes
<1>3. HostTypes' /\ HostTidy'
  <2>0. gaps' \in 0 .. MaxGaps
    <3>1. MaxGaps \in Nat /\ gaps \in 0 .. MaxGaps
      BY <1>1, SizeAssumption DEF HostTypes
    <3>2. gaps' = gaps \/ (gaps' = gaps + 1 /\ gaps < MaxGaps)
      BY DEF Pause, Resume
    <3> QED  BY <3>1, <3>2
  <2>1. HostTypes'
    <3>1. UNCHANGED host /\ paused' \in BOOLEAN /\ trouble' \in BOOLEAN
      BY <1>1 DEF Pause, Resume, HostTypes
    <3> QED  BY <1>1, <2>0, <3>1 DEF host, HostTypes
  <2>2. CASE Pause
    <3>1. gaps' # 0 /\ paused' /\ trouble' /\ hpc' # "idle"
      BY <1>1, <2>2, SizeAssumption DEF Pause, host, HostTypes
    <3> QED  BY <2>1, <2>2, <3>1 DEF Pause, host, HostTidy
  <2>3. CASE Resume
    BY <2>1, <2>3 DEF Resume, host, HostTidy
  <2> QED  BY <2>1, <2>2, <2>3
<1> QED  BY <1>2, <1>3 DEF TypeOK, HostTypes, ShieldTypes

LEMMA ShieldStepTidy ==
  ASSUME TypeOK, HostTidy, ShieldTidy, Shield \/ StreamTimeout \/ IsrTimeout
  PROVE  TypeOK' /\ HostTidy' /\ ShieldTidy'
<1>1. HostTypes /\ ShieldTypes /\ BUFFERSIZE \in Nat /\ BUFFERSIZE > 4
  <2> call \in Calls  BY DEF TypeOK
  <2> QED  BY Types, Bounded, Zenon
<1>2. ShieldTypes' /\ ShieldTidy'
  BY <1>1, PollTypes, PollBadTypes, RunSetTypes, StreamTimeoutTypes, IsrTimeoutTypes, Zenon
     DEF Shield
<1>3. UNCHANGED host /\ UNCHANGED <<paused, gaps, trouble>>
  BY DEF Shield, Poll, PollBad, RunSet, StreamTimeout, IsrTimeout
<1>4. HostTypes' /\ HostTidy'
  BY <1>1, <1>3 DEF host, HostTypes, HostTidy
<1> QED  BY <1>2, <1>4 DEF TypeOK, HostTypes, ShieldTypes

-----------------------------------------------------------------------------
(***************************************************************************)
(* A call that meets no trouble, stage by stage.                           *)
(***************************************************************************)

LEMMA CallSmooth ==
  ASSUME IInv, NEW r \in Calls, Call(r)
  PROVE  TypeOK' /\ HostTidy' /\ ShieldTidy' /\ Smooth'
<1>1. HostTypes /\ ShieldTypes /\ HostTidy /\ ShieldTidy
  BY Types DEF IInv
<1>2. PICK l \in Nat : l = Len(Frame(r)) /\ l >= 4
  BY FrameIsSeq, Zenon
<1>3. /\ hpc = "idle" /\ hi = 0 /\ ~paused /\ got = <<>>
      /\ hpc' = "send" /\ call' = r /\ answer' = "none" /\ ran' = <<>> /\ trouble' = ~InStep
      /\ UNCHANGED <<hi, got, paused, gaps, sh, rbuf, rest>> /\ UNCHANGED wire
  BY <1>1 DEF Call, HostTidy
<1>4. ran' \in Seq(Seq(0 .. 255))
  BY <1>3
<1>5. ShieldTypes' /\ ShieldTidy'
  BY <1>1, <1>3, <1>4, ShieldStays
<1>6. HostTypes'
  BY <1>1, <1>3 DEF HostTypes, InStep
<1>7. gaps = 0 => InStep
  <2> SUFFICES ASSUME gaps = 0 PROVE InStep
    OBVIOUS
  <2>1. ~trouble /\ rdr = <<>>
    BY <1>1 DEF HostTidy, IInv, Smooth
  <2>2. AtRest \/ Finished
    BY <1>3, <2>1 DEF IInv, Smooth, Sending, Waiting, Replied, BeingRead
  <2>3. Avail
    BY DEF Call
  <2> QED  BY <2>1, <2>2, <2>3 DEF AtRest, Finished, Avail, InStep
<1>8. HostTidy'
  <2>1. hi' < Len(Frame(call))'
    BY <1>2, <1>3
  <2> QED  BY <1>3, <1>7, <2>1 DEF HostTidy
<1>9. Smooth'
  <2> SUFFICES ASSUME ~trouble' PROVE rdr' = <<>> /\ Sending'
    BY DEF Smooth
  <2>1. sh = "listen" /\ tx = <<>> /\ rdr = <<>> /\ rbuf = <<>>
    BY <1>1, <1>3 DEF InStep, ShieldTidy
  <2>2. SubSeq(Frame(r), 1, 0) = <<>>
    BY <1>2, SubSeqEmpty
  <2>3. sh' = "listen" /\ tx' = <<>> /\ rdr' = <<>> /\ rbuf' = SubSeq(Frame(call'), 1, hi')
    BY <1>3, <2>1, <2>2 DEF wire
  <2> QED  BY <1>3, <2>3 DEF Sending
<1> QED  BY <1>5, <1>6, <1>8, <1>9 DEF TypeOK, HostTypes, ShieldTypes

LEMMA Prefix ==
  ASSUME NEW F \in Seq(0 .. 255), NEW i \in Nat, i <= Len(F)
  PROVE  /\ SubSeq(F, 1, i) \in Seq(0 .. 255) /\ Len(SubSeq(F, 1, i)) = i
         /\ \A j \in 1 .. i : SubSeq(F, 1, i)[j] = F[j]
<1>1. \A j \in 1 .. i : F[j] \in 0 .. 255
  <2> TAKE j \in 1 .. i
  <2>1. Len(F) \in Nat
    BY LenProperties
  <2>2. j \in 1 .. Len(F)
    BY <2>1
  <2> QED  BY <2>2, ElementOfSeq, Zenon
<1>2. PICK m \in Int : m = 1
  OBVIOUS
<1> DEFINE t == SubSeq(F, m, i)
<1>3. /\ t \in Seq(0 .. 255)
      /\ Len(t) = IF m <= i THEN i - m + 1 ELSE 0
      /\ \A j \in 1 .. i - m + 1 : t[j] = F[m + j - 1]
  <2>1. i \in Int /\ \A j \in m .. i : F[j] \in 0 .. 255
    BY <1>1, <1>2
  <2> DEFINE B == 0 .. 255
  <2>2. \A j \in m .. i : F[j] \in B
    BY <2>1
  <2> HIDE DEF B
  <2>3. /\ SubSeq(F, m, i) \in Seq(B)
        /\ Len(SubSeq(F, m, i)) = IF m <= i THEN i - m + 1 ELSE 0
        /\ \A j \in 1 .. i - m + 1 : SubSeq(F, m, i)[j] = F[m + j - 1]
    BY <2>1, <2>2, SubSeqProperties, SMT
  <2> QED  BY <2>3 DEF B
<1> HIDE DEF t
<1>4. Len(t) = i
  BY <1>2, <1>3
<1>5. \A j \in 1 .. i : t[j] = F[j]
  <2> TAKE j \in 1 .. i
  <2>1. j \in 1 .. i - m + 1 /\ m + j - 1 = j
    BY <1>2
  <2> QED  BY <1>3, <2>1, Zenon
<1>6. t = SubSeq(F, 1, i)
  BY <1>2 DEF t
<1> QED  BY <1>3, <1>4, <1>5, <1>6

LEMMA Longer ==
  ASSUME NEW F \in Seq(0 .. 255), NEW i \in Nat, i < Len(F)
  PROVE  /\ Append(SubSeq(F, 1, i), F[i + 1]) = SubSeq(F, 1, i + 1)
         /\ SubSeq(F, 1, i + 1) \in Seq(0 .. 255)
         /\ Len(SubSeq(F, 1, i + 1)) = i + 1
         /\ \A j \in 1 .. i + 1 : SubSeq(F, 1, i + 1)[j] = F[j]
         /\ i + 1 = Len(F) => SubSeq(F, 1, i + 1) = F
<1>1. PICK l \in Nat : l = Len(F) /\ i + 1 <= l /\ i <= l
  BY LenProperties
<1>2. \A j \in 1 .. l : F[j] \in 0 .. 255
  BY <1>1, ElementOfSeq
<1>3. /\ SubSeq(F, 1, i) \in Seq(0 .. 255) /\ Len(SubSeq(F, 1, i)) = i
      /\ \A j \in 1 .. i : SubSeq(F, 1, i)[j] = F[j]
  BY <1>1, Prefix, Zenon
<1>4. /\ SubSeq(F, 1, i + 1) \in Seq(0 .. 255) /\ Len(SubSeq(F, 1, i + 1)) = i + 1
      /\ \A j \in 1 .. i + 1 : SubSeq(F, 1, i + 1)[j] = F[j]
  <2> i + 1 \in Nat  OBVIOUS
  <2> QED  BY <1>1, Prefix, Zenon
<1>5. Append(SubSeq(F, 1, i), F[i + 1]) = SubSeq(F, 1, i + 1)
  <2>1. F[i + 1] \in 0 .. 255
    BY <1>1, <1>2
  <2> DEFINE s == SubSeq(F, 1, i)
             t == SubSeq(F, 1, i + 1)
             a == Append(s, F[i + 1])
  <2>2. /\ a \in Seq(0 .. 255) /\ Len(a) = i + 1
        /\ \A j \in 1 .. i : a[j] = s[j]
        /\ a[i + 1] = F[i + 1]
    <3>1. /\ a \in Seq(0 .. 255) /\ Len(a) = Len(s) + 1
          /\ \A j \in 1 .. Len(s) : a[j] = s[j]
          /\ a[Len(s) + 1] = F[i + 1]
      BY <1>3, <2>1, AppendByte, Zenon
    <3> HIDE DEF s, t, a
    <3>2. Len(s) = i
      BY <1>3 DEF s
    <3> QED  BY <3>1, <3>2, Zenon
  <2>3. ASSUME NEW j \in 1 .. i + 1 PROVE a[j] = t[j]
    <3>1. t[j] = F[j]
      BY <1>4
    <3>2. CASE j = i + 1
      BY <2>2, <3>1, <3>2
    <3>3. CASE j # i + 1
      <4>1. j \in 1 .. i
        BY <3>3
      <4> QED  BY <1>3, <2>2, <3>1, <4>1
    <3> QED  BY <3>2, <3>3
  <2> HIDE DEF s, t, a
  <2>4. t \in Seq(0 .. 255) /\ Len(t) = i + 1
    BY <1>4 DEF t
  <2> QED  BY <2>2, <2>3, <2>4, SeqEqual DEF s, t, a
<1>6. i + 1 = Len(F) => SubSeq(F, 1, i + 1) = F
  BY <1>4, SeqEqual
<1> QED  BY <1>4, <1>5, <1>6

LEMMA SendSmooth ==
  ASSUME IInv, Send
  PROVE  Smooth'
<1> SUFFICES ASSUME ~trouble' PROVE rdr' = <<>> /\ (Sending' \/ Waiting')
  BY DEF Smooth
<1> DEFINE F == Frame(call)
<1>1. /\ ~trouble /\ hpc = "send" /\ hi' = hi + 1
      /\ hpc' = IF hi + 1 = Len(F) THEN "wait" ELSE "send"
      /\ Arrive(F[hi + 1])
      /\ call' = call /\ ran' = ran
  BY Zenon DEF Send
<1>2. rdr = <<>> /\ Sending
  BY <1>1 DEF IInv, Smooth, AtRest, Waiting, Replied, BeingRead, Finished
<1>3. PICK l \in Nat : l = Len(F) /\ F \in Seq(0 .. 255) /\ l < BUFFERSIZE
  <2> call \in Calls  BY DEF IInv, TypeOK
  <2> QED  BY FrameIsSeq, Zenon
<1>4. PICK i \in Nat : i = hi /\ i < l /\ i + 1 \in 1 .. l
  BY <1>1, <1>3 DEF IInv, TypeOK, HostTidy
<1>5. call \in Calls /\ BUFFERSIZE \in Nat
  BY SizeAssumption DEF IInv, TypeOK
<1> DEFINE f == SubSeq(F, 1, i + 1)
<1>6. /\ Append(rbuf, F[i + 1]) = f /\ f \in Seq(0 .. 255) /\ Len(f) = i + 1
      /\ \A j \in 1 .. i + 1 : f[j] = F[j]
      /\ i + 1 = l => f = F
  <2> rbuf = SubSeq(F, 1, i)  BY <1>2, <1>4 DEF Sending
  <2> QED  BY <1>3, <1>4, Longer, Zenon
<1>7. EndOfFrame(f) <=> i + 1 = l
  <2> HIDE DEF f
  <2> QED  BY <1>3, <1>4, <1>5, <1>6, EndIsTheEnd, Zenon
<1> HIDE DEF f
<1>8. sh \in {"listen", "isr"} /\ tx = <<>> /\ Len(tx) = 0 /\ Len(rbuf) = i
  <2>1. sh \in {"listen", "isr"} /\ tx = <<>>
    BY <1>2 DEF Sending
  <2>2. rbuf \in Seq(0 .. 255)
    BY DEF IInv, TypeOK
  <2>3. F[i + 1] \in 0 .. 255
    BY <1>3, <1>4, ElementOfSeq, Zenon
  <2>4. Len(f) = Len(rbuf) + 1 /\ Len(rbuf) \in Nat
    BY <1>6, <2>2, <2>3, AppendByte, LenProperties
  <2> QED  BY <1>6, <2>1, <2>4, EmptySeq
<1>9. Taken(F[i + 1]) /\ rdr' = <<>> /\ tx' = <<>>
  BY <1>1, <1>4, <1>8 DEF Arrive
<1>10. rbuf' = f /\ sh' = IF i + 1 = l THEN "busy" ELSE "isr"
  <2>1. ~(Len(f) >= BUFFERSIZE)
    BY <1>3, <1>4, <1>5, <1>6
  <2> QED  BY <1>6, <1>7, <1>9, <2>1, Zenon DEF Taken
<1>11. CASE i + 1 = l
  <2>1. hpc' = "wait" /\ sh' = "busy" /\ rbuf' = Frame(call')
    BY <1>1, <1>3, <1>4, <1>6, <1>10, <1>11
  <2> QED  BY <1>1, <1>2, <1>9, <2>1 DEF Sending, Waiting
<1>12. CASE i + 1 # l
  <2>1. hpc' = "send" /\ sh' = "isr" /\ rbuf' = SubSeq(Frame(call'), 1, hi') /\ hi' # 0
    BY <1>1, <1>3, <1>4, <1>10, <1>12 DEF f
  <2> QED  BY <1>1, <1>2, <1>9, <2>1 DEF Sending
<1> QED  BY <1>11, <1>12

LEMMA WaitReadySmooth ==
  ASSUME IInv, WaitReady
  PROVE  Smooth'
<1> SUFFICES ASSUME ~trouble' PROVE rdr' = <<>> /\ Replied'
  BY DEF Smooth
<1>1. ~trouble /\ hpc = "wait" /\ hpc' = "start" /\ call' = call
      /\ UNCHANGED wire /\ UNCHANGED shield /\ Avail
  BY DEF WaitReady
<1>2. rdr = <<>> /\ Replied
  <2>1. rdr = <<>> /\ (Waiting \/ Replied)
    BY <1>1 DEF IInv, Smooth, AtRest, Sending, BeingRead, Finished
  <2> QED  BY <1>1, <2>1 DEF Waiting, Avail
<1> QED  BY <1>1, <1>2 DEF Replied, RanByReply, wire, shield

\* The request of the call, and the reply to it.
LEMMA Exchange ==
  ASSUME IInv
  PROVE  /\ call \in Calls /\ call.cmd \in Cmds /\ ~IsReply(call.cmd)
         /\ Frame(call) \in Seq(0 .. 255) /\ Frame(call) # <<>>
         /\ Frame(call)[1] = START /\ Frame(call)[2] = call.cmd
         /\ Tail(ReplyTo(call.cmd)) = <<call.cmd + 128, 1, 1, 1, END>>
         /\ Tail(ReplyTo(call.cmd)) \in Seq(0 .. 255)
<1>1. call \in Calls
  BY DEF IInv, TypeOK
<1>2. PICK c : c = call.cmd
  OBVIOUS
<1>3. c \in Cmds /\ c \in 16 .. 70
  BY <1>1, <1>2, Requests, AnsweredIsByte, Zenon
<1>4. PICK F : F = Frame(call)
  OBVIOUS
<1>5. F \in Seq(0 .. 255) /\ F[1] = START /\ F[2] = c /\ Len(F) >= 4
  BY <1>1, <1>2, <1>4, FrameIsSeq, Zenon
<1>6. F # <<>>
  BY <1>5, EmptySeq
<1>7. ~IsReply(c)
  BY <1>3 DEF IsReply
<1>8. Tail(ReplyTo(c)) = <<c + 128, 1, 1, 1, END>> /\ Tail(ReplyTo(c)) \in Seq(0 .. 255)
  BY <1>3, ReplyBytes, Zenon
<1> QED  BY <1>1, <1>2, <1>3, <1>4, <1>5, <1>6, <1>7, <1>8, Zenon

LEMMA ReadStartSmooth ==
  ASSUME IInv, ReadStart
  PROVE  Smooth'
<1> SUFFICES ASSUME ~trouble' PROVE rdr' = <<>> /\ BeingRead'
  BY DEF Smooth
<1>1. ~trouble /\ hpc = "start" /\ call' = call /\ ran' = ran /\ Arrive(DUMMY)
  BY DEF ReadStart
<1>2. rdr = <<>> /\ Replied
  BY <1>1 DEF IInv, Smooth, AtRest, Sending, Waiting, BeingRead, Finished
<1> DEFINE w == Tail(ReplyTo(call.cmd))
<1>3. PICK c : c = call.cmd
  OBVIOUS
<1>4. w = <<c + 128, 1, 1, 1, END>> /\ w \in Seq(0 .. 255)
  BY <1>3, Exchange, Zenon
<1>5. tx = <<START>> /\ rest = w /\ sh = "reply"
  BY <1>2 DEF Replied
<1>6. Len(tx) = 1 /\ tx # <<>> /\ Head(tx) = START
  BY <1>5 DEF START
<1>7. Len(w) = 5 /\ w # <<>> /\ Head(w) = w[1] /\ Len(Tail(w)) = 4
      /\ \A i \in 1 .. 4 : Tail(w)[i] = w[1 + i]
  <2> HIDE DEF w
  <2>1. Len(w) = 5
    BY <1>4
  <2>2. w # <<>>
    BY <2>1, EmptySeq
  <2>3. /\ Head(w) = w[1] /\ Len(Tail(w)) = Len(w) - 1
        /\ \A i \in 1 .. Len(w) - 1 : Tail(w)[i] = w[i + 1]
    BY <1>4, <2>2, FirstByte, Zenon
  <2> QED  BY <2>1, <2>2, <2>3
<1> HIDE DEF w
<1>8. Seen = START
  BY <1>6 DEF Seen
<1>9. hpc' = "read" /\ got' = <<>>
  BY <1>1, <1>8 DEF ReadStart, IInv, HostTidy
<1>10. tx' = <<w[1]>> /\ rest' = Tail(w) /\ rdr' = <<>> /\ sh' = sh /\ rbuf' = rbuf
  BY <1>1, <1>5, <1>6, <1>7 DEF Arrive
<1>11. w = Tail(ReplyTo(call'.cmd))
  BY <1>1 DEF w
<1>12. Reading(w)'
  <2>1. w' = w
    BY <1>1 DEF w
  <2>2. /\ Len(got') = 0 /\ Len(tx') = 1 /\ Len(rest') = 4
        /\ tx'[1] = w[1]
        /\ \A i \in 1 .. 4 : rest'[i] = w[1 + i]
    BY <1>7, <1>9, <1>10
  <2>3. /\ Len(got') \in 0 .. 4 /\ Len(tx') = 1 /\ Len(rest') = 4 - Len(got')
        /\ \A i \in 1 .. Len(got') : got'[i] = w[i]
        /\ tx'[1] = w[Len(got') + 1]
        /\ \A i \in 1 .. Len(rest') : rest'[i] = w[Len(got') + 1 + i]
    BY <2>2
  <2> QED  BY <2>1, <2>3 DEF Reading
<1> QED  BY <1>1, <1>2, <1>9, <1>10, <1>12 DEF BeingRead, Replied, RanByReply, w

LEMMA ReadReplySmooth ==
  ASSUME IInv, ReadReply
  PROVE  Smooth'
<1> SUFFICES ASSUME ~trouble' PROVE rdr' = <<>> /\ (BeingRead' \/ Finished')
  BY DEF Smooth
<1>1. ~trouble /\ hpc = "read" /\ call' = call /\ ran' = ran /\ Arrive(DUMMY)
  BY DEF ReadReply
<1>2. rdr = <<>> /\ BeingRead
  BY <1>1 DEF IInv, Smooth, AtRest, Sending, Waiting, Replied, Finished
<1> DEFINE w == Tail(ReplyTo(call.cmd))
<1>3. PICK c : c = call.cmd
  OBVIOUS
<1>4. w = <<c + 128, 1, 1, 1, END>> /\ w \in Seq(0 .. 255) /\ c \in 16 .. 70
  BY <1>3, Exchange, Requests, Zenon
<1>5. /\ Len(w) = 5
      /\ w[1] = c + 128 /\ w[2] = 1 /\ w[3] = 1 /\ w[4] = 1 /\ w[5] = END
  <2>1. w = <<c + 128, 1, 1, 1, END>>
    BY <1>4, Zenon
  <2> HIDE DEF w
  <2>2. Len(w) = 5
    BY <2>1
  <2>3. w[1] = c + 128 /\ w[2] = 1 /\ w[3] = 1 /\ w[4] = 1 /\ w[5] = END
    BY <2>1
  <2> QED  BY <2>2, <2>3
<1>6. Reading(w) /\ sh = "reply" /\ RanByReply /\ rbuf = Frame(call)
  BY <1>2 DEF BeingRead
<1> HIDE DEF w
<1>7. PICK n \in 0 .. 4 : n = Len(got)
  BY <1>6 DEF Reading
<1>8. /\ Len(tx) = 1 /\ tx # <<>> /\ Head(tx) = w[n + 1] /\ Len(rest) = 4 - n
      /\ \A i \in 1 .. n : got[i] = w[i]
      /\ \A i \in 1 .. 4 - n : rest[i] = w[n + 1 + i]
      /\ rest \in Seq(0 .. 255) /\ got \in Seq(0 .. 255) /\ tx \in Seq(0 .. 255)
  <2>1. rest \in Seq(0 .. 255) /\ got \in Seq(0 .. 255) /\ tx \in Seq(0 .. 255)
    BY DEF IInv, TypeOK
  <2>2. /\ Len(tx) = 1 /\ Len(rest) = 4 - n /\ tx[1] = w[n + 1]
        /\ \A i \in 1 .. n : got[i] = w[i]
        /\ \A i \in 1 .. 4 - n : rest[i] = w[n + 1 + i]
    BY <1>6, <1>7, Zenon DEF Reading
  <2>3. tx # <<>>
    <3>1. Len(tx) = 1
      BY <2>2, Zenon
    <3>2. Len(<<>>) = 0
      BY EmptySeq
    <3> QED  BY <3>1, <3>2
  <2>4. Head(tx) = tx[1]
    BY <2>1, <2>3, FirstByte, Zenon
  <2> QED  BY <2>1, <2>2, <2>3, <2>4, Zenon
<1>9. Seen = w[n + 1] /\ w[n + 1] \in 0 .. 255
  <2>1. Len(w) = 5 /\ n + 1 \in 1 .. 5
    <3>1. Len(w) = 5
      BY <1>5, Zenon
    <3>2. n + 1 \in 1 .. 5
      OBVIOUS
    <3> QED  BY <3>1, <3>2
  <2> QED  BY <1>4, <1>8, <2>1, ElementOfSeq, Zenon DEF Seen
<1> DEFINE g == Append(got, Seen)
<1>10. /\ g \in Seq(0 .. 255) /\ Len(g) = n + 1
       /\ \A i \in 1 .. n : g[i] = got[i]
       /\ g[n + 1] = w[n + 1]
  BY <1>7, <1>8, <1>9, AppendByte, Zenon
<1>11. \A i \in 1 .. n + 1 : g[i] = w[i]
  <2> TAKE i \in 1 .. n + 1
  <2> HIDE DEF g
  <2>1. i = n + 1 \/ i \in 1 .. n
    BY <1>7
  <2> QED  BY <1>8, <1>10, <2>1, Zenon
<1>12. ~Wrong(g)
  <2> HIDE DEF g
  <2>1. Len(g) = 1 => g[1] = c + 128
    BY <1>5, <1>7, <1>10, <1>11
  <2>2. Len(g) = 2 => g[2] = 1
    BY <1>5, <1>7, <1>10, <1>11
  <2> QED  BY <1>3, <2>1, <2>2 DEF Wrong, Reply
<1>13. CASE n = 4
  <2>1. Complete(g)
    <3> HIDE DEF g
    <3> QED  BY <1>5, <1>10, <1>11, <1>13 DEF Complete
  <2>2. Return("ok")
    BY <1>12, <2>1, Zenon DEF ReadReply
  <2>3. rest = <<>>
    BY <1>8, <1>13, EmptySeq
  <2>4. /\ tx' = <<>> /\ rdr' = <<>>
        /\ sh' = IF IsSet THEN "set" ELSE "listen"
        /\ rbuf' = IF IsSet THEN rbuf ELSE <<>>
    BY <1>1, <1>6, <1>8, <2>3 DEF Arrive
  <2>5. IsSet <=> call.cmd \in SetCmds
    BY <1>6, Exchange, Zenon DEF IsSet
  <2>6. hpc' = "idle" /\ answer' = "ok"
    BY <2>2 DEF Return
  <2>7. CASE call.cmd \in SetCmds
    BY <1>1, <1>6, <2>4, <2>5, <2>6, <2>7 DEF Finished, RanByReply
  <2>8. CASE call.cmd \notin SetCmds
    BY <1>1, <1>6, <2>4, <2>5, <2>6, <2>8 DEF Finished, RanByReply
  <2> QED  BY <2>4, <2>7, <2>8
<1>14. CASE n # 4
  <2>1. ~Complete(g) /\ n \in 0 .. 3
    <3> HIDE DEF g
    <3> QED  BY <1>5, <1>7, <1>10, <1>11, <1>14 DEF Complete
  <2>2. got' = g /\ hpc' = hpc
    BY <1>12, <2>1, Zenon DEF ReadReply
  <2>3. rest # <<>> /\ ~(Len(tx) > 1)
    BY <1>8, <2>1, EmptySeq
  <2>4. /\ Head(rest) = rest[1] /\ Head(rest) \in 0 .. 255
        /\ Len(Tail(rest)) = Len(rest) - 1
        /\ \A i \in 1 .. Len(rest) - 1 : Tail(rest)[i] = rest[i + 1]
    BY <1>8, <2>3, FirstByte, Zenon
  <2>5. tx' = <<rest[1]>> /\ rest' = Tail(rest) /\ rdr' = <<>> /\ sh' = sh /\ rbuf' = rbuf
    BY <1>1, <1>6, <1>8, <2>3, <2>4 DEF Arrive
  <2>6. Reading(w)'
    <3>1. w' = w
      BY <1>1 DEF w
    <3>2. Len(got') = n + 1 /\ n + 1 \in 0 .. 4 /\ \A i \in 1 .. n + 1 : got'[i] = w[i]
      BY <1>10, <1>11, <2>1, <2>2
    <3>3. Len(tx') = 1 /\ tx'[1] = w[n + 1 + 1]
      BY <1>8, <2>1, <2>5
    <3>4. Len(rest') = 4 - (n + 1) /\ \A i \in 1 .. 4 - (n + 1) : rest'[i] = w[n + 1 + 1 + i]
      <4>1. Len(rest') = 4 - (n + 1)
        BY <1>8, <2>1, <2>4, <2>5
      <4>2. ASSUME NEW i \in 1 .. 4 - (n + 1) PROVE rest'[i] = w[n + 1 + 1 + i]
        <5>1. i + 1 \in 1 .. 4 - n /\ i \in 1 .. Len(rest) - 1 /\ n + 1 + (i + 1) = n + 1 + 1 + i
          BY <1>8, <2>1
        <5> QED  BY <1>8, <2>4, <2>5, <5>1, Zenon
      <4> QED  BY <4>1, <4>2
    <3> QED  BY <3>1, <3>2, <3>3, <3>4, Zenon DEF Reading
  <2> QED  BY <1>1, <1>6, <2>2, <2>5, <2>6 DEF BeingRead, RanByReply, w
<1> QED  BY <1>13, <1>14

LEMMA PollSmooth ==
  ASSUME IInv, Poll \/ PollBad
  PROVE  Smooth'
<1> SUFFICES ASSUME ~trouble' PROVE rdr' = <<>> /\ Replied'
  BY DEF Smooth
<1>1. ~trouble /\ sh = "busy" /\ UNCHANGED host
  <2>1. UNCHANGED <<paused, gaps, last, trouble>> /\ sh = "busy" /\ UNCHANGED host
    BY Zenon DEF Poll, PollBad
  <2> QED  BY <2>1
<1>2. rdr = <<>> /\ Waiting
  BY <1>1 DEF IInv, Smooth, AtRest, Sending, Replied, BeingRead, Finished
<1>3. PICK F \in Seq(0 .. 255) : F = Frame(call)
  BY Exchange, Zenon
<1>4. PICK c : c = call.cmd
  OBVIOUS
<1>5. /\ c \in Cmds /\ ~IsReply(c) /\ F # <<>> /\ F[1] = START /\ F[2] = c
  BY <1>3, <1>4, Exchange, Zenon
<1>6. rbuf = F /\ Message(F) = F
  BY <1>2, <1>3, <1>5, MessageIn, Zenon DEF Waiting
<1>7. Formats(rbuf) = {TRUE}
  BY <1>5, <1>6, Zenon DEF Formats
<1>8. Poll
  BY <1>7 DEF PollBad
<1>9. /\ sh' = "reply" /\ rbuf' = F /\ tx' = Append(tx, START)
      /\ rest' = Tail(ReplyTo(c))
      /\ ran' = (IF c \in SetCmds THEN ran ELSE Append(ran, F)) /\ rdr' = rdr
  BY <1>5, <1>6, <1>8, Zenon DEF Poll
<1>10. tx' = <<START>> /\ ran' = IF c \in SetCmds THEN <<>> ELSE <<F>>
  BY <1>2, <1>9 DEF Waiting
<1> QED  BY <1>1, <1>2, <1>3, <1>4, <1>9, <1>10 DEF Replied, RanByReply, Waiting, host

LEMMA RunSetSmooth ==
  ASSUME IInv, RunSet
  PROVE  Smooth'
<1> SUFFICES ASSUME ~trouble' PROVE rdr' = <<>> /\ Finished'
  BY DEF Smooth
<1>1. ~trouble /\ sh = "set" /\ UNCHANGED host /\ ran' = Append(ran, rbuf) /\ Listen
      /\ tx' = tx
  BY DEF RunSet
<1>2. rdr = <<>> /\ Finished /\ rbuf = Frame(call) /\ ran = <<>>
  BY <1>1 DEF IInv, Smooth, AtRest, Sending, Waiting, Replied, BeingRead, Finished
<1>3. sh' = "listen" /\ rdr' = <<>> /\ ran' = <<Frame(call)>>
  BY <1>1, <1>2 DEF Listen
<1> QED  BY <1>1, <1>2, <1>3 DEF Finished, host

\* No wait of the shield ends, and the host is not held up, in a call without
\* trouble.
LEMMA NoTimeout ==
  ASSUME IInv, StreamTimeout \/ IsrTimeout \/ Pause \/ Resume
  PROVE  trouble'
<1>0. Pause \/ trouble' = trouble
  BY DEF StreamTimeout, IsrTimeout, Resume
<1> SUFFICES ASSUME ~trouble, ~Pause PROVE FALSE
  BY <1>0, Zenon DEF Pause
<1>1. ~paused
  BY DEF IInv, HostTidy
<1>2. (sh = "reply" \/ sh = "isr") /\ hpc = "idle"
  BY <1>1 DEF StreamTimeout, IsrTimeout, Resume, Quiet
<1> QED  BY <1>2 DEF IInv, Smooth, AtRest, Sending, Waiting, Replied, BeingRead, Finished

-----------------------------------------------------------------------------
(***************************************************************************)
(* The theorems.                                                           *)
(***************************************************************************)

LEMMA Starts == Init => IInv
<1> SUFFICES ASSUME Init PROVE IInv
  OBVIOUS
<1>1. call \in Calls
  BY DEF Init
<1>2. BUFFERSIZE \in Nat /\ BUFFERSIZE > 4
  BY <1>1, Bounded, Zenon
<1>3. HostTypes
  <2>1. <<>> \in Seq(0 .. 255)
    BY EmptySeq
  <2>2. gaps \in 0 .. MaxGaps
    BY SizeAssumption DEF Init
  <2> QED  BY <2>1, <2>2 DEF Init, HostTypes
<1>4. ShieldTypes
  <2> \A S : <<>> \in Seq(S) /\ Len(<<>>) = 0  BY EmptySeq
  <2> QED  BY <1>2 DEF Init, ShieldTypes
<1>5. HostTidy /\ ShieldTidy
  BY DEF Init, HostTidy, ShieldTidy
<1>6. Smooth
  BY DEF Init, Smooth, AtRest
<1> QED  BY <1>3, <1>4, <1>5, <1>6, Types DEF IInv

LEMMA Goes ==
  ASSUME IInv, Next
  PROVE  IInv'
<1>1. ASSUME NEW r \in Calls, Call(r) PROVE IInv'
  BY <1>1, CallSmooth DEF IInv
<1>2. CASE Send
  BY <1>2, SendTidy, SendSmooth DEF IInv
<1>3. CASE WaitReady
  BY <1>3, WaitReadyTidy, WaitReadySmooth DEF IInv
<1>4. CASE ReadStart
  BY <1>4, ReadStartTidy, ReadStartSmooth DEF IInv
<1>5. CASE ReadReply
  BY <1>5, ReadReplyTidy, ReadReplySmooth DEF IInv
<1>6. CASE Shield
  BY <1>6, ShieldStepTidy, PollSmooth, RunSetSmooth DEF IInv, Shield
<1>7. CASE Pause \/ Resume \/ StreamTimeout \/ IsrTimeout
  <2>1. TypeOK' /\ HostTidy' /\ ShieldTidy'
    BY <1>7, PauseTidy, ShieldStepTidy DEF IInv
  <2>2. Smooth'
    <3>1. trouble'
      BY <1>7, NoTimeout
    <3> QED  BY <3>1 DEF Smooth
  <2> QED  BY <2>1, <2>2 DEF IInv
<1> QED  BY <1>1, <1>2, <1>3, <1>4, <1>5, <1>6, <1>7 DEF Next, Host

LEMMA Stutters ==
  ASSUME IInv, UNCHANGED vars
  PROVE  IInv'
<1>1. TypeOK'
  BY DEF IInv, vars, TypeOK
<1>2. HostTidy' /\ ShieldTidy'
  BY DEF IInv, vars, HostTidy, ShieldTidy
<1>3. Smooth'
  BY DEF IInv, vars, Smooth, AtRest, Sending, Waiting, Replied, BeingRead, Finished,
         RanByReply, Reading
<1> QED  BY <1>1, <1>2, <1>3 DEF IInv

THEOREM Invariant == Spec => []IInv
<1>1. Init => IInv
  BY Starts
<1>2. IInv /\ [Next]_vars => IInv'
  BY Goes, Stutters
<1> QED  BY <1>1, <1>2, PTL DEF Spec

\* Every buffer keeps its bounds: the frame the interrupt handler collects is
\* shorter than BUFFERSIZE, at most one byte waits untaken, and at most two are
\* written ahead of the wire, whatever the host's pauses do.
THEOREM TypeCorrect == Spec => []TypeOK
<1>1. IInv => TypeOK
  BY DEF IInv
<1> QED  BY <1>1, Invariant, PTL

\* Only a pause of the host can put the link out of step, and a call that met
\* neither a pause nor a link out of step is answered, and has run or is about
\* to run before the handshake pin lets the next call go out, for requests of
\* every number and length of parameters that fit the shield's buffer.
THEOREM AnswersHolds == Spec => []Answers
<1>1. ASSUME IInv PROVE Answers
  <2>1. gaps = 0 => ~trouble
    BY <1>1 DEF IInv, HostTidy
  <2>2. ASSUME hpc = "idle", answer # "none", ~trouble PROVE Finished
    BY <1>1, <2>2 DEF IInv, Smooth, AtRest, Sending, Waiting, Replied, BeingRead
  <2> QED  BY <2>1, <2>2 DEF Answers, Finished
<1> QED  BY <1>1, Invariant, PTL

\* What the shield runs in a call that met no trouble is the request of that
\* call, byte for byte, and once.
THEOREM UntroubledIsGenuine == Spec => [](~trouble => Genuine)
<1>1. ASSUME IInv PROVE ~trouble => Genuine
  BY <1>1 DEF IInv, Smooth, AtRest, Sending, Waiting, Replied, BeingRead, Finished,
              RanByReply, Genuine
<1> QED  BY <1>1, Invariant, PTL

LEMMA AppendNotEmpty ==
  ASSUME ran \in Seq(Seq(0 .. 255)), NEW m \in Seq(0 .. 255)
  PROVE  Append(ran, m) # <<>>
OBVIOUS

LEMMA ServiceInit == Init => Service!Init
BY DEF Init, Service!Init

LEMMA ServiceStep ==
  ASSUME IInv, IInv', Next
  PROVE  Service!Next \/ UNCHANGED Service!vars
<1> USE DEF Service!vars
<1>1. ASSUME NEW r \in Calls, Call(r) PROVE Service!Next
  <2>1. answer = "ok" /\ ~trouble => ran # <<>>
    <3> SUFFICES ASSUME answer = "ok", ~trouble PROVE ran # <<>>
      OBVIOUS
    <3>1. Finished /\ sh = "listen"
      BY <1>1 DEF IInv, Smooth, AtRest, Sending, Waiting, Replied, BeingRead, Finished,
                  Call, Avail
    <3>2. ran = <<Frame(call)>>
      BY <3>1 DEF Finished
    <3> QED  BY <3>2
  <2>2. Service!Call(r)
    BY <1>1, <2>1 DEF Call, Service!Call, IInv, TypeOK
  <2> QED  BY <2>2 DEF Service!Next
<1>2. CASE Send \/ WaitReady
  BY <1>2 DEF Send, WaitReady, shield
<1>3. CASE ReadStart \/ ReadReply
  <2>1. UNCHANGED <<call, ran, trouble>> /\ hpc # "idle"
    BY <1>3 DEF ReadStart, ReadReply
  <2>2. (hpc' # "idle" /\ answer' = answer) \/ Return("lost") \/ Return("ok")
    BY <1>3, <2>1 DEF ReadStart, ReadReply
  <2>3. ASSUME NEW a \in {"lost", "ok"}, Return(a) PROVE Service!Next
    <3>1. hpc' = "idle" /\ answer' = a
      BY <2>3 DEF Return
    <3>2. ASSUME ~trouble PROVE a = "ok" /\ (ran # <<>> \/ call.cmd \in SetCmds)
      <4>1. Finished'
        BY <2>1, <3>1, <3>2 DEF IInv, Smooth, AtRest, Sending, Waiting, Replied, BeingRead
      <4> QED  BY <2>1, <3>1, <4>1 DEF Finished
    <3>3. Service!Answer(a)
      BY <2>1, <3>1, <3>2 DEF Service!Answer
    <3> QED  BY <3>3 DEF Service!Next
  <2> QED  BY <2>1, <2>2, <2>3
<1>4. CASE Shield
  <2>1. UNCHANGED <<hpc, call, answer, trouble>>
    BY <1>4 DEF Shield, Poll, PollBad, RunSet, host
  <2>2. ran' = ran \/ ran' # <<>>
    <3>1. PICK m \in Seq(0 .. 255) : ran' = ran \/ ran' = Append(ran, m)
      <4>1. rbuf \in Seq(0 .. 255)
        BY DEF IInv, TypeOK
      <4>2. Message(rbuf) \in Seq(0 .. 255)
        BY <4>1, MessageIn, Zenon
      <4> QED  BY <1>4, <4>1, <4>2, Zenon DEF Shield, Poll, PollBad, RunSet
    <3> QED  BY <3>1, AppendNotEmpty DEF IInv, TypeOK
  <2>3. CASE ran' = ran
    BY <2>1, <2>3
  <2>4. CASE ran' # <<>> /\ ran = <<>>
    BY <2>1, <2>4 DEF Service!Next, Service!Run
  <2> QED  BY <2>1, <2>2, <2>3, <2>4
<1>5. CASE Pause
  BY <1>5 DEF Pause, host, shield, Service!Next, Service!Trouble
<1>6. CASE Resume \/ StreamTimeout \/ IsrTimeout
  BY <1>6 DEF Resume, StreamTimeout, IsrTimeout, host, shield
<1> QED  BY <1>1, <1>2, <1>3, <1>4, <1>5, <1>6 DEF Next, Host

\* The link, byte by byte, keeps the promise of SpiService: a call runs at most
\* once, before the next goes out, an untroubled call is not lost, and the
\* answer to a GET comes after the run.
THEOREM KeepsPromiseHolds == Spec => KeepsPromise
<1>1. IInv /\ IInv' /\ [Next]_vars => [Service!Next]_(Service!vars)
  <2> SUFFICES ASSUME IInv, IInv', [Next]_vars PROVE [Service!Next]_(Service!vars)
    OBVIOUS
  <2>1. CASE Next
    BY <2>1, ServiceStep
  <2>2. CASE UNCHANGED vars
    BY <2>2 DEF vars, Service!vars
  <2> QED  BY <2>1, <2>2
<1> QED  BY <1>1, ServiceInit, Invariant, PTL DEF Spec, KeepsPromise, Service!Spec

-----------------------------------------------------------------------------
(***************************************************************************)
(* What the interrupt handler may have collected when the host has been    *)
(* held up.                                                                *)
(***************************************************************************)

\* The bytes up to the i-th of the request, from one of them on; all of them
\* after one byte the host sent to read; bytes with no number of parameters
\* in their place, which no END ends.
Part(r, b, i) == \E j \in 1 .. i : /\ Len(b) = i - j + 1
                                   /\ \A k \in 1 .. Len(b) : b[k] = Frame(r)[j - 1 + k]
Late(r, b, i) == /\ Len(b) = i + 1 /\ b[1] = DUMMY
                 /\ \A k \in 1 .. i : b[k + 1] = Frame(r)[k]
Endless(b) == Len(b) >= 3 /\ b[3] >= 128

\* What is left after the host has sent a byte to read.
Stale(b) == \/ Len(b) = 1 /\ b[1] = DUMMY
            \/ Len(b) = 2 /\ b[2] = DUMMY
            \/ Endless(b)

Known(r, b, i) == \/ i = 0 /\ Stale(b)
                  \/ i >= 1 /\ (Part(r, b, i) \/ Late(r, b, i) \/ Endless(b))

LEMMA FrameEnds ==
  ASSUME NEW r \in Calls
  PROVE  /\ Frame(r) \in Seq(0 .. 255) /\ Len(Frame(r)) \in Nat /\ Len(Frame(r)) >= 4
         /\ Len(Frame(r)) < BUFFERSIZE
         /\ Frame(r)[1] = START /\ Frame(r)[2] \in 16 .. 70 /\ Frame(r)[3] \in 0 .. 127
         /\ Frame(r)[Len(Frame(r))] = END
         /\ Frame(r)[3] = 0 => Len(Frame(r)) = 4
         /\ \A i \in 1 .. Len(Frame(r)) : Frame(r)[i] \in 0 .. 255
<1> DEFINE F == Frame(r)
           n == Len(r.params)
           u == Params(r)[n]
<1>1. /\ F \in Seq(0 .. 255) /\ Len(F) \in Nat /\ Len(F) >= 4 /\ Len(F) < BUFFERSIZE
      /\ F[1] = START
  BY FrameIsSeq, Zenon
<1>2. n \in 0 .. 127 /\ F[2] = r.cmd /\ F[3] = n /\ F[Len(F)] = END /\ Len(F) = 4 + Len(u)
  BY FrameBytes, Zenon DEF Framed
<1>3. F[2] \in 16 .. 70
  BY <1>2, Requests, Zenon
<1>4. n = 0 => Len(u) = 0
  <2>1. n \in Nat
    BY Requests, Zenon
  <2>2. Params(r)[0] = <<>>
    BY <2>1, ParamsStep, Zenon
  <2>3. Len(<<>>) = 0
    BY EmptySeq
  <2> QED  BY <2>2, <2>3, Zenon
<1>5. \A i \in 1 .. Len(F) : F[i] \in 0 .. 255
  BY <1>1, ElementOfSeq, Zenon
<1> HIDE DEF F, n, u
<1>6. F[3] = 0 => Len(F) = 4
  BY <1>2, <1>4
<1> QED  BY <1>1, <1>2, <1>3, <1>5, <1>6, Zenon DEF F

\* Bytes with no number of parameters in their place, then and later.
LEMMA EndlessGoesOn ==
  ASSUME NEW b \in Seq(0 .. 255), NEW x \in 0 .. 255, Endless(b)
  PROVE  Endless(Append(b, x))
<1>1. /\ Len(Append(b, x)) = Len(b) + 1 /\ \A i \in 1 .. Len(b) : Append(b, x)[i] = b[i]
  BY AppendByte, Zenon
<1>2. PICK l \in Nat : l = Len(b) /\ l >= 3
  BY LenProperties DEF Endless
<1>3. 3 \in 1 .. Len(b)
  BY <1>2
<1> HIDE DEF Endless
<1>4. PICK a : a = Append(b, x)
  OBVIOUS
<1>5. Len(a) = l + 1 /\ a[3] = b[3] /\ b[3] >= 128
  BY <1>1, <1>2, <1>3, <1>4, Zenon DEF Endless
<1>6. Len(a) >= 3 /\ a[3] >= 128
  BY <1>2, <1>5
<1> QED  BY <1>4, <1>6, Zenon DEF Endless

LEMMA EndlessHasNoEnd ==
  ASSUME NEW b \in Seq(0 .. 255), Endless(b)
  PROVE  ~EndOfFrame(b)
<1>1. b[3] >= 128 /\ 3 \in 1 .. Len(b)
  BY LenProperties DEF Endless
<1>2. b[3] \in 0 .. 255
  BY <1>1, ElementOfSeq, Zenon
<1>3. PICK v \in 0 .. 255 : v = b[3]
  BY <1>2
<1>4. ~(b[3] < 128)
  <2>1. v >= 128
    BY <1>1, <1>3, Zenon
  <2>2. ~(v < 128)
    BY <2>1
  <2> QED  BY <1>3, <2>2, Zenon
<1> QED  BY <1>4, Zenon DEF EndOfFrame

\* A request that comes after one other byte has no end: its command is taken
\* for the number of its parameters, and the number for half of a length.
LEMMA LateHasNoEnd ==
  ASSUME NEW r \in Calls, NEW i \in 1 .. Len(Frame(r)), NEW b \in Seq(0 .. 255),
         Late(r, b, i), BUFFERSIZE \in Nat
  PROVE  ~EndOfFrame(b)
<1> SUFFICES ASSUME EndOfFrame(b) PROVE FALSE
  OBVIOUS
<1>1. PICK F : F = Frame(r)
  OBVIOUS
<1>1a. PICK l : l = Len(Frame(r))
  OBVIOUS
<1>2. /\ l \in Nat /\ l = Len(F) /\ l >= 4 /\ l < BUFFERSIZE
      /\ F[1] = START /\ F[2] \in 16 .. 70 /\ F[3] \in 0 .. 127
      /\ F[3] = 0 => l = 4
      /\ \A k \in 1 .. l : F[k] \in 0 .. 255
  <2>1. Len(Frame(r)) \in Nat /\ Len(Frame(r)) >= 4 /\ Len(Frame(r)) < BUFFERSIZE
    BY FrameEnds, SMT
  <2>2. Frame(r)[1] = START /\ Frame(r)[2] \in 16 .. 70 /\ Frame(r)[3] \in 0 .. 127
    BY FrameEnds, SMT
  <2>3. Frame(r)[3] = 0 => Len(Frame(r)) = 4
    BY FrameEnds, SMT
  <2>4. \A k \in 1 .. Len(Frame(r)) : Frame(r)[k] \in 0 .. 255
    BY FrameEnds, SMT
  <2> QED  BY <1>1, <1>1a, <2>1, <2>2, <2>3, <2>4, SMT
<1>3. /\ Len(b) = i + 1 /\ b[1] = DUMMY /\ \A k \in 1 .. i : b[k + 1] = F[k]
      /\ i \in 1 .. l /\ i \in Nat
  BY <1>1, <1>2 DEF Late
<1>4. b[i + 1] = END /\ i + 1 >= 3 /\ b[3] < 128 /\ Places(b, b[3], i)[b[3]] = i
  <2>1. Len(b) - 1 = i
    BY <1>3
  <2>2. b[Len(b)] = END /\ Len(b) >= 3 /\ b[3] < 128 /\ Places(b, b[3], Len(b) - 1)[b[3]] = Len(b) - 1
    BY Zenon DEF EndOfFrame
  <2> QED  BY <1>3, <2>1, <2>2, Zenon
<1>5. PICK c : c = F[2]
  OBVIOUS
<1>5a. c \in 16 .. 70
  BY <1>2, <1>5, Zenon
<1>5b. c \in Nat /\ 1 \in 1 .. c /\ c \in 1 .. c
  BY <1>5a
<1>6. b[2] = START /\ b[3] = c
  <2>1. b[1 + 1] = F[1] /\ b[2 + 1] = F[2]
    <3> 1 \in 1 .. i /\ 2 \in 1 .. i  BY <1>3, <1>4
    <3> QED  BY <1>3, Zenon
  <2> QED  BY <1>2, <1>5, <2>1
<1>7. i >= 4
  <2>1. i = 2 => b[2 + 1] = F[2]
    BY <1>3
  <2>2. i = 3 => b[3 + 1] = F[3]
    BY <1>3
  <2>2a. PICK x : x = F[2]
    OBVIOUS
  <2>2b. PICK y : y = F[3]
    OBVIOUS
  <2>2c. x \in 16 .. 70 /\ y \in 0 .. 127
    BY <1>2, <2>2a, <2>2b, Zenon
  <2>2d. x # END /\ y # END
    BY <2>2c DEF END
  <2>2e. i = 2 => x = END
    BY <1>4, <2>1, <2>2a
  <2>2f. i = 3 => y = END
    BY <1>4, <2>2, <2>2b
  <2>3. i # 2 /\ i # 3
    BY <2>2d, <2>2e, <2>2f, Zenon
  <2> QED  BY <1>3, <1>4, <2>3
<1>8. b[4] = F[3] /\ b[5] = F[4] /\ F[4] \in 0 .. 255
  <2>1. 3 \in 1 .. i /\ 4 \in 1 .. i /\ 4 \in 1 .. l
    BY <1>2, <1>3, <1>7
  <2>2. b[3 + 1] = F[3] /\ b[4 + 1] = F[4]
    BY <1>3, <2>1, Zenon
  <2>3. F[4] \in 0 .. 255
    <3>1. \A k \in 1 .. l : F[k] \in 0 .. 255
      BY <1>2, Zenon
    <3> QED  BY <2>1, <3>1
  <2>4. 3 + 1 = 4 /\ 4 + 1 = 5
    OBVIOUS
  <2> QED  BY <2>2, <2>3, <2>4, Zenon
<1>9. PICK n : n = F[3]
  OBVIOUS
<1>9a. PICK p : p = F[4]
  OBVIOUS
<1>9b. n \in 0 .. 127 /\ p \in 0 .. 255
  BY <1>2, <1>8, <1>9, <1>9a, Zenon
<1>10. ParamSize(b, 3) = n * 256 + p + 2
  <2>1. Wide(START)
    BY DEF Wide, START
  <2>2. 3 + 1 = 4 /\ 3 + 2 = 5
    OBVIOUS
  <2>3. ParamSize(b, 3) = b[3 + 1] * 256 + b[3 + 2] + 2
    BY <1>6, <2>1, Zenon DEF ParamSize
  <2> QED  BY <1>8, <1>9, <1>9a, <2>2, <2>3, Zenon
<1> DEFINE P(k) == Places(b, c, i)[k]
<1>11. /\ P(0) = 3 /\ \A k \in 1 .. c : Onward(b, i, P(k - 1), P(k))
  BY <1>5b, PlacesStep, Zenon
<1>12. ~(3 >= i)
  BY <1>7
<1>13. n * 256 + p + 2 > i - 3
  <2>1. n # 0 => n * 256 + p + 2 >= 258
    BY <1>9b
  <2>2. i < 256 /\ i \in Nat
    BY <1>2, <1>3, RoomAssumption
  <2>3. n = 0 => i = 4 /\ p + 2 > 1
    <3>1. n = 0 => l = 4
      BY <1>2, <1>9, Zenon
    <3>2. i <= l
      BY <1>3
    <3> QED  BY <1>3, <1>7, <1>9b, <3>1, <3>2
  <2> QED  BY <1>9b, <2>1, <2>2, <2>3
<1>14. P(1) \in Nat /\ P(1) > i
  <2>1. Onward(b, i, P(0), P(1))
    <3>1. PICK k \in 1 .. c : k = 1 /\ k - 1 = 0
      BY <1>5b
    <3> HIDE DEF P
    <3> QED  BY <1>11, <3>1
  <2>2. P(1) = 3 + ParamSize(b, 3)
    <3> HIDE DEF P
    <3> QED  BY <1>11, <1>12, <2>1, Zenon DEF Onward
  <2> HIDE DEF P
  <2> QED  BY <1>3, <1>9b, <1>10, <1>13, <2>2
<1> HIDE DEF P
<1>15. \A k \in 1 .. c : P(k) \in Nat /\ P(k) > i
  <2> DEFINE T == {k \in 1 .. c : ~(P(k) \in Nat /\ P(k) > i)}
  <2>1. SUFFICES ASSUME T # {} PROVE FALSE
    OBVIOUS
  <2>2. PICK k \in T : \A j \in T : k <= j
    <3> T \subseteq Nat  BY <1>5b
    <3> HIDE DEF T
    <3> QED  BY <2>1, HasLeast
  <2>3. k # 1
    BY <1>14, <2>2
  <2>4. k - 1 \in 1 .. c /\ k - 1 \notin T /\ k \in 1 .. c
    BY <1>5b, <2>2, <2>3
  <2>5. P(k - 1) \in Nat /\ P(k - 1) > i
    BY <2>4
  <2>6. P(k) = i + 1
    <3>1. Onward(b, i, P(k - 1), P(k))
      BY <1>11, <2>4, Zenon
    <3> QED  BY <1>3, <2>5, <3>1 DEF Onward
  <2> QED  BY <1>3, <2>2, <2>6
<1>16. P(c) = i
  BY <1>4, <1>6, Zenon DEF P
<1> QED  BY <1>3, <1>5b, <1>15, <1>16

\* The bytes of a sequence from the j-th to the i-th.
LEMMA Cut ==
  ASSUME NEW F \in Seq(0 .. 255), NEW j \in 1 .. Len(F), NEW i \in j .. Len(F)
  PROVE  /\ SubSeq(F, j, i) \in Seq(0 .. 255) /\ Len(SubSeq(F, j, i)) = i - j + 1
         /\ \A k \in 1 .. i - j + 1 : SubSeq(F, j, i)[k] = F[j - 1 + k]
<1>1. Len(F) \in Nat
  BY LenProperties
<1>2. j \in Int /\ i \in Int /\ j <= i
  BY <1>1
<1> DEFINE B == 0 .. 255
<1>3. \A k \in j .. i : F[k] \in B
  <2> TAKE k \in j .. i
  <2>1. k \in 1 .. Len(F)
    BY <1>1
  <2> QED  BY <2>1, ElementOfSeq, Zenon
<1> HIDE DEF B
<1>4. /\ SubSeq(F, j, i) \in Seq(B)
      /\ Len(SubSeq(F, j, i)) = IF j <= i THEN i - j + 1 ELSE 0
      /\ \A k \in 1 .. i - j + 1 : SubSeq(F, j, i)[k] = F[j + k - 1]
  BY <1>2, <1>3, SubSeqProperties, SMT
<1>5. ASSUME NEW k \in 1 .. i - j + 1 PROVE SubSeq(F, j, i)[k] = F[j - 1 + k]
  <2>1. j + k - 1 = j - 1 + k
    BY <1>2
  <2> QED  BY <1>4, <2>1, Zenon
<1> QED  BY <1>2, <1>4, <1>5 DEF B

LEMMA PartEnds ==
  ASSUME NoFrameInside, NEW r \in Calls, NEW i \in 1 .. Len(Frame(r)),
         NEW b \in Seq(0 .. 255), Part(r, b, i), EndOfFrame(b)
  PROVE  (i = Len(Frame(r)) /\ b = Frame(r)) \/ Harmless(b)
<1>1. PICK F \in Seq(0 .. 255) : F = Frame(r)
  BY FrameEnds, Zenon
<1>2. PICK l \in Nat : l = Len(F)
  BY LenProperties
<1>3. i \in 1 .. l /\ i \in Nat
  BY <1>1, <1>2
<1>4. PICK j \in 1 .. i : Len(b) = i - j + 1 /\ \A k \in 1 .. Len(b) : b[k] = F[j - 1 + k]
  BY <1>1, Zenon DEF Part
<1>5. CASE j = 1
  <2>1. Len(b) = i
    BY <1>3, <1>4, <1>5
  <2>2. \A k \in 1 .. i : b[k] = F[k]
    <3> TAKE k \in 1 .. i
    <3>1. j - 1 + k = k
      BY <1>3, <1>5
    <3> QED  BY <1>4, <2>1, <3>1, Zenon
  <2>3. i = Len(F)
    BY <1>1, <2>1, <2>2, EndIsTheEnd, Zenon
  <2>4. b = F
    BY <2>1, <2>2, <2>3, SeqEqual
  <2> QED  BY <1>1, <2>3, <2>4, Zenon
<1>6. CASE j # 1
  <2>1. j \in 2 .. l /\ i \in j .. l
    BY <1>2, <1>3, <1>4, <1>6
  <2>2. b = SubSeq(F, j, i)
    <3>1. PICK t : t = SubSeq(F, j, i)
      OBVIOUS
    <3>2. j \in 1 .. Len(F) /\ i \in j .. Len(F)
      BY <1>2, <1>3, <1>4
    <3>3. t \in Seq(0 .. 255) /\ Len(t) = Len(b) /\ \A k \in 1 .. Len(b) : t[k] = F[j - 1 + k]
      <4>1. /\ t \in Seq(0 .. 255) /\ Len(t) = i - j + 1
            /\ \A k \in 1 .. i - j + 1 : t[k] = F[j - 1 + k]
        BY <3>1, <3>2, Cut, Zenon
      <4> QED  BY <1>4, <4>1, Zenon
    <3>4. b = t
      BY <1>4, <3>3, SeqEqual
    <3> QED  BY <3>1, <3>4
  <2>3. EndOfFrame(SubSeq(Frame(r), j, i)) => Harmless(SubSeq(Frame(r), j, i))
    BY <1>1, <1>2, <2>1, Zenon DEF NoFrameInside
  <2> QED  BY <1>1, <2>2, <2>3, Zenon
<1> QED  BY <1>5, <1>6

LEMMA PartGrows ==
  ASSUME NEW r \in Calls, NEW i \in Nat, NEW b \in Seq(0 .. 255), NEW x \in 0 .. 255,
         x = Frame(r)[i + 1], b = <<>> \/ Part(r, b, i)
  PROVE  Part(r, Append(b, x), i + 1)
<1>1. PICK F : F = Frame(r)
  OBVIOUS
<1>2. PICK f : f = Append(b, x)
  OBVIOUS
<1>3. PICK l \in Nat : l = Len(b)
  BY LenProperties
<1>4. /\ Len(f) = l + 1 /\ f[l + 1] = x /\ \A k \in 1 .. l : f[k] = b[k]
  BY <1>2, <1>3, AppendByte, Zenon
<1>5. PICK j \in 1 .. i + 1 : /\ l = i - j + 1
                              /\ \A k \in 1 .. l : b[k] = F[j - 1 + k]
  <2>1. CASE b = <<>>
    <3>1. l = 0
      BY <1>3, <2>1, EmptySeq
    <3>2. i + 1 \in 1 .. i + 1 /\ l = i - (i + 1) + 1 /\ \A k \in 1 .. l : FALSE
      BY <3>1
    <3> QED  BY <3>2
  <2>2. CASE Part(r, b, i)
    <3>1. PICK j \in 1 .. i : l = i - j + 1 /\ \A k \in 1 .. l : b[k] = F[j - 1 + k]
      BY <1>1, <1>3, <2>2, Zenon DEF Part
    <3>2. j \in 1 .. i + 1
      OBVIOUS
    <3> QED  BY <3>1, <3>2, Zenon
  <2> QED  BY <2>1, <2>2
<1>6. Len(f) = i + 1 - j + 1
  BY <1>4, <1>5
<1>7. ASSUME NEW k \in 1 .. Len(f) PROVE f[k] = F[j - 1 + k]
  <2>1. k = l + 1 \/ k \in 1 .. l
    BY <1>4
  <2>2. CASE k = l + 1
    <3>1. j - 1 + k = i + 1
      BY <1>5, <2>2
    <3>2. f[k] = x
      BY <1>4, <2>2
    <3> QED  BY <1>1, <3>1, <3>2, Zenon
  <2>3. CASE k \in 1 .. l
    BY <1>4, <1>5, <2>3, Zenon
  <2> QED  BY <2>1, <2>2, <2>3, Zenon
<1>8. \E m \in 1 .. i + 1 : /\ Len(f) = i + 1 - m + 1
                            /\ \A k \in 1 .. Len(f) : f[k] = Frame(r)[m - 1 + k]
  BY <1>1, <1>5, <1>6, <1>7
<1>9. Part(r, f, i + 1)
  BY <1>8 DEF Part
<1> QED  BY <1>2, <1>9

LEMMA LateGrows ==
  ASSUME NEW r \in Calls, NEW i \in Nat, NEW b \in Seq(0 .. 255), NEW x \in 0 .. 255,
         x = Frame(r)[i + 1], Late(r, b, i)
  PROVE  Late(r, Append(b, x), i + 1)
<1>1. PICK F : F = Frame(r)
  OBVIOUS
<1>2. PICK f : f = Append(b, x)
  OBVIOUS
<1>3. Len(b) = i + 1 /\ b[1] = DUMMY /\ \A k \in 1 .. i : b[k + 1] = F[k]
  BY <1>1, Zenon DEF Late
<1>4. Len(f) = i + 1 + 1 /\ f[i + 1 + 1] = x /\ \A k \in 1 .. i + 1 : f[k] = b[k]
  <2>1. Len(f) = Len(b) + 1 /\ f[Len(b) + 1] = x /\ \A k \in 1 .. Len(b) : f[k] = b[k]
    BY <1>2, AppendByte, Zenon
  <2> QED  BY <1>3, <2>1, Zenon
<1>5. f[1] = DUMMY
  <2> 1 \in 1 .. i + 1  OBVIOUS
  <2> QED  BY <1>3, <1>4, Zenon
<1>6. ASSUME NEW k \in 1 .. i + 1 PROVE f[k + 1] = F[k]
  <2>1. k = i + 1 \/ (k \in 1 .. i /\ k + 1 \in 1 .. i + 1)
    OBVIOUS
  <2>2. k \in 1 .. i /\ k + 1 \in 1 .. i + 1 => f[k + 1] = b[k + 1] /\ b[k + 1] = F[k]
    BY <1>3, <1>4, Zenon
  <2>3. k = i + 1 => f[k + 1] = F[k]
    BY <1>1, <1>4, Zenon
  <2> QED  BY <2>1, <2>2, <2>3, Zenon
<1> QED  BY <1>1, <1>2, <1>4, <1>5, <1>6, Zenon DEF Late

\* The first byte of a request after what is left of the last call.
LEMMA StaleGrows ==
  ASSUME NEW r \in Calls, NEW b \in Seq(0 .. 255), Stale(b)
  PROVE  Late(r, Append(b, START), 1) \/ Endless(Append(b, START))
<1>1. PICK f : f = Append(b, START)
  OBVIOUS
<1>2. START \in 0 .. 255
  BY DEF START
<1>3. Len(f) = Len(b) + 1 /\ f[Len(b) + 1] = START /\ \A k \in 1 .. Len(b) : f[k] = b[k]
  BY <1>1, <1>2, AppendByte, Zenon
<1>4. CASE Len(b) = 1 /\ b[1] = DUMMY
  <2>1. Len(f) = 2 /\ f[2] = START /\ f[1] = DUMMY
    BY <1>3, <1>4
  <2>2. Frame(r)[1] = START
    BY FrameEnds, Zenon
  <2>3. \A k \in 1 .. 1 : f[k + 1] = Frame(r)[k]
    BY <2>1, <2>2
  <2>4. Late(r, f, 1)
    BY <2>1, <2>3 DEF Late
  <2> QED  BY <1>1, <2>4, Zenon
<1>5. CASE Len(b) = 2
  <2>1. Len(f) = 3 /\ f[3] = START
    BY <1>3, <1>5
  <2>2. Endless(f)
    BY <2>1 DEF Endless, START
  <2> QED  BY <1>1, <2>2, Zenon
<1>6. CASE Endless(b)
  BY <1>2, <1>6, EndlessGoesOn, Zenon
<1> QED  BY <1>4, <1>5, <1>6, Zenon DEF Stale

\* A byte to read after what is left of the last call, or after nothing.
LEMMA StaleStays ==
  ASSUME NEW b \in Seq(0 .. 255), b = <<>> \/ Stale(b) \/ Len(b) <= 2
  PROVE  Stale(Append(b, DUMMY))
<1>1. PICK f : f = Append(b, DUMMY)
  OBVIOUS
<1>2. DUMMY \in 0 .. 255
  BY DEF DUMMY
<1>3. PICK l \in Nat : l = Len(b)
  BY LenProperties
<1>4. Len(f) = l + 1 /\ f[l + 1] = DUMMY /\ \A k \in 1 .. l : f[k] = b[k]
  BY <1>1, <1>2, <1>3, AppendByte, Zenon
<1>5. CASE l = 0
  BY <1>1, <1>4, <1>5 DEF Stale
<1>6. CASE l = 1
  BY <1>1, <1>4, <1>6 DEF Stale
<1>7. CASE l = 2
  <2>1. Endless(f)
    BY <1>4, <1>7 DEF Endless, DUMMY
  <2> QED  BY <1>1, <2>1, Zenon DEF Stale
<1>8. CASE Endless(b)
  <2>1. Endless(f)
    BY <1>1, <1>2, <1>8, EndlessGoesOn, Zenon
  <2> QED  BY <1>1, <2>1, Zenon DEF Stale
<1>9. l = 0 \/ l = 1 \/ l = 2 \/ Endless(b)
  <2>1. b = <<>> => l = 0
    BY <1>3, EmptySeq
  <2> QED  BY <1>3, <2>1 DEF Stale
<1> QED  BY <1>5, <1>6, <1>7, <1>8, <1>9, Zenon

\* The next byte of the request, and whether it ends what has been collected.
LEMMA KnownGrows ==
  ASSUME NoFrameInside, BUFFERSIZE \in Nat, NEW r \in Calls, NEW i \in Nat,
         i < Len(Frame(r)), NEW b \in Seq(0 .. 255), b = <<>> \/ Known(r, b, i)
  PROVE  LET f == Append(b, Frame(r)[i + 1])
         IN  /\ Known(r, f, i + 1)
             /\ EndOfFrame(f) => (i + 1 = Len(Frame(r)) /\ f = Frame(r)) \/ Harmless(f)
<1>1. PICK l \in Nat : l = Len(Frame(r)) /\ \A k \in 1 .. l : Frame(r)[k] \in 0 .. 255
  BY FrameEnds, ZenonT(40)
<1>2. i + 1 \in 1 .. l
  BY <1>1
<1>3. PICK x \in 0 .. 255 : x = Frame(r)[i + 1]
  BY <1>1, <1>2, Zenon
<1>4. PICK f \in Seq(0 .. 255) : f = Append(b, x)
  BY AppendByte, Zenon
<1>5. Part(r, f, i + 1) \/ Late(r, f, i + 1) \/ Endless(f)
  <2>1. CASE b = <<>> \/ Part(r, b, i)
    BY <1>3, <1>4, <2>1, PartGrows, Zenon
  <2>2. CASE Late(r, b, i)
    BY <1>3, <1>4, <2>2, LateGrows, Zenon
  <2>3. CASE Endless(b)
    BY <1>4, <2>3, EndlessGoesOn, Zenon
  <2>4. CASE i = 0 /\ Stale(b)
    <3>1. i + 1 = 1 /\ x = START
      BY <1>3, <2>4, FrameEnds
    <3> QED  BY <1>4, <2>4, <3>1, StaleGrows, Zenon
  <2> QED  BY <2>1, <2>2, <2>3, <2>4, Zenon DEF Known
<1>6. EndOfFrame(f) => Part(r, f, i + 1)
  BY <1>1, <1>2, <1>5, LateHasNoEnd, EndlessHasNoEnd, Zenon
<1>7. EndOfFrame(f) => (i + 1 = Len(Frame(r)) /\ f = Frame(r)) \/ Harmless(f)
  BY <1>1, <1>2, <1>6, PartEnds, Zenon
<1>8. i + 1 >= 1
  OBVIOUS
<1> QED  BY <1>3, <1>4, <1>5, <1>7, <1>8, Zenon DEF Known

-----------------------------------------------------------------------------
(***************************************************************************)
(* The invariant that makes a request whole in spite of pauses.            *)
(***************************************************************************)

\* The byte received last, which the shield may find untaken.
LastByte ==
  /\ rdr = <<>> \/ rdr = <<last>>
  /\ hpc = "send" /\ hi >= 1 => last = Frame(call)[hi]
  /\ hpc = "wait" \/ (hpc = "start" /\ hi = 0) => last = END
  /\ hpc = "read" \/ (hpc = "start" /\ hi > 0) => last = DUMMY
  /\ hpc = "idle" => rdr = <<>> \/ last = DUMMY

\* What the interrupt handler waits to go on with: while the host reads for a
\* START it grows by a byte each, so that it is gone before the host gives up.
Collected == sh = "isr" /\ rbuf # <<>> =>
  /\ hpc = "send" => Known(call, rbuf, hi)
  /\ hpc = "start" => Stale(rbuf) \/ Len(rbuf) > hi
  /\ hpc = "read" \/ hpc = "idle" => Stale(rbuf)

\* What the main loop works on.
AtWork ==
  /\ sh = "busy" => /\ hpc = "send" \/ hpc = "wait"
                    /\ hpc = "send" => hi >= 1
                    /\ ran = <<>>
                    /\ (hpc = "wait" /\ rbuf = Frame(call)) \/ Harmless(rbuf)
  /\ hpc = "send" => ran = <<>> /\ sh # "reply" /\ sh # "set"
  /\ sh = "set" => /\ hpc = "read" \/ hpc = "idle"
                   /\ rbuf = Frame(call) /\ call.cmd \in SetCmds /\ ran = <<>>

\* The host has taken p bytes of the reply w; t is in the registers, s is still
\* to be written.
Told(w, p, t, s) ==
  /\ Len(t) \in 1 .. 2 /\ p + Len(t) + Len(s) = 6
  /\ \A i \in 1 .. Len(t) : t[i] = w[p + i]
  /\ \A i \in 1 .. Len(s) : s[i] = w[p + Len(t) + i]
Heard(w, g) == \A i \in 1 .. Len(g) : g[i] = w[1 + i]
Telling == sh = "reply" =>
  /\ rbuf = Frame(call) /\ RanByReply
  /\ \/ (hpc = "wait" \/ hpc = "start") /\ Told(ReplyTo(call.cmd), 0, tx, rest)
     \/ /\ hpc = "read"
        /\ Told(ReplyTo(call.cmd), 1 + Len(got), tx, rest)
        /\ Heard(ReplyTo(call.cmd), got)

Whole == LastByte /\ Collected /\ AtWork /\ Telling /\ Genuine

LEMMA TakenCases ==
  ASSUME rbuf \in Seq(0 .. 255), NEW b \in 0 .. 255, Taken(b)
  PROVE  \/ sh' = "listen" /\ rbuf' = <<>>
         \/ /\ rbuf' = Append(rbuf, b) /\ ~(Len(Append(rbuf, b)) >= BUFFERSIZE)
            /\ \/ sh' = "isr" /\ ~EndOfFrame(Append(rbuf, b))
               \/ sh' = "busy" /\ EndOfFrame(Append(rbuf, b))
BY Zenon DEF Taken

\* A byte to read ends no frame.
LEMMA DummyTaken ==
  ASSUME rbuf \in Seq(0 .. 255), Taken(DUMMY)
  PROVE  \/ sh' = "listen" /\ rbuf' = <<>>
         \/ /\ sh' = "isr" /\ rbuf' = Append(rbuf, DUMMY)
            /\ ~(Len(Append(rbuf, DUMMY)) >= BUFFERSIZE)
<1>1. DUMMY \in 0 .. 255 /\ DUMMY # END
  BY DEF DUMMY, END
<1>2. PICK f : f = Append(rbuf, DUMMY)
  OBVIOUS
<1>3. f[Len(f)] = DUMMY
  <2>1. Len(f) = Len(rbuf) + 1 /\ f[Len(rbuf) + 1] = DUMMY
    BY <1>1, <1>2, AppendByte, Zenon
  <2> QED  BY <2>1, Zenon
<1>4. ~EndOfFrame(f)
  BY <1>1, <1>3, Zenon DEF EndOfFrame
<1> QED  BY <1>1, <1>2, <1>4, TakenCases, Zenon

\* The interrupt is enabled again, with the host where it was.
LEMMA ListenWhole ==
  ASSUME IInv, LastByte, Listen, sh # "listen", sh # "isr", UNCHANGED host, last' = last,
         hpc = "send" => hi >= 1
  PROVE  LastByte' /\ Collected' /\ sh' # "busy" /\ sh' # "reply" /\ sh' # "set"
<1>1. /\ sh' = IF rdr = <<>> THEN "listen" ELSE "isr"
      /\ rbuf' = <<>> \/ rbuf' = rdr
      /\ rdr' = <<>> \/ rdr' = rdr
      /\ UNCHANGED <<hpc, call, hi, got, answer>>
  BY DEF Listen, host
<1>2. call \in Calls /\ hi \in Nat /\ last \in 0 .. 255
  BY DEF IInv, TypeOK
<1>3. LastByte'
  BY <1>1 DEF LastByte
<1>4. Collected'
  <2> SUFFICES ASSUME sh' = "isr", rbuf' # <<>> PROVE Collected'
    BY DEF Collected
  <2>1. rdr = <<last>> /\ rbuf' = <<last>>
    BY <1>1 DEF LastByte
  <2>2. Len(rbuf') = 1 /\ rbuf'[1] = last
    BY <2>1
  <2>3. last = DUMMY => Stale(rbuf')
    BY <2>2 DEF Stale
  <2>4. hpc = "send" => Known(call, rbuf', hi)
    <3> SUFFICES ASSUME hpc = "send" PROVE Known(call, rbuf', hi)
      OBVIOUS
    <3>1. hi >= 1 /\ last = Frame(call)[hi]
      BY DEF LastByte
    <3>2. PICK i \in Nat : i = hi
      BY <1>2
    <3>3. i \in 1 .. i /\ i - i + 1 = 1 /\ \A k \in 1 .. 1 : i - 1 + k = i
      BY <3>1, <3>2
    <3>4. Part(call, rbuf', i)
      <4>1. Len(rbuf') = i - i + 1
        BY <2>2, <3>3, Zenon
      <4>2. ASSUME NEW k \in 1 .. Len(rbuf') PROVE rbuf'[k] = Frame(call)[i - 1 + k]
        <5>1. k = 1 /\ i - 1 + k = i
          BY <2>2, <3>2
        <5> QED  BY <2>2, <3>1, <3>2, <5>1, Zenon
      <4> QED  BY <3>3, <4>1, <4>2, Zenon DEF Part
    <3> QED  BY <3>1, <3>2, <3>4, Zenon DEF Known
  <2>5. hpc = "start" => Stale(rbuf') \/ Len(rbuf') > hi
    BY <1>2, <2>2, <2>3 DEF LastByte
  <2>6. hpc = "read" \/ hpc = "idle" => Stale(rbuf')
    <3>1. rdr # <<>>
      BY <2>1
    <3> QED  BY <2>3, <3>1 DEF LastByte
  <2> QED  BY <1>1, <2>4, <2>5, <2>6, Zenon DEF Collected
<1> QED  BY <1>1, <1>3, <1>4

LEMMA CallWhole ==
  ASSUME IInv, Whole, NEW r \in Calls, Call(r)
  PROVE  Whole'
<1>1. /\ hpc = "idle" /\ Avail /\ hpc' = "send" /\ call' = r /\ ran' = <<>>
      /\ UNCHANGED <<hi, got, paused, gaps, sh, rbuf, rest, rdr, last, tx>>
  BY DEF Call, wire
<1>2. hi = 0
  BY <1>1 DEF IInv, HostTidy
<1>3. sh = "listen" \/ sh = "isr"
  BY <1>1 DEF Avail, Whole, Telling
<1>4. LastByte'
  BY <1>1, <1>2, <1>3 DEF Whole, LastByte
<1>5. Collected'
  <2> SUFFICES ASSUME sh' = "isr", rbuf' # <<>> PROVE Known(call', rbuf', hi')
    BY <1>1 DEF Collected
  <2>1. Stale(rbuf)
    BY <1>1 DEF Whole, Collected
  <2> QED  BY <1>1, <1>2, <2>1 DEF Known
<1>6. AtWork'
  BY <1>1, <1>3 DEF AtWork
<1>7. Telling'
  BY <1>1, <1>3 DEF Telling
<1>8. Genuine'
  BY <1>1 DEF Genuine
<1> QED  BY <1>4, <1>5, <1>6, <1>7, <1>8 DEF Whole

LEMMA SendWhole ==
  ASSUME NoFrameInside, IInv, Whole, Send
  PROVE  Whole'
<1>1. /\ call \in Calls /\ rbuf \in Seq(0 .. 255) /\ BUFFERSIZE \in Nat
      /\ sh \in {"listen", "isr", "busy", "reply", "set"}
  <2> call \in Calls  BY DEF IInv, TypeOK
  <2> QED  BY Bounded DEF IInv, TypeOK
<1>2. PICK i \in Nat, l \in Nat : i = hi /\ l = Len(Frame(call)) /\ i < l
  BY <1>1, FrameEnds DEF IInv, TypeOK, HostTidy, Send
<1>3. PICK x : x = Frame(call)[i + 1]
  OBVIOUS
<1>4. x \in 0 .. 255 /\ (i + 1 = l => x = END) /\ i + 1 \in 1 .. l
  <2>1. i + 1 \in 1 .. l
    BY <1>2
  <2>2. \A k \in 1 .. l : Frame(call)[k] \in 0 .. 255
    BY <1>1, <1>2, FrameEnds, ZenonT(40)
  <2>3. i + 1 = l => x = END
    BY <1>1, <1>2, <1>3, FrameEnds, Zenon
  <2> QED  BY <1>3, <2>1, <2>2, <2>3, Zenon
<1>5. /\ hpc = "send" /\ hi' = i + 1 /\ call' = call /\ ran' = ran
      /\ hpc' = IF i + 1 = l THEN "wait" ELSE "send"
      /\ Arrive(x)
  BY <1>2, <1>3, Zenon DEF Send
<1>6. last' = x
  BY <1>5, Zenon DEF Arrive
<1>7. ran = <<>> /\ sh # "reply" /\ sh # "set"
  BY <1>5 DEF Whole, AtWork
<1>8. (hpc' = "send" \/ hpc' = "wait") /\ i + 1 >= 1
  BY <1>5
<1>9. CASE sh \in {"listen", "isr"} /\ Taken(x) /\ rdr' = <<>> /\ rest' = rest
  <2>2. PICK f : f = Append(rbuf, x)
    OBVIOUS
  <2>3. /\ Known(call, f, i + 1)
        /\ EndOfFrame(f) => (i + 1 = l /\ f = Frame(call)) \/ Harmless(f)
    <3>1. rbuf = <<>> \/ Known(call, rbuf, i)
      BY <1>2, <1>5, <1>9 DEF IInv, ShieldTidy, Whole, Collected
    <3> QED  BY <1>1, <1>2, <1>3, <2>2, <3>1, KnownGrows, Zenon
  <2>4. \/ sh' = "listen"
        \/ rbuf' = f /\ (sh' = "isr" \/ (sh' = "busy" /\ EndOfFrame(f)))
    BY <1>1, <1>4, <1>9, <2>2, TakenCases, Zenon
  <2>5. LastByte'
    BY <1>2, <1>3, <1>4, <1>5, <1>6, <1>8, <1>9 DEF LastByte
  <2>6. Collected'
    BY <1>5, <1>8, <2>3, <2>4 DEF Collected
  <2>7. AtWork'
    BY <1>5, <1>7, <1>8, <2>3, <2>4 DEF AtWork
  <2>8. Telling'
    BY <2>4 DEF Telling
  <2> QED  BY <1>5, <1>7, <2>5, <2>6, <2>7, <2>8 DEF Whole, Genuine
<1>11. CASE /\ sh \in {"listen", "isr"} /\ Len(tx) > 1
            /\ sh' = "isr" /\ rdr' = <<x>> /\ UNCHANGED <<rbuf, rest>>
  <2>1. rbuf' = <<>>
    BY <1>11, EmptySeq DEF IInv, ShieldTidy
  <2>2. LastByte'
    BY <1>2, <1>3, <1>4, <1>5, <1>6, <1>8, <1>11 DEF LastByte
  <2>3. AtWork'
    BY <1>5, <1>7, <1>8, <1>11 DEF AtWork
  <2> QED  BY <1>5, <1>7, <1>11, <2>1, <2>2, <2>3 DEF Whole, Genuine, Collected, Telling
<1>10. CASE sh = "busy" /\ rdr' = <<x>> /\ UNCHANGED <<sh, rbuf, rest>>
  <2>1. Harmless(rbuf)
    BY <1>5, <1>10 DEF Whole, AtWork
  <2>2. LastByte'
    BY <1>2, <1>3, <1>4, <1>5, <1>6, <1>8, <1>10 DEF LastByte
  <2>3. AtWork'
    BY <1>5, <1>7, <1>8, <1>10, <2>1 DEF AtWork
  <2> QED  BY <1>5, <1>7, <1>10, <2>2, <2>3 DEF Whole, Genuine, Collected, Telling
<1> QED  BY <1>1, <1>5, <1>7, <1>9, <1>10, <1>11 DEF Arrive

LEMMA WaitReadyWhole ==
  ASSUME IInv, Whole, WaitReady
  PROVE  Whole'
<1>1. /\ hpc = "wait" /\ Avail /\ hpc' = "start" /\ hi' = 0
      /\ UNCHANGED <<call, got, rdr, last, tx, sh, rbuf, rest, ran>>
  BY DEF WaitReady, wire, shield
<1>2. LastByte'
  BY <1>1 DEF Whole, LastByte
<1>3. Collected'
  <2> SUFFICES ASSUME rbuf # <<>> PROVE Len(rbuf) > 0
    BY <1>1 DEF Collected
  <2>1. rbuf \in Seq(0 .. 255)
    BY DEF IInv, TypeOK
  <2> QED  BY <2>1, FirstByte
<1>4. AtWork'
  BY <1>1 DEF Whole, AtWork, Avail
<1>5. Telling'
  BY <1>1 DEF Whole, Telling, RanByReply
<1> QED  BY <1>1, <1>2, <1>3, <1>4, <1>5 DEF Whole, Genuine

\* The reply of a command, byte by byte.
LEMMA ReplyIs ==
  ASSUME NEW c \in 16 .. 70, NEW w, w = ReplyTo(c)
  PROVE  /\ w[1] = START /\ w[2] = Reply(c) /\ w[3] = 1 /\ w[4] = 1
         /\ Told(w, 0, <<START>>, Tail(w))
<1>1. w = <<START, c + 128, 1, 1, 1, END>>
  BY DEF ReplyTo, Reply
<1>2. w[1] = START /\ w[2] = c + 128 /\ w[3] = 1 /\ w[4] = 1
  BY <1>1
<1>3. Tail(w) = <<c + 128, 1, 1, 1, END>>
  BY <1>1
<1>4. PICK s : s = Tail(w)
  OBVIOUS
<1>5. PICK t : t = <<START>>
  OBVIOUS
<1>6. Len(t) = 1 /\ t[1] = START
  BY <1>5
<1>7. Len(s) = 5
  BY <1>3, <1>4
<1>8. s[1] = w[2] /\ s[2] = w[3] /\ s[3] = w[4] /\ s[4] = w[5] /\ s[5] = w[6]
  BY <1>1, <1>3, <1>4
<1>9. \A i \in 1 .. 5 : s[i] = w[1 + i]
  BY <1>8
<1>10. Told(w, 0, t, s)
  <2>1. \A i \in 1 .. Len(t) : t[i] = w[0 + i]
    BY <1>2, <1>6
  <2>2. \A i \in 1 .. Len(s) : s[i] = w[0 + Len(t) + i]
    BY <1>6, <1>7, <1>9
  <2> QED  BY <1>6, <1>7, <2>1, <2>2 DEF Told
<1> QED  BY <1>2, <1>4, <1>5, <1>10, Zenon DEF Reply

\* One byte of the reply goes over the wire.
On(w, p, t, s) ==
  /\ t # <<>> /\ Head(t) = w[p + 1]
  /\ Len(t) > 1 => Told(w, p + 1, Tail(t), s)
  /\ Len(t) <= 1 /\ s # <<>> => Told(w, p + 1, <<Head(s)>>, Tail(s))
  /\ Len(t) <= 1 /\ s = <<>> => p = 5
  /\ Len(t) > 1 \/ s # <<>> => p \in 0 .. 4

LEMMA ToldOn ==
  ASSUME NEW w, NEW p \in Nat, NEW t \in Seq(0 .. 255), NEW s \in Seq(0 .. 255),
         Told(w, p, t, s)
  PROVE  On(w, p, t, s)
<1>1. PICK m \in 1 .. 2, n \in Nat : m = Len(t) /\ n = Len(s) /\ p + m + n = 6
  BY LenProperties DEF Told
<1>2. /\ \A i \in 1 .. m : t[i] = w[p + i]
      /\ \A i \in 1 .. n : s[i] = w[p + m + i]
  BY <1>1, Zenon DEF Told
<1>3. t # <<>>
  <2>1. m # 0
    OBVIOUS
  <2>2. Len(<<>>) = 0
    BY EmptySeq
  <2> QED  BY <1>1, <2>1, <2>2, Zenon
<1>4. /\ Head(t) = t[1] /\ Tail(t) \in Seq(0 .. 255) /\ Len(Tail(t)) = m - 1
      /\ \A i \in 1 .. m - 1 : Tail(t)[i] = t[i + 1]
  BY <1>1, <1>3, FirstByte, Zenon
<1>5. Head(t) = w[p + 1]
  BY <1>2, <1>4
<1>6. ASSUME m = 2 PROVE Told(w, p + 1, Tail(t), s)
  <2>1. PICK u : u = Tail(t)
    OBVIOUS
  <2>2. Len(u) = 1 /\ u[1] = t[2]
    <3>1. 1 \in 1 .. m - 1 /\ 1 + 1 = 2 /\ m - 1 = 1
      BY <1>6
    <3>2. u[1] = t[1 + 1]
      BY <1>4, <2>1, <3>1, Zenon
    <3> QED  BY <1>4, <2>1, <3>1, <3>2, Zenon
  <2>3. t[2] = w[p + 2]
    BY <1>2, <1>6
  <2>4. \A i \in 1 .. Len(u) : u[i] = w[p + 1 + i]
    BY <2>2, <2>3
  <2>5. \A i \in 1 .. Len(s) : s[i] = w[p + 1 + Len(u) + i]
    <3> TAKE i \in 1 .. Len(s)
    <3>1. s[i] = w[p + m + i]
      BY <1>1, <1>2, Zenon
    <3>2. p + m + i = p + 1 + Len(u) + i
      BY <1>1, <1>6, <2>2
    <3> QED  BY <3>1, <3>2, Zenon
  <2>6. p + 1 + Len(u) + Len(s) = 6 /\ Len(u) \in 1 .. 2
    BY <1>1, <1>6, <2>2
  <2> QED  BY <2>1, <2>4, <2>5, <2>6, Zenon DEF Told
<1>7. ASSUME m = 1, s # <<>> PROVE Told(w, p + 1, <<Head(s)>>, Tail(s))
  <2>1. PICK v : v = Tail(s)
    OBVIOUS
  <2>2. /\ Head(s) = s[1] /\ Len(v) = n - 1 /\ n >= 1
        /\ \A i \in 1 .. n - 1 : v[i] = s[i + 1]
    BY <1>1, <1>7, <2>1, FirstByte, Zenon
  <2>3. PICK u : u = <<Head(s)>>
    OBVIOUS
  <2>4. Len(u) = 1 /\ u[1] = s[1]
    BY <2>2, <2>3
  <2>5. s[1] = w[p + 1 + 1]
    <3>1. 1 \in 1 .. n
      BY <2>2
    <3> QED  BY <1>2, <1>7, <3>1
  <2>6. \A i \in 1 .. Len(u) : u[i] = w[p + 1 + i]
    BY <2>4, <2>5
  <2>7. \A i \in 1 .. Len(v) : v[i] = w[p + 1 + Len(u) + i]
    <3> TAKE i \in 1 .. Len(v)
    <3>1. i \in 1 .. n - 1 /\ i + 1 \in 1 .. n
      BY <2>2
    <3>2. v[i] = s[i + 1] /\ s[i + 1] = w[p + m + (i + 1)]
      BY <1>2, <2>2, <3>1, Zenon
    <3>3. p + m + (i + 1) = p + 1 + Len(u) + i
      BY <1>7, <2>4, <3>1
    <3> QED  BY <3>2, <3>3, Zenon
  <2>8. p + 1 + Len(u) + Len(v) = 6 /\ Len(u) \in 1 .. 2
    BY <1>1, <1>7, <2>2, <2>4
  <2> QED  BY <2>1, <2>3, <2>6, <2>7, <2>8, Zenon DEF Told
<1>8. /\ Len(t) > 1 => m = 2
      /\ Len(t) <= 1 => m = 1
      /\ s = <<>> => n = 0
      /\ s # <<>> => n >= 1
  BY <1>1, FirstByte, EmptySeq
<1>9. /\ m = 1 /\ n = 0 => p = 5
      /\ m = 2 \/ n >= 1 => p \in 0 .. 4
  <2>1. p + m + n = 6
    BY <1>1, Zenon
  <2> QED  BY <2>1
<1> QED  BY <1>3, <1>5, <1>6, <1>7, <1>8, <1>9, Zenon DEF On

\* What a byte to read does while the shield waits for one or works on a frame.
LEMMA DummyArrives ==
  ASSUME IInv, Whole, hpc = "start" \/ hpc = "read", Arrive(DUMMY), sh # "reply",
         call' = call, ran' = ran, hpc' \in {"start", "read", "idle"},
         hpc' = "start" => hi' > 0,
         hpc' = "start" /\ (Stale(rbuf) \/ Len(rbuf) > hi) =>
             Stale(Append(rbuf, DUMMY)) \/ Len(Append(rbuf, DUMMY)) > hi',
         sh = "isr" /\ hpc' # "start" => Stale(rbuf) \/ Len(rbuf) <= 2
                                         \/ Len(Append(rbuf, DUMMY)) >= BUFFERSIZE,
         hpc = "read" => hpc' # "start"
  PROVE  Whole'
<1>1. last' = DUMMY
  BY Zenon DEF Arrive
<1>2. rbuf \in Seq(0 .. 255)
  BY DEF IInv, TypeOK
<1>3. CASE sh \in {"listen", "isr"} /\ Taken(DUMMY) /\ rdr' = <<>> /\ rest' = rest
  <2>2. \/ sh' = "listen"
        \/ /\ sh' = "isr" /\ rbuf' = Append(rbuf, DUMMY)
           /\ ~(Len(Append(rbuf, DUMMY)) >= BUFFERSIZE)
    BY <1>2, <1>3, DummyTaken, Zenon
  <2>3. LastByte'
    BY <1>1, <1>3 DEF LastByte
  <2>4. ASSUME sh' = "isr", hpc' = "start" PROVE Stale(rbuf') \/ Len(rbuf') > hi'
    <3>1. rbuf = <<>> \/ Stale(rbuf) \/ Len(rbuf) > hi
      BY <1>3, <2>4 DEF IInv, ShieldTidy, Whole, Collected
    <3>2. rbuf = <<>> => Stale(rbuf')
      BY <1>2, <2>2, <2>4, StaleStays, Zenon
    <3> QED  BY <2>2, <2>4, <3>1, <3>2, Zenon
  <2>5. ASSUME sh' = "isr", hpc' # "start" PROVE Stale(rbuf')
    <3>1. rbuf = <<>> \/ Stale(rbuf) \/ Len(rbuf) <= 2
      <4>1. sh = "isr" => Stale(rbuf) \/ Len(rbuf) <= 2
        BY <2>2, <2>5, Zenon
      <4> QED  BY <1>3, <4>1 DEF IInv, ShieldTidy
    <3> QED  BY <1>2, <2>2, <2>5, <3>1, StaleStays, Zenon
  <2>6. Collected'
    BY <2>4, <2>5 DEF Collected
  <2>7. AtWork'
    BY <2>2 DEF AtWork
  <2> QED  BY <2>2, <2>3, <2>6, <2>7 DEF Whole, Genuine, Telling
<1>5. CASE /\ sh \in {"listen", "isr"} /\ Len(tx) > 1
           /\ sh' = "isr" /\ rdr' = <<DUMMY>> /\ UNCHANGED <<rbuf, rest>>
  <2>1. rbuf' = <<>>
    BY <1>5, EmptySeq DEF IInv, ShieldTidy
  <2>2. LastByte'
    BY <1>1, <1>5 DEF LastByte
  <2>3. AtWork'
    BY <1>5 DEF AtWork
  <2> QED  BY <1>5, <2>1, <2>2, <2>3 DEF Whole, Genuine, Telling, Collected
<1>4. CASE sh \in {"busy", "set"} /\ rdr' = <<DUMMY>> /\ UNCHANGED <<sh, rbuf, rest>>
  <2>1. sh = "set" /\ hpc = "read"
    BY <1>4 DEF Whole, AtWork
  <2>2. LastByte'
    BY <1>1, <1>4, <2>1 DEF LastByte
  <2>3. AtWork'
    BY <1>4, <2>1 DEF Whole, AtWork
  <2> QED  BY <1>4, <2>1, <2>2, <2>3 DEF Whole, Genuine, Telling, Collected
<1> QED  BY <1>3, <1>4, <1>5 DEF Arrive

LEMMA ReadStartWhole ==
  ASSUME IInv, Whole, ReadStart
  PROVE  Whole'
<1>1. /\ hpc = "start" /\ Arrive(DUMMY) /\ call' = call /\ ran' = ran /\ hi \in Nat
      /\ got = <<>> /\ call \in Calls
  BY DEF ReadStart, IInv, TypeOK, HostTidy
<1>2. \/ Seen \in {START, ERR} /\ hpc' = "read" /\ hi' = 0 /\ got' = got
      \/ Seen \notin {START, ERR} /\ hi' = hi + 1 /\ hpc' = hpc
      \/ Seen \notin {START, ERR} /\ hi = TIMEOUT_CHAR /\ hpc' = "idle"
  BY DEF ReadStart, Return
<1>3. PICK l \in Nat : l = Len(rbuf) /\ rbuf \in Seq(0 .. 255)
  BY LenProperties DEF IInv, TypeOK
<1>4. CASE sh # "reply"
  <2>1. Len(Append(rbuf, DUMMY)) = l + 1
    <3> DUMMY \in 0 .. 255  BY DEF DUMMY
    <3> QED  BY <1>3, AppendByte, Zenon
  <2>2. hpc' \in {"start", "read", "idle"}
    BY <1>1, <1>2
  <2>3. hpc' = "start" => hi' = hi + 1 /\ hi' > 0
    BY <1>1, <1>2
  <2>4. hpc' = "start" /\ (Stale(rbuf) \/ Len(rbuf) > hi) =>
            Stale(Append(rbuf, DUMMY)) \/ Len(Append(rbuf, DUMMY)) > hi'
    <3>1. Stale(rbuf) => Stale(Append(rbuf, DUMMY))
      BY <1>3, StaleStays, Zenon
    <3>2. l > hi => l + 1 > hi + 1
      BY <1>1
    <3> QED  BY <1>3, <2>1, <2>3, <3>1, <3>2, Zenon
  <2>5. ASSUME sh = "isr", hpc' = "read" PROVE Len(rbuf) <= 2
    <3>1. Seen \in {START, ERR}
      BY <1>1, <1>2, <2>5
    <3>2. last = END \/ last = DUMMY
      BY <1>1 DEF Whole, LastByte
    <3>3. last \notin {START, ERR}
      BY <3>2 DEF START, ERR, END, DUMMY
    <3>4. tx # <<>>
      BY <3>1, <3>3, Zenon DEF Seen
    <3>5. rbuf = <<>>
      BY <2>5, <3>4 DEF IInv, ShieldTidy
    <3> QED  BY <3>5, EmptySeq
  <2>6. ASSUME sh = "isr", hpc' = "idle"
        PROVE  Stale(rbuf) \/ Len(rbuf) <= 2 \/ Len(Append(rbuf, DUMMY)) >= BUFFERSIZE
    <3>1. hi = TIMEOUT_CHAR
      BY <1>1, <1>2, <2>6
    <3>4. rbuf = <<>> => Len(rbuf) <= 2
      BY EmptySeq
    <3>2. rbuf = <<>> \/ Stale(rbuf) \/ l > hi
      BY <1>1, <1>3, <2>6 DEF Whole, Collected
    <3>3. l > hi => l + 1 >= BUFFERSIZE
      BY <3>1, SizeAssumption, RoomAssumption
    <3> QED  BY <2>1, <3>2, <3>3, <3>4, Zenon
  <2> QED  BY <1>1, <1>4, <2>2, <2>3, <2>4, <2>5, <2>6, DummyArrives, Zenon
<1>5. CASE sh = "reply"
  <2>1. PICK w : w = ReplyTo(call.cmd)
    OBVIOUS
  <2>2. Told(w, 0, tx, rest) /\ rbuf = Frame(call) /\ RanByReply
    BY <1>1, <1>5, <2>1 DEF Whole, Telling
  <2>3. tx \in Seq(0 .. 255) /\ rest \in Seq(0 .. 255)
    BY DEF IInv, TypeOK
  <2>4. /\ tx # <<>> /\ Head(tx) = w[0 + 1]
        /\ Len(tx) > 1 => Told(w, 0 + 1, Tail(tx), rest)
        /\ Len(tx) <= 1 /\ rest # <<>> => Told(w, 0 + 1, <<Head(rest)>>, Tail(rest))
        /\ Len(tx) <= 1 /\ rest = <<>> => FALSE
    <3>1. On(w, 0, tx, rest)
      BY <2>2, <2>3, ToldOn
    <3>2. 0 # 5
      OBVIOUS
    <3> QED  BY <3>1, <3>2, Zenon DEF On
  <2>5. Seen = START
    <3>1. w[1] = START
      BY <1>1, <2>1, Requests, ReplyIs, Zenon
    <3>2. Head(tx) = w[1]
      BY <2>4
    <3> QED  BY <2>4, <3>1, <3>2, Zenon DEF Seen
  <2>6. hpc' = "read" /\ got' = <<>>
    BY <1>1, <1>2, <2>5
  <2>7. ~(Len(tx) <= 1 /\ rest = <<>>)
    BY <2>4
  <2>8. /\ sh' = "reply" /\ rbuf' = rbuf /\ last' = DUMMY /\ (rdr' = <<>> \/ rdr' = <<DUMMY>>)
        /\ \/ Len(tx) > 1 /\ tx' = Tail(tx) /\ rest' = rest
           \/ Len(tx) <= 1 /\ rest # <<>> /\ tx' = <<Head(rest)>> /\ rest' = Tail(rest)
    <3>1. ~(Len(tx) <= 1 /\ Len(tx) > 1)
      BY <2>3
    <3> QED  BY <1>1, <1>5, <2>7, <3>1 DEF Arrive
  <2>9. Told(w, 1, tx', rest')
    <3>1. 0 + 1 = 1
      OBVIOUS
    <3> QED  BY <2>4, <2>8, <3>1, Zenon
  <2>10. Telling'
    <3>1. Len(got') = 0
      BY <2>6, EmptySeq
    <3>2. 1 + Len(got') = 1 /\ Heard(w, got')
      BY <3>1 DEF Heard
    <3>3. Told(w, 1 + Len(got'), tx', rest') /\ w = ReplyTo(call'.cmd)
      BY <1>1, <2>1, <2>9, <3>2, Zenon
    <3>4. rbuf' = Frame(call') /\ RanByReply'
      BY <1>1, <2>2, <2>8 DEF RanByReply
    <3> QED  BY <2>6, <3>2, <3>3, <3>4, Zenon DEF Telling
  <2>11. LastByte'
    BY <2>6, <2>8 DEF LastByte
  <2> QED  BY <1>1, <2>6, <2>8, <2>10, <2>11 DEF Whole, Collected, AtWork, Genuine
<1> QED  BY <1>4, <1>5

LEMMA ReadReplyWhole ==
  ASSUME IInv, Whole, ReadReply
  PROVE  Whole'
<1>1. /\ hpc = "read" /\ Arrive(DUMMY) /\ call' = call /\ ran' = ran
      /\ got \in Seq(0 .. 255) /\ call \in Calls
      /\ tx \in Seq(0 .. 255) /\ rest \in Seq(0 .. 255)
  BY DEF ReadReply, IInv, TypeOK
<1>2. hpc' \in {"read", "idle"}
  BY DEF ReadReply, Return
<1>3. CASE sh # "reply"
  <2>1. sh = "isr" => Stale(rbuf) \/ Len(rbuf) <= 2
    BY <1>1, EmptySeq DEF Whole, Collected
  <2>2. hpc' \in {"start", "read", "idle"} /\ hpc' # "start"
    BY <1>2
  <2> QED  BY <1>1, <1>3, <2>1, <2>2, DummyArrives, Zenon
<1>4. CASE sh = "reply"
  <2>1. PICK w : w = ReplyTo(call.cmd)
    OBVIOUS
  <2>2. PICK p \in Nat : p = 1 + Len(got)
    BY <1>1, LenProperties
  <2>3. Told(w, p, tx, rest) /\ Heard(w, got) /\ rbuf = Frame(call) /\ RanByReply
    BY <1>1, <1>4, <2>1, <2>2 DEF Whole, Telling
  <2>4. On(w, p, tx, rest)
    BY <1>1, <2>3, ToldOn, Zenon
  <2>5. w[2] = Reply(call.cmd) /\ w[3] = 1 /\ w[4] = 1
    BY <1>1, <2>1, Requests, ReplyIs, Zenon
  <2>6. Seen = w[p + 1] /\ Seen \in 0 .. 255
    <3>1. ShieldTypes
      BY Types DEF IInv
    <3> QED  BY <2>4, <3>1, SeenIsByte, Zenon DEF On, Seen
  <2>7. PICK g : g = Append(got, Seen)
    OBVIOUS
  <2>8. Len(g) = p /\ Heard(w, g)
    <3>1. PICK n \in Nat : n = Len(got) /\ p = n + 1
      BY <1>1, <2>2, LenProperties
    <3>2. Len(g) = n + 1 /\ g[n + 1] = Seen /\ \A i \in 1 .. n : g[i] = got[i]
      BY <1>1, <2>6, <2>7, <3>1, AppendByte, ZenonT(40)
    <3>3. Len(g) = p
      BY <3>1, <3>2
    <3>4. ASSUME NEW i \in 1 .. Len(g) PROVE g[i] = w[1 + i]
      <4>1. CASE i = n + 1
        <5>1. 1 + i = p + 1
          BY <3>1, <4>1
        <5> QED  BY <2>6, <3>2, <4>1, <5>1, Zenon
      <4>2. CASE i # n + 1
        <5>1. i \in 1 .. n
          BY <3>2, <4>2
        <5> QED  BY <2>3, <3>1, <3>2, <5>1, Zenon DEF Heard
      <4> QED  BY <4>1, <4>2
    <3> QED  BY <3>3, <3>4, Zenon DEF Heard
  <2>9. ~Wrong(g)
    <3>1. ASSUME p = 1 PROVE g[1] = w[2]
      <4> 1 \in 1 .. p /\ 1 + 1 = 2  BY <3>1
      <4> QED  BY <2>8 DEF Heard
    <3>2. ASSUME p = 2 PROVE g[2] = w[3]
      <4> 2 \in 1 .. p /\ 1 + 2 = 3  BY <3>2
      <4> QED  BY <2>8 DEF Heard
    <3> QED  BY <2>5, <2>8, <3>1, <3>2 DEF Wrong
  <2>10. Complete(g) <=> p = 5
    <3>1. p >= 3 => g[2] = 1 /\ g[3] = 1
      <4> SUFFICES ASSUME p >= 3 PROVE g[2] = 1 /\ g[3] = 1
        OBVIOUS
      <4>1. 2 \in 1 .. p /\ 3 \in 1 .. p /\ 1 + 2 = 3 /\ 1 + 3 = 4
        BY <2>2
      <4> QED  BY <2>5, <2>8, <4>1 DEF Heard
    <3> QED  BY <2>2, <2>8, <3>1 DEF Complete
  <2>11. \/ p = 5 /\ hpc' = "idle"
         \/ p # 5 /\ got' = g /\ hpc' = hpc
    BY <2>7, <2>9, <2>10, Zenon DEF ReadReply, Return
  <2>12. last' = DUMMY
    BY <1>1, Zenon DEF Arrive
  <2>13. CASE Len(tx) <= 1 /\ rest = <<>>
    <3>1. p = 5
      BY <2>4, <2>13, Zenon DEF On
    <3>2. hpc' = "idle"
      BY <2>11, <3>1
    <3>3. ~(Len(tx) > 1)
      BY <1>1, <2>13, LenProperties
    <3>4. /\ sh' = IF IsSet THEN "set" ELSE "listen"
          /\ rbuf' = IF IsSet THEN rbuf ELSE <<>>
          /\ rdr' = <<>>
      BY <1>1, <1>4, <2>13, <3>3 DEF Arrive
    <3>5. IsSet => call.cmd \in SetCmds
      BY <2>3, Exchange, Zenon DEF IsSet
    <3>6. LastByte'
      BY <3>2, <3>4 DEF LastByte
    <3>7. AtWork'
      BY <1>1, <2>3, <3>2, <3>4, <3>5 DEF AtWork, RanByReply
    <3> QED  BY <1>1, <3>4, <3>6, <3>7 DEF Whole, Collected, Telling, Genuine
  <2>14. CASE ~(Len(tx) <= 1 /\ rest = <<>>)
    <3>1. Len(tx) > 1 \/ (Len(tx) <= 1 /\ rest # <<>>)
      BY <1>1, <2>14, LenProperties
    <3>2. p \in 0 .. 4
      BY <2>4, <3>1, Zenon DEF On
    <3>3. got' = g /\ hpc' = "read"
      <4>1. p # 5
        BY <3>2
      <4> QED  BY <1>1, <2>11, <4>1, Zenon
    <3>4. /\ sh' = "reply" /\ rbuf' = rbuf /\ (rdr' = <<>> \/ rdr' = <<DUMMY>>)
          /\ \/ Len(tx) > 1 /\ tx' = Tail(tx) /\ rest' = rest
             \/ Len(tx) <= 1 /\ rest # <<>> /\ tx' = <<Head(rest)>> /\ rest' = Tail(rest)
      <4>1. ~(Len(tx) <= 1 /\ Len(tx) > 1)
        BY <1>1, LenProperties
      <4> QED  BY <1>1, <1>4, <3>1, <4>1 DEF Arrive
    <3>5. Told(w, p + 1, tx', rest')
      BY <2>4, <3>4, Zenon DEF On
    <3>6. Telling'
      <4>1. 1 + Len(got') = p + 1
        BY <2>2, <2>8, <3>3
      <4>2. Told(w, 1 + Len(got'), tx', rest') /\ w = ReplyTo(call'.cmd) /\ Heard(w, got')
        BY <1>1, <2>1, <2>8, <3>3, <3>5, <4>1, Zenon
      <4>3. rbuf' = Frame(call') /\ RanByReply'
        BY <1>1, <2>3, <3>4 DEF RanByReply
      <4> QED  BY <3>3, <4>2, <4>3, Zenon DEF Telling
    <3>7. LastByte'
      BY <2>12, <3>3, <3>4 DEF LastByte
    <3> QED  BY <1>1, <3>3, <3>4, <3>6, <3>7 DEF Whole, Collected, AtWork, Genuine
  <2> QED  BY <2>13, <2>14
<1> QED  BY <1>3, <1>4

LEMMA PollWhole ==
  ASSUME IInv, Whole, Poll \/ PollBad
  PROVE  Whole'
<1>1. /\ sh = "busy" /\ UNCHANGED host /\ last' = last
      /\ hpc = "send" \/ hpc = "wait"
      /\ hpc = "send" => hi >= 1
      /\ ran = <<>>
      /\ (hpc = "wait" /\ rbuf = Frame(call)) \/ Harmless(rbuf)
  BY DEF Poll, PollBad, Whole, AtWork
<1>2. UNCHANGED <<hpc, call, hi, got, answer>>
  BY <1>1 DEF host
<1>3. CASE Listen /\ UNCHANGED ran
  <2>1. LastByte' /\ Collected' /\ sh' # "busy" /\ sh' # "reply" /\ sh' # "set"
    BY <1>1, <1>3, ListenWhole DEF Whole
  <2> QED  BY <1>1, <1>2, <1>3, <2>1 DEF Whole, AtWork, Telling, Genuine
<1>4. CASE /\ TRUE \in Formats(rbuf)
           /\ Message(rbuf)[2] \in Cmds
           /\ sh' = "reply"
           /\ rbuf' = Message(rbuf)
           /\ tx' = Append(tx, START)
           /\ rest' = Tail(ReplyTo(Message(rbuf)[2]))
           /\ ran' = (IF Message(rbuf)[2] \in SetCmds THEN ran ELSE Append(ran, Message(rbuf)))
           /\ UNCHANGED rdr
  <2>1. Message(rbuf) # <<>>
    BY <1>4 DEF Formats
  <2>2. hpc = "wait" /\ rbuf = Frame(call)
    BY <1>1, <1>4, <2>1 DEF Harmless
  <2>3. Message(rbuf) = Frame(call) /\ Frame(call)[2] = call.cmd
    BY <2>2, Exchange, MessageIn, Zenon
  <2>4. tx = <<>>
    BY <1>1 DEF IInv, ShieldTidy
  <2>5. tx' = <<START>> /\ rest' = Tail(ReplyTo(call.cmd)) /\ rbuf' = Frame(call)
    BY <1>4, <2>3, <2>4
  <2>6. Told(ReplyTo(call.cmd), 0, tx', rest')
    <3>1. call.cmd \in 16 .. 70
      BY Exchange, Requests, Zenon
    <3> QED  BY <2>5, <3>1, ReplyIs, Zenon
  <2>7. RanByReply'
    BY <1>1, <1>2, <1>4, <2>3 DEF RanByReply
  <2>8. Telling'
    BY <1>2, <2>2, <2>5, <2>6, <2>7 DEF Telling
  <2>9. LastByte'
    BY <1>1, <1>2, <1>4, <2>2 DEF Whole, LastByte
  <2>10. Genuine'
    BY <2>7 DEF RanByReply, Genuine
  <2> QED  BY <1>2, <1>4, <2>2, <2>8, <2>9, <2>10 DEF Whole, Collected, AtWork
<1> QED  BY <1>3, <1>4, Zenon DEF Poll, PollBad

LEMMA RunSetWhole ==
  ASSUME IInv, Whole, RunSet
  PROVE  Whole'
<1>1. /\ sh = "set" /\ UNCHANGED host /\ last' = last /\ Listen /\ ran' = Append(ran, rbuf)
      /\ hpc = "read" \/ hpc = "idle"
      /\ rbuf = Frame(call) /\ ran = <<>>
  BY DEF RunSet, Whole, AtWork
<1>2. UNCHANGED <<hpc, call, hi, got, answer>>
  BY <1>1 DEF host
<1>3. LastByte' /\ Collected' /\ sh' # "busy" /\ sh' # "reply" /\ sh' # "set"
  BY <1>1, ListenWhole DEF Whole
<1>4. ran' = <<Frame(call)>>
  BY <1>1
<1> QED  BY <1>1, <1>2, <1>3, <1>4 DEF Whole, AtWork, Telling, Genuine

LEMMA StreamTimeoutWhole ==
  ASSUME IInv, Whole, StreamTimeout
  PROVE  Whole'
<1>1. /\ sh = "reply" /\ UNCHANGED host /\ last' = last /\ ran' = ran
      /\ rbuf = Frame(call) /\ RanByReply
      /\ hpc = "wait" \/ hpc = "start" \/ hpc = "read"
      /\ tx \in Seq(0 .. 255) /\ rest \in Seq(0 .. 255) /\ got \in Seq(0 .. 255)
  BY DEF StreamTimeout, Whole, Telling, IInv, TypeOK
<1>2. UNCHANGED <<hpc, call, hi, got, answer>>
  BY <1>1 DEF host
<1>3. CASE rest # <<>> /\ Len(tx) < 2 /\ tx' = Append(tx, Head(rest)) /\ rest' = Tail(rest)
           /\ UNCHANGED <<sh, rbuf, rdr>>
  <2>1. ASSUME NEW w, NEW p \in Nat, Told(w, p, tx, rest) PROVE Told(w, p, tx', rest')
    <3>1. PICK m \in Nat, n \in Nat : m = Len(tx) /\ n = Len(rest) /\ m = 1 /\ p + m + n = 6
      BY <1>1, <1>3, <2>1, LenProperties DEF Told
    <3>2. /\ Head(rest) = rest[1] /\ Head(rest) \in 0 .. 255 /\ n >= 1
          /\ Len(rest') = n - 1 /\ \A i \in 1 .. n - 1 : rest'[i] = rest[i + 1]
      BY <1>1, <1>3, <3>1, FirstByte, Zenon
    <3>3. Len(tx') = m + 1 /\ tx'[m + 1] = Head(rest) /\ \A i \in 1 .. m : tx'[i] = tx[i]
      <4>1. PICK f : f = Append(tx, Head(rest))
        OBVIOUS
      <4>2. /\ Len(f) = Len(tx) + 1 /\ f[Len(tx) + 1] = Head(rest)
            /\ \A i \in 1 .. Len(tx) : f[i] = tx[i]
        BY <1>1, <3>2, <4>1, AppendByte, Zenon
      <4>3. tx' = f
        BY <1>3, <4>1
      <4> QED  BY <3>1, <4>2, <4>3, Zenon
    <3>4. /\ \A i \in 1 .. m : tx[i] = w[p + i]
          /\ \A i \in 1 .. n : rest[i] = w[p + m + i]
      BY <2>1, <3>1, Zenon DEF Told
    <3>5. ASSUME NEW i \in 1 .. Len(tx') PROVE tx'[i] = w[p + i]
      <4>1. i \in 1 .. m \/ i = m + 1
        BY <3>3
      <4>2. tx'[m + 1] = w[p + (m + 1)]
        <5>1. 1 \in 1 .. n
          BY <3>2
        <5>2. rest[1] = w[p + m + 1]
          BY <3>4, <5>1, Zenon
        <5>3. p + m + 1 = p + (m + 1)
          OBVIOUS
        <5> QED  BY <3>2, <3>3, <5>2, <5>3, Zenon
      <4> QED  BY <3>3, <3>4, <4>1, <4>2, Zenon
    <3>6. ASSUME NEW i \in 1 .. Len(rest') PROVE rest'[i] = w[p + Len(tx') + i]
      <4>1. i \in 1 .. n - 1 /\ i + 1 \in 1 .. n
        BY <3>2
      <4>2. rest'[i] = rest[i + 1] /\ rest[i + 1] = w[p + m + (i + 1)]
        BY <3>2, <3>4, <4>1, Zenon
      <4>3. p + m + (i + 1) = p + Len(tx') + i
        BY <3>3, <4>1
      <4> QED  BY <4>2, <4>3, Zenon
    <3>7. Len(tx') \in 1 .. 2 /\ p + Len(tx') + Len(rest') = 6
      BY <3>1, <3>2, <3>3
    <3> QED  BY <3>5, <3>6, <3>7, Zenon DEF Told
  <2>2. Telling'
    <3>1. CASE hpc # "read"
      <4>1. Told(ReplyTo(call.cmd), 0, tx, rest)
        BY <1>1, <3>1 DEF Whole, Telling
      <4>2. Told(ReplyTo(call.cmd), 0, tx', rest')
        BY <2>1, <4>1
      <4> QED  BY <1>1, <1>2, <1>3, <3>1, <4>2 DEF Telling, RanByReply
    <3>2. CASE hpc = "read"
      <4>1. Told(ReplyTo(call.cmd), 1 + Len(got), tx, rest) /\ Heard(ReplyTo(call.cmd), got)
        BY <1>1, <3>2 DEF Whole, Telling
      <4>2. Told(ReplyTo(call.cmd), 1 + Len(got), tx', rest')
        <5> 1 + Len(got) \in Nat  BY <1>1, LenProperties
        <5> QED  BY <2>1, <4>1
      <4> QED  BY <1>1, <1>2, <1>3, <3>2, <4>1, <4>2 DEF Telling, RanByReply
    <3> QED  BY <3>1, <3>2
  <2>3. LastByte'
    BY <1>1, <1>2, <1>3 DEF Whole, LastByte
  <2> QED  BY <1>1, <1>2, <1>3, <2>2, <2>3 DEF Whole, Collected, AtWork, Genuine
<1>4. CASE Listen
  <2>1. LastByte' /\ Collected' /\ sh' # "busy" /\ sh' # "reply" /\ sh' # "set"
    BY <1>1, <1>4, ListenWhole DEF Whole
  <2> QED  BY <1>1, <1>2, <2>1 DEF Whole, AtWork, Telling, Genuine
<1>5. CASE rest = <<>> /\ IsSet /\ sh' = "set" /\ UNCHANGED <<rbuf, rdr, tx, rest>>
  <2>1. call.cmd \in SetCmds
    BY <1>1, <1>5, Exchange, Zenon DEF IsSet
  <2>2. hpc = "read"
    <3>1. SUFFICES ASSUME hpc # "read" PROVE FALSE
      OBVIOUS
    <3>2. Told(ReplyTo(call.cmd), 0, tx, rest)
      BY <1>1, <3>1 DEF Whole, Telling
    <3>3. Len(tx) \in 1 .. 2 /\ 0 + Len(tx) + Len(rest) = 6
      BY <3>2, Zenon DEF Told
    <3>4. Len(rest) = 0
      BY <1>5, EmptySeq
    <3> QED  BY <3>3, <3>4
  <2>3. LastByte'
    BY <1>1, <1>2, <1>5, <2>2 DEF Whole, LastByte
  <2>4. AtWork'
    BY <1>1, <1>2, <1>5, <2>1, <2>2 DEF AtWork, RanByReply
  <2> QED  BY <1>1, <1>2, <1>5, <2>3, <2>4 DEF Whole, Collected, Telling, Genuine
<1> QED  BY <1>3, <1>4, <1>5, Zenon DEF StreamTimeout, Written

LEMMA RestWhole ==
  ASSUME IInv, Whole, IsrTimeout \/ Pause \/ Resume \/ UNCHANGED vars
  PROVE  Whole'
<1>1. CASE IsrTimeout
  <2>1. /\ sh = "isr" /\ sh' = "listen" /\ rbuf' = <<>>
        /\ UNCHANGED <<hpc, call, hi, got, answer, rdr, last, tx, rest, ran>>
    BY <1>1 DEF IsrTimeout, host, wire
  <2>2. LastByte'
    BY <2>1 DEF Whole, LastByte
  <2> QED  BY <2>1, <2>2 DEF Whole, Collected, AtWork, Telling, Genuine
<1>2. CASE Pause \/ Resume \/ UNCHANGED vars
  <2>1. UNCHANGED <<hpc, call, hi, got, answer, rdr, last, tx, sh, rbuf, rest, ran>>
    BY <1>2 DEF Pause, Resume, vars, host, wire, shield
  <2> QED  BY <2>1 DEF Whole, LastByte, Collected, AtWork, Telling, RanByReply, Genuine
<1> QED  BY <1>1, <1>2

\* Whatever the host's pauses do, what the shield runs is the request of the
\* present call, byte for byte and once, for requests of any number and length
\* of parameters no part of which is itself a frame with a command.
THEOREM GenuineHolds ==
  ASSUME NoFrameInside
  PROVE  Spec => []Genuine
<1>1. Init => Whole
  BY DEF Init, Whole, LastByte, Collected, AtWork, Telling, Genuine
<1>2. IInv /\ Whole /\ [Next]_vars => Whole'
  <2> SUFFICES ASSUME IInv, Whole, [Next]_vars PROVE Whole'
    OBVIOUS
  <2>1. ASSUME NEW r \in Calls, Call(r) PROVE Whole'
    BY <2>1, CallWhole
  <2>2. CASE Host
    BY <2>2, SendWhole, WaitReadyWhole, ReadStartWhole, ReadReplyWhole DEF Host
  <2>3. CASE Shield
    BY <2>3, PollWhole, RunSetWhole DEF Shield
  <2>4. CASE StreamTimeout
    BY <2>4, StreamTimeoutWhole
  <2>5. CASE IsrTimeout \/ Pause \/ Resume \/ UNCHANGED vars
    BY <2>5, RestWhole
  <2> QED  BY <2>1, <2>2, <2>3, <2>4, <2>5 DEF Next
<1>3. Whole => Genuine
  BY DEF Whole
<1> QED  BY <1>1, <1>2, <1>3, Invariant, PTL DEF Spec

-----------------------------------------------------------------------------
(***************************************************************************)
(* Requests that meet the condition: those without the byte START.         *)
(***************************************************************************)

Plain(q) == \A i \in 1 .. Len(q) : q[i] # START

LEMMA PlainJoined ==
  ASSUME NEW a \in Seq(0 .. 255), NEW t \in Seq(0 .. 255), Plain(a), Plain(t)
  PROVE  Plain(a \o t)
<1>1. PICK f : f = a \o t
  OBVIOUS
<1>2. PICK m \in Nat, n \in Nat : m = Len(a) /\ n = Len(t)
  BY LenProperties
<1>3. /\ Len(f) = Len(a) + Len(t) /\ \A i \in 1 .. Len(a) : f[i] = a[i]
      /\ \A i \in 1 .. Len(t) : f[Len(a) + i] = t[i]
  BY <1>1, Concat, ZenonT(40)
<1>4. ASSUME NEW i \in 1 .. m + n PROVE f[i] # START
  <2>1. CASE i \in 1 .. m
    BY <1>2, <1>3, <2>1, Zenon DEF Plain
  <2>2. CASE i \notin 1 .. m
    <3>1. i - m \in 1 .. n /\ m + (i - m) = i
      BY <2>2
    <3>2. f[m + (i - m)] = t[i - m] /\ t[i - m] # START
      BY <1>2, <1>3, <3>1, Zenon DEF Plain
    <3> QED  BY <3>1, <3>2
  <2> QED  BY <2>1, <2>2
<1>5. Len(f) = m + n
  BY <1>2, <1>3, Zenon
<1> QED  BY <1>1, <1>4, <1>5, Zenon DEF Plain

LEMMA PlainByte ==
  ASSUME NEW n \in 0 .. 223
  PROVE  <<n>> \in Seq(0 .. 255) /\ Plain(<<n>>)
<1>1. n \in 0 .. 255 /\ n # START
  BY DEF START
<1>2. <<n>> \in Seq(0 .. 255) /\ Len(<<n>>) = 1 /\ <<n>>[1] = n
  BY <1>1, OneByte, Zenon
<1>3. \A i \in 1 .. 1 : <<n>>[i] # START
  BY <1>1, <1>2
<1> QED  BY <1>2, <1>3, Zenon DEF Plain

LEMMA PlainParam ==
  ASSUME NEW c, NEW p \in Seq(0 .. 255), Len(p) < 224, Plain(p)
  PROVE  Plain(Param(c, p))
<1>1. PICK n \in 0 .. 223 : n = Len(p)
  <2>1. PICK m \in Nat : m = Len(p)
    BY LenProperties
  <2>2. m < 224
    BY <2>1, Zenon
  <2>3. m \in 0 .. 223
    BY <2>2
  <2> QED  BY <2>1, <2>3, Zenon
<1>2. n % 256 = n /\ n \div 256 = 0 /\ 0 \in 0 .. 223
  OBVIOUS
<1>3. <<n>> \in Seq(0 .. 255) /\ Plain(<<n>>) /\ <<0>> \in Seq(0 .. 255) /\ Plain(<<0>>)
  BY <1>2, PlainByte, Zenon
<1>4. CASE Wide(c)
  <2>1. Param(c, p) = <<0>> \o <<n>> \o p
    BY <1>1, <1>2, <1>4, Zenon DEF Param
  <2>2. <<0>> \o <<n>> \in Seq(0 .. 255) /\ Plain(<<0>> \o <<n>>)
    BY <1>3, Concat, PlainJoined, Zenon
  <2> QED  BY <2>1, <2>2, PlainJoined, Zenon
<1>5. CASE ~Wide(c)
  <2>1. Param(c, p) = <<>> \o <<n>> \o p
    BY <1>1, <1>2, <1>5, Zenon DEF Param
  <2>2. <<>> \o <<n>> = <<n>>
    BY <1>3, ConcatEmptySeq, Zenon
  <2> QED  BY <1>3, <2>1, <2>2, PlainJoined, Zenon
<1> QED  BY <1>4, <1>5

LEMMA PlainParams ==
  ASSUME BUFFERSIZE <= START, NEW r \in Calls,
         \A k \in 1 .. Len(r.params) : Plain(r.params[k]),
         NEW n \in 0 .. Len(r.params)
  PROVE  Plain(Params(r)[n])
<1>1. PICK l \in Nat : l = Len(r.params)
  BY Requests, Zenon
<1> DEFINE T == {m \in 0 .. l : ~Plain(Params(r)[m])}
<1>2. SUFFICES ASSUME T # {} PROVE FALSE
  BY <1>1
<1>3. PICK m \in T : \A k \in T : m <= k
  <2> T \subseteq Nat  OBVIOUS
  <2> HIDE DEF T
  <2> QED  BY <1>2, HasLeast
<1>4. m \in 0 .. l /\ ~Plain(Params(r)[m])
  BY <1>3
<1>5. m # 0
  <2>1. Params(r)[0] = <<>>
    BY <1>1, ParamsStep, Zenon
  <2>2. Len(<<>>) = 0
    BY EmptySeq
  <2>3. Plain(Params(r)[0])
    BY <2>1, <2>2 DEF Plain
  <2> QED  BY <1>4, <2>3
<1>6. m \in 1 .. l /\ m - 1 \in 0 .. l /\ m - 1 \notin T
  BY <1>3, <1>4, <1>5
<1>7. Plain(Params(r)[m - 1])
  BY <1>6
<1> HIDE DEF T
<1>8. Grows(r, m - 1) /\ Grows(r, m) /\ Grows(r, l)
  <2>1. m - 1 \in 0 .. l /\ m \in 0 .. l /\ l \in 0 .. l
    BY <1>6
  <2> QED  BY <1>1, <2>1, ParamsGrow, Zenon
<1>9. PICK p \in Seq(0 .. 255) : p = r.params[m] /\ Len(p) < Lengths(r.cmd) /\ Plain(p)
  BY <1>1, <1>6, ParamOf, Zenon
<1>10. PICK q \in Seq(0 .. 255) :
         q = Param(r.cmd, p) /\ (Len(q) = Len(p) + 2 \/ Len(q) = Len(p) + 1)
  BY <1>9, ParamType, Zenon
<1>11. PICK a \in Seq(0 .. 255) : a = Params(r)[m - 1]
  BY <1>8, Zenon DEF Grows
<1>12. Params(r)[m] = a \o q
  BY <1>1, <1>6, <1>9, <1>10, <1>11, ParamsStep, Zenon
<1>13. Len(p) < 224
  <2>1. PICK x \in Nat, y \in Nat, z \in Nat : x = Len(a) /\ y = Len(q) /\ z = Len(p)
    BY LenProperties
  <2>2. Len(Params(r)[m]) = x + y
    BY <1>12, <2>1, Concat, Zenon
  <2>3. Len(Params(r)[m]) <= Len(Params(r)[l])
    <3>1. m \in 0 .. l
      BY <1>4
    <3> QED  BY <1>8, <3>1, Zenon DEF Grows
  <2>4. PICK u \in Nat : u = Len(Params(r)[l])
    BY <1>8, LenProperties, Zenon DEF Grows
  <2>5. Len(Frame(r)) = 4 + u /\ Len(Frame(r)) < BUFFERSIZE
    BY <1>1, <2>4, FrameBytes, FrameIsSeq, Zenon DEF Framed
  <2>6. y = z + 2 \/ y = z + 1
    BY <1>10, <2>1, Zenon
  <2>7. x + y <= u
    BY <2>2, <2>3, <2>4, Zenon
  <2>8. 4 + u < BUFFERSIZE /\ BUFFERSIZE \in Nat
    BY <2>5, SizeAssumption, Zenon
  <2>9. z < 224
    BY <2>6, <2>7, <2>8 DEF START
  <2> QED  BY <2>1, <2>9
<1>14. Plain(q)
  BY <1>9, <1>10, <1>13, PlainParam, Zenon
<1>15. Plain(a \o q)
  BY <1>7, <1>11, <1>14, PlainJoined, Zenon
<1> QED  BY <1>4, <1>12, <1>15, Zenon

\* A request none of whose parameters holds the byte START, as no text does,
\* has no frame inside: what a pause leaves of it has no message in it.
THEOREM PlainIsHarmless ==
  ASSUME BUFFERSIZE <= START,
         \A r \in Calls : \A k \in 1 .. Len(r.params) : Plain(r.params[k])
  PROVE  NoFrameInside
<1> SUFFICES ASSUME NEW r \in Calls, NEW j \in 2 .. Len(Frame(r)),
                    NEW i \in j .. Len(Frame(r))
             PROVE  Harmless(SubSeq(Frame(r), j, i))
  BY Zenon DEF NoFrameInside
<1>1. PICK F \in Seq(0 .. 255) : F = Frame(r)
  BY FrameEnds, Zenon
<1>2. PICK n : n = Len(r.params)
  OBVIOUS
<1>3. PICK u : u = Params(r)[n]
  OBVIOUS
<1>4. /\ n \in 0 .. 127 /\ u \in Seq(0 .. 255) /\ Len(F) = 4 + Len(u)
      /\ F[2] = r.cmd /\ F[3] = n /\ F[Len(F)] = END
      /\ \A k \in 1 .. Len(u) : F[3 + k] = u[k]
  BY <1>1, <1>2, <1>3, FrameBytes, Zenon DEF Framed
<1>5. PICK l \in Nat : l = Len(u) /\ Len(F) = 4 + l
  BY <1>4, LenProperties
<1>6. Plain(u)
  <2>1. n \in 0 .. n
    BY <1>4
  <2> QED  BY <1>2, <1>3, <2>1, PlainParams, Zenon
<1>7. PICK c \in 16 .. 70 : c = r.cmd
  BY Requests, Zenon
<1>8. c # START /\ n # START /\ END # START
  <2>1. c # START /\ END # START
    BY DEF START, END
  <2>2. n \in 0 .. 127
    BY <1>4, Zenon
  <2>3. n # START
    BY <2>2 DEF START
  <2> QED  BY <2>1, <2>3, Zenon
<1>9. \A k \in 2 .. 4 + l : F[k] # START
  <2> TAKE k \in 2 .. 4 + l
  <2>1. k = 2 \/ k = 3 \/ k = 4 + l \/ (k - 3 \in 1 .. l /\ 3 + (k - 3) = k)
    OBVIOUS
  <2>2. k - 3 \in 1 .. l => F[3 + (k - 3)] # START
    BY <1>4, <1>5, <1>6, Zenon DEF Plain
  <2>3. F[2] # START /\ F[3] # START /\ F[4 + l] # START
    BY <1>4, <1>5, <1>7, <1>8, Zenon
  <2> QED  BY <2>1, <2>2, <2>3, Zenon
<1>10. j \in 2 .. 4 + l /\ i \in j .. 4 + l
  BY <1>1, <1>5
<1>11. PICK b : b = SubSeq(F, j, i)
  OBVIOUS
<1>12. Len(b) = i - j + 1 /\ \A k \in 1 .. i - j + 1 : b[k] = F[j - 1 + k]
  <2>1. j \in 1 .. Len(F) /\ i \in j .. Len(F)
    BY <1>5, <1>10
  <2> QED  BY <1>11, <2>1, Cut, Zenon
<1>13. \A k \in 1 .. Len(b) : b[k] # START
  <2> TAKE k \in 1 .. Len(b)
  <2>1. k \in 1 .. i - j + 1 /\ j - 1 + k \in 2 .. 4 + l
    BY <1>10, <1>12
  <2> QED  BY <1>9, <1>12, <2>1, Zenon
<1>14. {k \in 1 .. Len(b) : b[k] = START} = {}
  BY <1>13, Zenon
<1>15. Message(b) = <<>>
  BY <1>14, Zenon DEF Message
<1> QED  BY <1>1, <1>11, <1>15, Zenon DEF Harmless
=============================================================================
