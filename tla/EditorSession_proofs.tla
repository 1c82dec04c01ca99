------------------------ MODULE EditorSession_proofs ------------------------
(***************************************************************************)
(* Proofs about EditorSession, for any number of engines, calls and        *)
(* evaluations, and any evaluated text.                                    *)
(*                                                                         *)
(* First the operators on lists: OfKind, which is recursive and for which  *)
(* induction over its list is carried out here (ByInduction), and what     *)
(* indexOf and splice leave.  Then IInv in four parts: Reached for the     *)
(* handles, Typed, Once for the lines of code, Answers for the calls.      *)
(***************************************************************************)
EXTENDS EditorSession, SequenceTheorems, WellFoundedInduction, TLAPS

(***************************************************************************)
(* Induction, and the operators on lists.                                  *)
(***************************************************************************)

LEMMA Least ==
  ASSUME NEW T, T \subseteq Nat, T # {}
  PROVE  \E m \in T : \A k \in T : m <= k
<1>1. \E x \in T : \A y \in T : ~(<<y, x>> \in OpToRel(<, Nat))
  BY WFMin, NatLessThanWellFounded, Zenon
<1>2. PICK x \in T : \A y \in T : ~(<<y, x>> \in OpToRel(<, Nat))
  BY <1>1
<1>3. \A y \in T : ~(y < x)
  BY <1>2, Zenon DEF OpToRel
<1> QED
  BY <1>3

LEMMA ByInduction ==
  ASSUME NEW S, 0 \in S, \A n \in Nat : n \in S => n + 1 \in S
  PROVE  Nat \subseteq S
<1> DEFINE T == Nat \ S
<1> SUFFICES ASSUME T # {} PROVE FALSE
  OBVIOUS
<1>1. PICK m \in T : \A k \in T : m <= k
  BY Least
<1>2. m # 0 /\ m - 1 \in Nat /\ ~(m <= m - 1)
  BY <1>1
<1>3. m - 1 \in S
  BY <1>1, <1>2
<1> QED
  BY <1>1, <1>2, <1>3

\* What OfKind has picked of the first i lines.
Picked(f, lines, kinds, n) ==
    /\ f[0] = <<>>
    /\ \A i \in 1 .. n :
         f[i] = IF lines[i].kind \in kinds THEN Append(f[i - 1], lines[i]) ELSE f[i - 1]

LEMMA PickedExists ==
  ASSUME NEW X, NEW lines \in Seq(X), NEW kinds, NEW m \in Nat, m <= Len(lines)
  PROVE  \E f \in [0 .. m -> Seq(X)] : Picked(f, lines, kinds, m)
<1> DEFINE P(n) == n <= Len(lines) => \E f \in [0 .. n -> Seq(X)] : Picked(f, lines, kinds, n)
           S == {n \in Nat : P(n)}
<1>1. 0 \in S
  <2> DEFINE f == [i \in 0 .. 0 |-> <<>>]
  <2>1. f \in [0 .. 0 -> Seq(X)] /\ f[0] = <<>>
    OBVIOUS
  <2>2. Picked(f, lines, kinds, 0)
    BY <2>1 DEF Picked
  <2> QED
    BY <2>1, <2>2
<1>2. ASSUME NEW n \in Nat, n \in S PROVE n + 1 \in S
  <2> SUFFICES ASSUME n + 1 <= Len(lines)
               PROVE  \E f \in [0 .. n + 1 -> Seq(X)] : Picked(f, lines, kinds, n + 1)
    OBVIOUS
  <2>1. PICK f \in [0 .. n -> Seq(X)] : Picked(f, lines, kinds, n)
    BY <1>2
  <2> DEFINE v == IF lines[n + 1].kind \in kinds THEN Append(f[n], lines[n + 1]) ELSE f[n]
             g == [i \in 0 .. n + 1 |-> IF i = n + 1 THEN v ELSE f[i]]
  <2>2. lines[n + 1] \in X /\ f[n] \in Seq(X)
    OBVIOUS
  <2>3. v \in Seq(X)
    BY <2>2
  <2> HIDE DEF v
  <2>4. g \in [0 .. n + 1 -> Seq(X)]
    BY <2>3
  <2>5. g[0] = <<>>
    BY <2>1 DEF Picked
  <2>6. ASSUME NEW i \in 1 .. n + 1
        PROVE  g[i] = IF lines[i].kind \in kinds THEN Append(g[i - 1], lines[i]) ELSE g[i - 1]
    <3>1. i - 1 \in 0 .. n /\ g[i - 1] = f[i - 1]
      OBVIOUS
    <3>2. CASE i = n + 1
      BY <3>1, <3>2 DEF v
    <3>3. CASE i # n + 1
      <4>1. i \in 1 .. n /\ g[i] = f[i]
        BY <3>3
      <4> QED
        BY <4>1, <3>1, <2>1 DEF Picked
    <3> QED
      BY <3>2, <3>3
  <2> QED
    BY <2>4, <2>5, <2>6 DEF Picked
<1> HIDE DEF S
<1>3. Nat \subseteq S
  BY <1>1, <1>2, ByInduction
<1> QED
  BY <1>3 DEF S

\* OfKind is the last value of any such function.
LEMMA PickedIsUnique ==
  ASSUME NEW lines, NEW kinds, NEW f, NEW g, NEW m \in Nat,
         Picked(f, lines, kinds, m), Picked(g, lines, kinds, m)
  PROVE  \A i \in 0 .. m : f[i] = g[i]
<1> DEFINE S == {i \in Nat : i <= m => f[i] = g[i]}
<1>1. 0 \in S
  BY DEF Picked
<1>2. ASSUME NEW i \in Nat, i \in S PROVE i + 1 \in S
  <2> SUFFICES ASSUME i + 1 <= m PROVE f[i + 1] = g[i + 1]
    OBVIOUS
  <2>1. i + 1 \in 1 .. m /\ (i + 1) - 1 = i /\ f[i] = g[i]
    BY <1>2
  <2> QED
    BY <2>1 DEF Picked
<1> HIDE DEF S
<1>3. Nat \subseteq S
  BY <1>1, <1>2, ByInduction
<1> QED
  BY <1>3 DEF S

LEMMA OfKindIs ==
  ASSUME NEW X, NEW lines \in Seq(X), NEW kinds, NEW f, Picked(f, lines, kinds, Len(lines))
  PROVE  OfKind(lines, kinds) = f[Len(lines)] /\ f[Len(lines)] \in Seq(X)
<1> DEFINE n == Len(lines)
           Rec(g) == [i \in 0 .. n |-> IF i = 0 THEN <<>>
                        ELSE IF lines[i].kind \in kinds THEN Append(g[i - 1], lines[i])
                        ELSE g[i - 1]]
           picked == CHOOSE g : g = Rec(g)
<1>0. n \in Nat /\ n <= n
  OBVIOUS
<1>1. PICK h \in [0 .. n -> Seq(X)] : Picked(h, lines, kinds, n)
  BY <1>0, PickedExists, Zenon
<1>2. h = Rec(h)
  <2>1. ASSUME NEW i \in 0 .. n PROVE h[i] = Rec(h)[i]
    <3>1. CASE i = 0
      BY <1>1, <3>1 DEF Picked
    <3>2. CASE i # 0
      <4>1. i \in 1 .. n
        BY <3>2
      <4> QED
        BY <1>1, <4>1 DEF Picked
    <3> QED
      BY <3>1, <3>2
  <2>2. DOMAIN h = 0 .. n
    BY <1>1
  <2> QED
    BY <1>1, <2>1
<1>3. picked = Rec(picked)
  BY <1>2
<1>4. Picked(picked, lines, kinds, n)
  <2> HIDE DEF picked
  <2>1. picked[0] = <<>>
    BY <1>3
  <2>2. ASSUME NEW i \in 1 .. n
        PROVE  picked[i] = IF lines[i].kind \in kinds THEN Append(picked[i - 1], lines[i])
                  ELSE picked[i - 1]
    <3>1. picked[i] = Rec(picked)[i]
      BY <1>3
    <3> QED
      BY <3>1
  <2> QED
    BY <2>1, <2>2 DEF Picked
<1>5. OfKind(lines, kinds) = picked[n]
  BY DEF OfKind
<1> HIDE DEF picked
<1>6. picked[n] = f[n] /\ f[n] = h[n]
  BY <1>1, <1>4, PickedIsUnique
<1> QED
  BY <1>1, <1>5, <1>6

LEMMA OfKindType ==
  ASSUME NEW X, NEW lines \in Seq(X), NEW kinds
  PROVE  OfKind(lines, kinds) \in Seq(X)
<1>0. Len(lines) \in Nat /\ Len(lines) <= Len(lines)
  OBVIOUS
<1>1. PICK f \in [0 .. Len(lines) -> Seq(X)] : Picked(f, lines, kinds, Len(lines))
  BY <1>0, PickedExists, Zenon
<1> QED
  BY <1>1, OfKindIs

LEMMA OfKindOfNone ==
  ASSUME NEW kinds
  PROVE  OfKind(<<>>, kinds) = <<>>
<1>1. <<>> \in Seq({}) /\ Len(<<>>) = 0 /\ 0 \in Nat /\ 0 <= Len(<<>>)
  OBVIOUS
<1>2. PICK f \in [0 .. 0 -> Seq({})] : Picked(f, <<>>, kinds, 0)
  BY <1>1, PickedExists, Zenon
<1> QED
  BY <1>1, <1>2, OfKindIs DEF Picked

LEMMA OfKindAppend ==
  ASSUME NEW X, NEW lines \in Seq(X), NEW line \in X, NEW kinds
  PROVE  OfKind(Append(lines, line), kinds) =
            IF line.kind \in kinds THEN Append(OfKind(lines, kinds), line) ELSE OfKind(lines, kinds)
<1> DEFINE all == Append(lines, line)
           n == Len(lines)
<1>1. all \in Seq(X) /\ n + 1 \in Nat /\ n + 1 <= Len(all) /\ Len(all) = n + 1
          /\ all[n + 1] = line /\ \A i \in 1 .. n : all[i] = lines[i]
  OBVIOUS
<1> HIDE DEF all
<1>2. PICK f \in [0 .. n + 1 -> Seq(X)] : Picked(f, all, kinds, n + 1)
  BY <1>1, PickedExists, Zenon
<1>3. Picked(f, lines, kinds, n)
  BY <1>1, <1>2 DEF Picked
<1>4. OfKind(lines, kinds) = f[n] /\ OfKind(all, kinds) = f[n + 1]
  BY <1>1, <1>2, <1>3, OfKindIs
<1>5. f[n + 1] = IF all[n + 1].kind \in kinds THEN Append(f[n], all[n + 1]) ELSE f[n]
  BY <1>2 DEF Picked
<1> QED
  BY <1>1, <1>4, <1>5 DEF all

LEMMA OfKindOfOne ==
  ASSUME NEW X, NEW line \in X, NEW kinds
  PROVE  OfKind(<<line>>, kinds) = IF line.kind \in kinds THEN <<line>> ELSE <<>>
<1>1. <<line>> = Append(<<>>, line) /\ <<>> \in Seq(X)
  OBVIOUS
<1>2. ASSUME NEW none \in Seq(X)
      PROVE  OfKind(Append(none, line), kinds) =
                IF line.kind \in kinds THEN Append(OfKind(none, kinds), line)
                ELSE OfKind(none, kinds)
  BY OfKindAppend
<1>3. OfKind(<<>>, kinds) = <<>>
  BY OfKindOfNone
<1> QED
  BY <1>1, <1>2, <1>3

\* Nothing is picked from lines of other kinds only.
LEMMA OfKindOthers ==
  ASSUME NEW X, NEW lines \in Seq(X), NEW kinds,
         \A i \in 1 .. Len(lines) : lines[i].kind \notin kinds
  PROVE  OfKind(lines, kinds) = <<>>
<1> DEFINE f == [i \in 0 .. Len(lines) |-> <<>>]
<1>1. Picked(f, lines, kinds, Len(lines))
  BY DEF Picked
<1>2. f[Len(lines)] = <<>>
  OBVIOUS
<1> QED
  BY <1>1, <1>2, OfKindIs

LEMMA OfKindConcat ==
  ASSUME NEW X, NEW front \in Seq(X), NEW back \in Seq(X), NEW kinds
  PROVE  OfKind(front \o back, kinds) = OfKind(front, kinds) \o OfKind(back, kinds)
<1> DEFINE upTo(i) == SubSeq(back, 1, i)
           S == {i \in Nat : i <= Len(back) =>
                   OfKind(front \o upTo(i), kinds) = OfKind(front, kinds) \o OfKind(upTo(i), kinds)}
<1>1. 0 \in S
  <2>1. upTo(0) = <<>> /\ front \o <<>> = front
    OBVIOUS
  <2>2. OfKind(front, kinds) \o <<>> = OfKind(front, kinds)
    BY OfKindType
  <2> QED
    BY <2>1, <2>2, OfKindOfNone
<1>2. ASSUME NEW i \in Nat, i \in S PROVE i + 1 \in S
  <2> SUFFICES ASSUME i + 1 <= Len(back)
               PROVE  OfKind(front \o upTo(i + 1), kinds)
                        = OfKind(front, kinds) \o OfKind(upTo(i + 1), kinds)
    OBVIOUS
  <2> DEFINE line == back[i + 1]
             sofar == front \o upTo(i)
  <2>1. upTo(i) \in Seq(X) /\ line \in X /\ upTo(i + 1) = Append(upTo(i), line)
    OBVIOUS
  <2>2. OfKind(front \o upTo(i), kinds) = OfKind(front, kinds) \o OfKind(upTo(i), kinds)
    BY <1>2
  <2> HIDE DEF upTo, line
  <2>3. front \o Append(upTo(i), line) = Append(sofar, line) /\ sofar \in Seq(X)
    BY <2>1
  <2> HIDE DEF sofar
  <2>4. OfKind(Append(sofar, line), kinds) =
            IF line.kind \in kinds THEN Append(OfKind(sofar, kinds), line)
            ELSE OfKind(sofar, kinds)
    BY <2>1, <2>3, OfKindAppend
  <2>5. OfKind(Append(upTo(i), line), kinds) =
            IF line.kind \in kinds THEN Append(OfKind(upTo(i), kinds), line)
            ELSE OfKind(upTo(i), kinds)
    BY <2>1, OfKindAppend
  <2>6. OfKind(front, kinds) \in Seq(X) /\ OfKind(upTo(i), kinds) \in Seq(X)
    BY <2>1, OfKindType
  <2>7. OfKind(front, kinds) \o Append(OfKind(upTo(i), kinds), line)
          = Append(OfKind(front, kinds) \o OfKind(upTo(i), kinds), line)
    BY <2>1, <2>6, SMTT(30)
  <2> QED
    BY <2>1, <2>2, <2>3, <2>4, <2>5, <2>7 DEF sofar
<1> HIDE DEF S
<1>3. Nat \subseteq S
  BY <1>1, <1>2, ByInduction
<1>4. upTo(Len(back)) = back /\ Len(back) \in Nat /\ Len(back) <= Len(back)
  OBVIOUS
<1>5. Len(back) \in S
  BY <1>3, <1>4
<1> HIDE DEF upTo
<1>6. OfKind(front \o upTo(Len(back)), kinds) = OfKind(front, kinds)
          \o OfKind(upTo(Len(back)), kinds)
  BY <1>4, <1>5 DEF S
<1> QED
  BY <1>4, <1>6

LEMMA OfKindHead ==
  ASSUME NEW X, NEW lines \in Seq(X), lines # <<>>, NEW kinds
  PROVE  OfKind(lines, kinds) =
            IF Head(lines).kind \in kinds THEN <<Head(lines)>> \o OfKind(Tail(lines), kinds)
            ELSE OfKind(Tail(lines), kinds)
<1> DEFINE first == Head(lines)
           one == <<first>>
           rest == Tail(lines)
<1>1. first \in X /\ rest \in Seq(X) /\ one \in Seq(X) /\ lines = one \o rest
  OBVIOUS
<1> HIDE DEF one, rest
<1>2. OfKind(one \o rest, kinds) = OfKind(one, kinds) \o OfKind(rest, kinds)
  BY <1>1, OfKindConcat
<1>3. OfKind(rest, kinds) \in Seq(X)
  BY <1>1, OfKindType
<1>4. <<>> \o OfKind(rest, kinds) = OfKind(rest, kinds)
  BY <1>3
<1>5. OfKind(one, kinds) = IF first.kind \in kinds THEN one ELSE <<>>
  BY <1>1, OfKindOfOne DEF one
<1> QED
  BY <1>1, <1>2, <1>4, <1>5 DEF one, rest


\* What indexOf and splice leave of a list.
LEMMA RemoveFirstIs ==
  ASSUME NEW X, NEW list \in Seq(X), NEW x
  PROVE  \/ /\ \A i \in 1 .. Len(list) : list[i] # x
            /\ RemoveFirst(list, x) = list
         \/ \E k \in 1 .. Len(list) :
              /\ list[k] = x
              /\ RemoveFirst(list, x) = SubSeq(list, 1, k - 1) \o SubSeq(list, k + 1, Len(list))
<1> DEFINE I == {i \in 1 .. Len(list) : list[i] = x}
<1>1. CASE I = {}
  <2>1. RemoveFirst(list, x) = list
    BY <1>1 DEF RemoveFirst
  <2> QED
    BY <1>1, <2>1
<1>2. CASE I # {}
  <2> DEFINE k == CHOOSE i \in I : \A j \in I : i <= j
  <2>0. I \subseteq Nat
    OBVIOUS
  <2> HIDE DEF I
  <2>1. \E i \in I : \A j \in I : i <= j
    BY <1>2, <2>0, Least, Zenon
  <2>2. k \in I
    BY <2>1
  <2> USE DEF I
  <2>3. RemoveFirst(list, x) = RemoveAt(list, k)
    BY <1>2 DEF RemoveFirst, SelectInSeq, Min
  <2> HIDE DEF k
  <2> QED
    BY <2>2, <2>3 DEF RemoveAt
<1> QED
  BY <1>1, <1>2

\* Elements that are all different stay so, and in place.
LEMMA RemoveFirstKeeps ==
  ASSUME NEW X, NEW list \in Seq(X), NEW x, \A i, j \in 1 .. Len(list) : list[i] = list[j] => i = j
  PROVE  LET rest == RemoveFirst(list, x)
         IN /\ rest \in Seq(X)
            /\ \A i \in 1 .. Len(rest) : rest[i] # x /\ \E j \in 1 .. Len(list) : rest[i] = list[j]
            /\ \A i, j \in 1 .. Len(rest) : rest[i] = rest[j] => i = j
            /\ (\A i \in 1 .. Len(list) : list[i] # x) => rest = list
<1> DEFINE rest == RemoveFirst(list, x)
<1> HIDE DEF rest
<1>1. CASE (\A i \in 1 .. Len(list) : list[i] # x) /\ rest = list
  BY <1>1 DEF rest
<1>2. ASSUME NEW k \in 1 .. Len(list), list[k] = x,
             rest = SubSeq(list, 1, k - 1) \o SubSeq(list, k + 1, Len(list))
      PROVE  /\ rest \in Seq(X)
             /\ \A i \in 1 .. Len(rest) : rest[i] # x /\ \E j \in 1 .. Len(list) : rest[i] = list[j]
             /\ \A i, j \in 1 .. Len(rest) : rest[i] = rest[j] => i = j
             /\ ~ \A i \in 1 .. Len(list) : list[i] # x
  <2> DEFINE front == SubSeq(list, 1, k - 1)
             back == SubSeq(list, k + 1, Len(list))
             n == Len(list)
             moved(i) == IF i < k THEN i ELSE i + 1
  <2>1. n \in Nat /\ k \in Nat /\ 1 <= k /\ k <= n
    OBVIOUS
  <2>2. front \in Seq(X) /\ Len(front) = k - 1 /\ \A i \in 1 .. k - 1 : front[i] = list[i]
    BY <2>1
  <2>3. back \in Seq(X) /\ Len(back) = n - k /\ \A i \in 1 .. n - k : back[i] = list[k + i]
    BY <2>1
  <2> HIDE DEF front, back
  <2>4. rest = front \o back
    BY <1>2 DEF front, back
  <2>5. rest \in Seq(X) /\ Len(rest) = n - 1
    BY <2>1, <2>2, <2>3, <2>4
  <2>6. \A i \in 1 .. n - 1 : rest[i] = list[moved(i)]
    <3> SUFFICES ASSUME NEW i \in 1 .. n - 1 PROVE rest[i] = list[moved(i)]
      OBVIOUS
    <3>1. CASE i < k
      BY <3>1, <2>1, <2>2, <2>3, <2>4
    <3>2. CASE ~(i < k)
      <4>1. i - (k - 1) \in 1 .. n - k /\ k + (i - (k - 1)) = i + 1
        BY <3>2, <2>1
      <4>2. rest[i] = back[i - (k - 1)]
        BY <3>2, <2>1, <2>2, <2>3, <2>4, SMTT(30)
      <4> QED
        BY <3>2, <4>1, <4>2, <2>3
    <3> QED
      BY <3>1, <3>2
  <2>7. \A i \in 1 .. n - 1 : moved(i) \in 1 .. n /\ moved(i) # k
    BY <2>1
  <2>8. \A i, j \in 1 .. n - 1 : moved(i) = moved(j) => i = j
    BY <2>1
  <2> HIDE DEF n, moved
  <2>9. \A i \in 1 .. n - 1 : rest[i] # x /\ \E j \in 1 .. n : rest[i] = list[j]
    BY <1>2, <2>6, <2>7 DEF n
  <2>10. \A i, j \in 1 .. n - 1 : rest[i] = rest[j] => i = j
    BY <2>6, <2>7, <2>8 DEF n
  <2> QED
    BY <1>2, <2>5, <2>9, <2>10 DEF n
<1> QED
  BY <1>1, <1>2, RemoveFirstIs DEF rest

-----------------------------------------------------------------------------
(* The handles.                                                            *)

Types ==
    /\ current \in Nat /\ born \in Nat
    /\ life \in [Engines -> {"unborn", "live", "dead"}]
    /\ notice \in [Engines -> {"none", "exit", "error"}]

\* Engines are spawned in order; one that is not yet born has no end to announce.
Unborn ==
    /\ current <= born
    /\ current # 0 => current \in Engines /\ life[current] # "unborn"
    /\ \A p \in Engines : p > born => life[p] = "unborn" /\ notice[p] = "none"

\* An end is announced only of an engine that has ended.
Ended == \A p \in Engines : notice[p] # "none" => ~Alive(p)

Reached == Types /\ Unborn /\ Ended /\ NoStray

LEMMA Untouched ==
  ASSUME Reached, UNCHANGED <<current, born, life, notice, told>>
  PROVE  Reached'
BY DEF Reached, Types, Unborn, Ended, NoStray, Alive

\* A process that ends leaves the handle to the event that announces it.
LEMMA DieKeeps == ASSUME Reached, NEW p \in Engines, Alive(p), Die(p) PROVE Reached'
<1>1. /\ life' = [life EXCEPT ![p] = "dead"] /\ notice' = [notice EXCEPT ![p] = "exit"]
      /\ UNCHANGED <<current, born, told>>
  BY DEF Die
<1>2. Types' /\ Ended' /\ NoStray'
  BY <1>1 DEF Reached, Types, Ended, NoStray, Alive
<1>3. ~(p > born)
  BY DEF Reached, Unborn, Alive
<1>4. Unborn'
  BY <1>1, <1>3 DEF Reached, Types, Unborn
<1> QED
  BY <1>2, <1>4 DEF Reached

\* The next engine is spawned when there is no current one: those that still
\* run were told to stop.
LEMMA StartKeeps == ASSUME Reached, Start PROVE Reached'
<1> DEFINE n == born + 1
<1>1. /\ current = 0 /\ born' = n /\ current' = n /\ n \in Nat /\ n \in Engines /\ told' = told
      /\ \/ life' = [life EXCEPT ![n] = "live"] /\ UNCHANGED notice
         \/ /\ life' = [life EXCEPT ![n] = "dead"] /\ notice' = [notice EXCEPT ![n] = "error"]
  BY EditorSessionAssumption DEF Start, Reached, Types, Engines
<1>2. n > born /\ notice[n] = "none" /\ \A p \in Engines : p > n => p > born /\ p # n
  BY <1>1 DEF Reached, Types, Unborn, Engines
<1> HIDE DEF n
<1>3. Types'
  BY <1>1 DEF Reached, Types
<1>4. Unborn'
  BY <1>1, <1>2 DEF Reached, Types, Unborn
<1>5. Ended'
  BY <1>1, <1>2 DEF Reached, Types, Ended, Alive
<1>6. NoStray'
  <2> SUFFICES ASSUME NEW p \in Engines, Alive(p)', p # n PROVE p \in told
    BY <1>1 DEF NoStray
  <2>1. life'[p] = life[p]
    BY <1>1 DEF Reached, Types
  <2>2. Alive(p)
    BY <2>1 DEF Alive
  <2>3. p # 0
    BY DEF Engines
  <2> QED
    BY <1>1, <2>2, <2>3 DEF Reached, NoStray
<1> QED
  BY <1>3, <1>4, <1>5, <1>6 DEF Reached

LEMMA StopKeeps == ASSUME Reached, Stop PROVE Reached'
<1>1. /\ told' = told \union {current} /\ current' = 0 /\ UNCHANGED <<born, life, notice>>
  BY DEF Stop
<1> QED
  BY <1>1 DEF Reached, Types, Unborn, Ended, NoStray, Alive

\* The event of an engine that is not current any more changes nothing else.
LEMMA NoticedKeeps ==
  ASSUME Reached, NEW p \in Engines, NEW event \in {"exit", "error"}, Noticed(p, event),
         ClearIfCurrent(p)
  PROVE  Reached'
<1>1. /\ notice[p] = event /\ notice' = [notice EXCEPT ![p] = "none"]
      /\ UNCHANGED <<born, life, told>>
      /\ current' = IF p = current THEN 0 ELSE current
  BY DEF Noticed, ClearIfCurrent
<1>2. Types' /\ Unborn' /\ Ended'
  BY <1>1 DEF Reached, Types, Unborn, Ended, Alive
<1>3. NoStray'
  BY <1>1 DEF Reached, Ended, NoStray, Alive
<1> QED
  BY <1>2, <1>3 DEF Reached

LEMMA InitReached == Init => Reached
<1> SUFFICES ASSUME Init PROVE Reached
  OBVIOUS
<1> QED
  BY DEF Init, Reached, Types, Unborn, Ended, NoStray, Alive

LEMMA StepReached == Reached /\ [Next]_vars => Reached'
<1> SUFFICES ASSUME Reached, [Next]_vars PROVE Reached'
  OBVIOUS
<1>1. CASE Start
  BY <1>1, StartKeeps
<1>2. CASE Stop
  BY <1>2, StopKeeps
<1>3. ASSUME NEW p \in Engines, Repl(p) PROVE Reached'
  <2>1. CASE Exits(p)
    BY <2>1, DieKeeps DEF Exits
  <2>2. CASE MetaLine(p) \/ BlankLine(p) \/ CodeLine(p) \/ CodeDone(p) \/ MetaDone(p)
    BY <2>2, Untouched DEF MetaLine, BlankLine, CodeLine, TakesLine, CodeDone, MetaDone, processes
  <2> QED
    BY <1>3, <2>1, <2>2 DEF Repl
<1>4. ASSUME NEW p \in Engines, Events(p) PROVE Reached'
  <2>1. CASE KillTimer(p)
    BY <2>1, DieKeeps, Untouched DEF KillTimer, NotExited
  <2>2. CASE ExitEvent(p) \/ ErrorEvent(p)
    BY <2>2, NoticedKeeps DEF ExitEvent, ErrorEvent
  <2>3. CASE StdinError(p) \/ StdoutLine(p) \/ StdoutCut(p)
    BY <2>3, Untouched DEF StdinError, StdoutLine, StdoutCut, processes
  <2> QED
    BY <1>4, <2>1, <2>2, <2>3 DEF Events
<1>5. CASE \E t \in Texts : Evaluate(t)
  BY <1>5, Untouched DEF Evaluate, processes
<1>6. CASE \E c \in Calls : TimesOut(c) \/ \E k \in Kinds : Send(c, k)
  BY <1>6, Untouched DEF TimesOut, Send, processes
<1>7. CASE UNCHANGED vars
  BY <1>7, Untouched DEF vars, processes
<1> QED
  BY <1>1, <1>2, <1>3, <1>4, <1>5, <1>6, <1>7 DEF Next

-----------------------------------------------------------------------------
(* Types.                                                                  *)

Asks == [kind : Kinds, call : Calls]
CodeLines == [kind : LineKinds, call : Nat \X Nat]
Lines == Asks \union CodeLines
Executing == [Idle EXCEPT !.kind = "code"]
CallStates == [pc : {"idle", "waiting", "answered", "failed"}, kind : Kinds,
               to : Engines \union {0}, by : Calls \union {"none"}, from : Engines \union {0}]

HandleTypes ==
    /\ current \in Engines \union {0} /\ born \in Engines \union {0}
    /\ life \in [Engines -> {"unborn", "live", "dead"}]
    /\ notice \in [Engines -> {"none", "exit", "error"}]
    /\ told \subseteq Engines /\ timer \subseteq told
PipeTypes ==
    /\ pipe \in [Engines -> {"open", "broken", "closed"}]
    /\ stdin \in [Engines -> Seq(Lines)] /\ stdout \in [Engines -> Seq(Asks)]
ReplTypes ==
    /\ busy \in [Engines -> Asks \union {Idle, Executing}]
    /\ buffer \in [Engines -> Seq(CodeLines)] /\ empties \in [Engines -> 0 .. 2]
BridgeTypes == call \in [Calls -> CallStates] /\ queue \in Seq(Calls)
HistoryTypes ==
    /\ evals \in 0 .. MaxEvals
    /\ written \in [Engines -> Seq(CodeLines)] /\ handled \in [Engines -> Seq(CodeLines)]

Typed == HandleTypes /\ PipeTypes /\ ReplTypes /\ BridgeTypes /\ HistoryTypes

LEMMA InitTyped == ASSUME Init PROVE Typed
<1>1. HandleTypes
  BY DEF Init, HandleTypes
<1>2. PipeTypes
  BY DEF Init, PipeTypes
<1>3. ReplTypes
  BY DEF Init, ReplTypes
<1>4. Unsent \in CallStates
  BY DEF Unsent, CallStates, Kinds
<1>5. BridgeTypes
  BY <1>4 DEF Init, BridgeTypes
<1>6. HistoryTypes
  BY EditorSessionAssumption DEF Init, HistoryTypes
<1> QED
  BY <1>1, <1>2, <1>3, <1>5, <1>6 DEF Typed

LEMMA DieTyped == ASSUME Typed, NEW p \in Engines, Die(p), timer' \subseteq timer PROVE Typed'
<1>1. HandleTypes'
  BY DEF Typed, HandleTypes, Die
<1>2. PipeTypes'
  BY DEF Typed, PipeTypes, Die
<1>3. ReplTypes'
  BY DEF Typed, ReplTypes, Die
<1>4. BridgeTypes'
  BY DEF Typed, BridgeTypes, Die, bridges
<1>5. HistoryTypes'
  BY DEF Typed, HistoryTypes, Die
<1> QED
  BY <1>1, <1>2, <1>3, <1>4, <1>5 DEF Typed

LEMMA ExecuteTyped ==
  ASSUME Typed, NEW p \in Engines, NEW code \in Seq(CodeLines), NEW forced,
         ExecuteBuffer(p, code, forced)
  PROVE  /\ busy' \in [Engines -> Asks \union {Idle, Executing}]
         /\ buffer' \in [Engines -> Seq(CodeLines)]
         /\ handled' \in [Engines -> Seq(CodeLines)]
<1>1. /\ busy \in [Engines -> Asks \union {Idle, Executing}]
      /\ buffer \in [Engines -> Seq(CodeLines)]
      /\ handled \in [Engines -> Seq(CodeLines)]
  BY DEF Typed, ReplTypes, HistoryTypes
<1>2. handled[p] \o code \in Seq(CodeLines) /\ <<>> \in Seq(CodeLines)
  BY <1>1
<1>3. CASE EndsEarly(code) /\ ~forced
  BY <1>1, <1>3 DEF ExecuteBuffer
<1>4. CASE ~(EndsEarly(code) /\ ~forced)
  <2>1. handled' = [handled EXCEPT ![p] = handled[p] \o code]
    BY <1>4 DEF ExecuteBuffer
  <2>2. \/ buffer' = [buffer EXCEPT ![p] = <<>>] /\ UNCHANGED busy
        \/ buffer' = [buffer EXCEPT ![p] = code] /\ busy' = [busy EXCEPT ![p] = Executing]
    BY <1>4 DEF ExecuteBuffer, Executing
  <2>3. handled' \in [Engines -> Seq(CodeLines)]
    BY <1>1, <1>2, <2>1
  <2>4. buffer' \in [Engines -> Seq(CodeLines)]
    BY <1>1, <1>2, <2>2
  <2>5. busy' \in [Engines -> Asks \union {Idle, Executing}]
    BY <1>1, <2>2
  <2> QED
    BY <2>3, <2>4, <2>5
<1> QED
  BY <1>3, <1>4

\* A line is a request to the bridges or a line of code.
LEMMA LineIs ==
  ASSUME NEW line \in Lines
  PROVE  /\ line.kind \in Kinds => line \in Asks
         /\ line.kind \notin Kinds => line \in CodeLines /\ line.kind \in LineKinds
         /\ line.kind \in CodeKinds \union {"blank"} => line \in CodeLines
BY DEF Lines, Asks, CodeLines, Kinds, LineKinds, CodeKinds

LEMMA TakesLineTyped ==
  ASSUME Typed, NEW p \in Engines, TakesLine(p)
  PROVE  HandleTypes' /\ PipeTypes' /\ BridgeTypes' /\ Head(stdin[p]) \in Lines
<1>1. stdin[p] \in Seq(Lines) /\ stdin[p] # <<>>
  BY DEF Typed, PipeTypes, TakesLine
<1>2. Tail(stdin[p]) \in Seq(Lines) /\ Head(stdin[p]) \in Lines
  BY <1>1
<1>3. HandleTypes'
  BY DEF Typed, HandleTypes, TakesLine, processes
<1>4. stdin' = [stdin EXCEPT ![p] = Tail(stdin[p])] /\ UNCHANGED <<pipe, stdout>>
  BY DEF TakesLine
<1>5. PipeTypes'
  BY <1>2, <1>4 DEF Typed, PipeTypes
<1>6. BridgeTypes'
  BY DEF Typed, BridgeTypes, TakesLine, bridges
<1> QED
  BY <1>2, <1>3, <1>5, <1>6

LEMMA ReplTyped == ASSUME Typed, NEW p \in Engines, Repl(p) PROVE Typed'
<1>1. CASE Exits(p)
  BY <1>1, DieTyped DEF Exits
<1>2. CASE MetaLine(p)
  <2>1. TakesLine(p) /\ Head(stdin[p]).kind \in Kinds
    BY <1>2 DEF MetaLine
  <2>2. HandleTypes' /\ PipeTypes' /\ BridgeTypes' /\ Head(stdin[p]) \in Asks
    BY <2>1, TakesLineTyped, LineIs
  <2>3. ReplTypes'
    BY <1>2, <2>2 DEF MetaLine, Typed, ReplTypes
  <2>4. HistoryTypes'
    BY <1>2 DEF MetaLine, TakesLine, Typed, HistoryTypes
  <2> QED
    BY <2>2, <2>3, <2>4 DEF Typed
<1>3. CASE BlankLine(p)
  <2>1. HandleTypes' /\ PipeTypes' /\ BridgeTypes' /\ UNCHANGED <<evals, written, astray>>
    BY <1>3, TakesLineTyped DEF BlankLine, TakesLine
  <2>2. buffer[p] \in Seq(CodeLines)
    BY DEF Typed, ReplTypes
  <2>3. CASE empties[p] >= 1 /\ buffer[p] # <<>>
    <3>1. empties' = [empties EXCEPT ![p] = 0] /\ ExecuteBuffer(p, buffer[p], TRUE)
      BY <1>3, <2>3 DEF BlankLine
    <3>2. empties' \in [Engines -> 0 .. 2]
      BY <3>1 DEF Typed, ReplTypes
    <3>3. ReplTypes' /\ HistoryTypes'
      BY <2>1, <2>2, <3>1, <3>2, ExecuteTyped DEF Typed, ReplTypes, HistoryTypes
    <3> QED
      BY <2>1, <3>3 DEF Typed
  <2>4. CASE ~(empties[p] >= 1 /\ buffer[p] # <<>>)
    <3>1. /\ empties' = [empties EXCEPT ![p] = IF @ < 2 THEN @ + 1 ELSE @]
          /\ UNCHANGED <<busy, buffer, handled>>
      BY <1>3, <2>4 DEF BlankLine
    <3>2. empties' \in [Engines -> 0 .. 2]
      BY <3>1 DEF Typed, ReplTypes
    <3>3. ReplTypes' /\ HistoryTypes'
      BY <2>1, <3>1, <3>2 DEF Typed, ReplTypes, HistoryTypes
    <3> QED
      BY <2>1, <3>3 DEF Typed
  <2> QED
    BY <2>3, <2>4
<1>4. CASE CodeLine(p)
  <2>1. HandleTypes' /\ PipeTypes' /\ BridgeTypes' /\ UNCHANGED <<evals, written, astray>>
    BY <1>4, TakesLineTyped DEF CodeLine, TakesLine
  <2>2. Head(stdin[p]) \in CodeLines
    BY <1>4, TakesLineTyped, LineIs DEF CodeLine
  <2>3. Append(buffer[p], Head(stdin[p])) \in Seq(CodeLines)
    BY <2>2 DEF Typed, ReplTypes
  <2>4. empties' \in [Engines -> 0 .. 2]
    BY <1>4 DEF CodeLine, Typed, ReplTypes
  <2>5. ReplTypes' /\ HistoryTypes'
    BY <1>4, <2>1, <2>3, <2>4, ExecuteTyped DEF CodeLine, Typed, ReplTypes, HistoryTypes
  <2> QED
    BY <2>1, <2>5 DEF Typed
<1>5. CASE CodeDone(p)
  <2>1. ReplTypes'
    BY <1>5 DEF CodeDone, Typed, ReplTypes
  <2>2. HandleTypes' /\ PipeTypes'
    BY <1>5 DEF CodeDone, Typed, HandleTypes, PipeTypes, processes, pipes
  <2>3. BridgeTypes' /\ HistoryTypes'
    BY <1>5 DEF CodeDone, Typed, BridgeTypes, HistoryTypes, bridges, history
  <2> QED
    BY <2>1, <2>2, <2>3 DEF Typed
<1>6. CASE MetaDone(p)
  <2>1. busy[p] \in Asks
    BY <1>6 DEF MetaDone, Typed, ReplTypes, Idle, Executing, Kinds
  <2>2. Append(stdout[p], busy[p]) \in Seq(Asks)
    BY <2>1 DEF Typed, PipeTypes
  <2>3. PipeTypes'
    BY <1>6, <2>2 DEF MetaDone, Typed, PipeTypes
  <2>4. ReplTypes'
    BY <1>6 DEF MetaDone, Typed, ReplTypes
  <2>5. HandleTypes' /\ BridgeTypes' /\ HistoryTypes'
    BY <1>6 DEF MetaDone, Typed, HandleTypes, BridgeTypes, HistoryTypes, processes, bridges, history
  <2> QED
    BY <2>3, <2>4, <2>5 DEF Typed
<1> QED
  BY <1>1, <1>2, <1>3, <1>4, <1>5, <1>6 DEF Repl

LEMMA FailedIs == Failed \in CallStates /\ Unsent \in CallStates
BY DEF Failed, Unsent, CallStates, Kinds

LEMMA DrainTyped ==
  ASSUME Typed, DrainAll \/ UNCHANGED bridges
  PROVE  BridgeTypes'
<1>1. CASE DrainAll
  <2>1. queue' = <<>> /\ queue' \in Seq(Calls)
    BY <1>1 DEF DrainAll
  <2>2. call' = [c \in Calls |-> IF Waiting(c) THEN Failed ELSE call[c]]
    BY <1>1 DEF DrainAll
  <2>3. \A c \in Calls : (IF Waiting(c) THEN Failed ELSE call[c]) \in CallStates
    BY FailedIs DEF Typed, BridgeTypes
  <2>4. call' \in [Calls -> CallStates]
    BY <2>2, <2>3
  <2> QED
    BY <2>1, <2>4 DEF BridgeTypes
<1>2. CASE UNCHANGED bridges
  BY <1>2 DEF Typed, BridgeTypes, bridges
<1> QED
  BY <1>1, <1>2

LEMMA StartTyped == ASSUME Typed, Start PROVE Typed'
<1> DEFINE n == born + 1
<1>1. /\ current' = n /\ born' = n /\ n \in Engines
      /\ \/ life' = [life EXCEPT ![n] = "live"] /\ UNCHANGED notice
         \/ /\ life' = [life EXCEPT ![n] = "dead"] /\ notice' = [notice EXCEPT ![n] = "error"]
      /\ UNCHANGED <<told, timer, pipes, repl, bridges, history>>
  BY EditorSessionAssumption DEF Start, Typed, HandleTypes, Engines
<1> HIDE DEF n
<1>2. HandleTypes'
  BY <1>1 DEF Typed, HandleTypes
<1>3. PipeTypes' /\ ReplTypes' /\ BridgeTypes' /\ HistoryTypes'
  BY <1>1 DEF Typed, PipeTypes, ReplTypes, BridgeTypes, HistoryTypes, pipes, repl, bridges, history
<1> QED
  BY <1>2, <1>3 DEF Typed

LEMMA StopTyped == ASSUME Typed, Stop PROVE Typed'
<1>1. HandleTypes'
  BY DEF Stop, Typed, HandleTypes
<1>2. BridgeTypes'
  BY DrainTyped DEF Stop
<1>3. PipeTypes' /\ ReplTypes' /\ HistoryTypes'
  BY DEF Stop, Typed, PipeTypes, ReplTypes, HistoryTypes, pipes, repl, history
<1> QED
  BY <1>1, <1>2, <1>3 DEF Typed

LEMMA NoticedTyped ==
  ASSUME Typed, NEW p \in Engines, NEW event, Noticed(p, event), ClearIfCurrent(p)
  PROVE  Typed'
<1>1. HandleTypes'
  BY DEF Noticed, ClearIfCurrent, Typed, HandleTypes
<1>2. BridgeTypes'
  BY DrainTyped DEF ClearIfCurrent
<1>3. PipeTypes' /\ ReplTypes' /\ HistoryTypes'
  BY DEF Noticed, Typed, PipeTypes, ReplTypes, HistoryTypes, pipes, repl, history
<1> QED
  BY <1>1, <1>2, <1>3 DEF Typed

LEMMA AnsweredTyped ==
  ASSUME Typed, NEW c \in Calls, NEW line \in Asks, NEW p \in Engines, Answered(c, line, p)
  PROVE  call' \in [Calls -> CallStates]
<1> DEFINE new == [call[c] EXCEPT !.pc = "answered", !.by = line.call, !.from = p]
<1>1. call[c] \in CallStates /\ line.call \in Calls /\ call \in [Calls -> CallStates]
  BY DEF Typed, BridgeTypes, Asks
<1>2. new \in CallStates
  BY <1>1 DEF CallStates
<1>3. call' = [call EXCEPT ![c] = new]
  BY DEF Answered
<1> QED
  BY <1>1, <1>2, <1>3

LEMMA MatchedTyped ==
  ASSUME Typed, NEW line \in Asks, NEW p \in Engines, Matched(line, p)
  PROVE  BridgeTypes'
<1>1. CASE line.kind = "device"
  <2>1. queue # <<>> /\ Answered(Head(queue), line, p) /\ queue' = Tail(queue)
            /\ queue \in Seq(Calls)
    BY <1>1 DEF Matched, Typed, BridgeTypes
  <2>2. Head(queue) \in Calls /\ queue' \in Seq(Calls)
    BY <2>1
  <2> QED
    BY <2>1, <2>2, AnsweredTyped DEF BridgeTypes
<1>2. CASE line.kind # "device"
  <2>1. Answered(line.call, line, p) /\ UNCHANGED queue /\ line.call \in Calls
    BY <1>2 DEF Matched, Asks
  <2> QED
    BY <2>1, AnsweredTyped DEF Typed, BridgeTypes
<1> QED
  BY <1>1, <1>2

LEMMA StdoutLineTyped == ASSUME Typed, NEW p \in Engines, StdoutLine(p) PROVE Typed'
<1> DEFINE line == Head(stdout[p])
<1>1. stdout[p] \in Seq(Asks) /\ stdout[p] # <<>>
  BY DEF StdoutLine, Typed, PipeTypes
<1>2. line \in Asks /\ Tail(stdout[p]) \in Seq(Asks)
  BY <1>1
<1>3. stdout' = [stdout EXCEPT ![p] = Tail(stdout[p])] /\ UNCHANGED <<pipe, stdin>>
  BY DEF StdoutLine
<1>4. PipeTypes'
  BY <1>2, <1>3 DEF Typed, PipeTypes
<1>5. Matched(line, p) \/ UNCHANGED bridges
  BY DEF StdoutLine
<1> HIDE DEF line
<1>6. BridgeTypes'
  BY <1>2, <1>5, MatchedTyped DEF Typed, BridgeTypes, bridges
<1>7. HandleTypes' /\ ReplTypes' /\ HistoryTypes'
  BY DEF StdoutLine, Typed, HandleTypes, ReplTypes, HistoryTypes, processes, repl, history
<1> QED
  BY <1>4, <1>6, <1>7 DEF Typed

LEMMA StdoutCutTyped == ASSUME Typed, NEW p \in Engines, StdoutCut(p) PROVE Typed'
<1>1. stdout[p] \in Seq(Asks) /\ stdout[p] # <<>>
  BY DEF StdoutCut, Typed, PipeTypes
<1>2. stdout' = [stdout EXCEPT ![p] = Tail(stdout[p])] /\ UNCHANGED <<pipe, stdin>>
  BY DEF StdoutCut
<1>3. PipeTypes'
  BY <1>1, <1>2 DEF Typed, PipeTypes
<1>4. HandleTypes' /\ ReplTypes' /\ BridgeTypes' /\ HistoryTypes'
  BY DEF StdoutCut, Typed, HandleTypes, ReplTypes, BridgeTypes, HistoryTypes, processes, repl,
         bridges
<1> QED
  BY <1>3, <1>4 DEF Typed

LEMMA StdinErrorTyped == ASSUME Typed, NEW p \in Engines, StdinError(p) PROVE Typed'
<1>1. PipeTypes'
  BY DEF StdinError, Typed, PipeTypes
<1>2. BridgeTypes'
  BY DrainTyped DEF StdinError
<1>3. HandleTypes' /\ ReplTypes' /\ HistoryTypes'
  BY DEF StdinError, Typed, HandleTypes, ReplTypes, HistoryTypes, processes, repl, history
<1> QED
  BY <1>1, <1>2, <1>3 DEF Typed

LEMMA EventsTyped == ASSUME Typed, NEW p \in Engines, Events(p) PROVE Typed'
<1>1. CASE KillTimer(p)
  <2>1. timer' \subseteq timer
    BY <1>1 DEF KillTimer
  <2>2. CASE NotExited(p)
    BY <1>1, <2>1, <2>2, DieTyped DEF KillTimer
  <2>3. CASE ~NotExited(p)
    <3>1. UNCHANGED <<current, born, life, notice, told, pipes, repl, bridges, history>>
      BY <1>1, <2>3 DEF KillTimer
    <3>2. HandleTypes'
      BY <2>1, <3>1 DEF Typed, HandleTypes
    <3>3. PipeTypes' /\ ReplTypes' /\ BridgeTypes' /\ HistoryTypes'
      BY <3>1
      DEF Typed, PipeTypes, ReplTypes, BridgeTypes, HistoryTypes, pipes, repl, bridges, history
    <3> QED
      BY <3>2, <3>3 DEF Typed
  <2> QED
    BY <2>2, <2>3
<1>2. CASE ExitEvent(p) \/ ErrorEvent(p)
  BY <1>2, NoticedTyped DEF ExitEvent, ErrorEvent
<1>3. CASE StdinError(p)
  BY <1>3, StdinErrorTyped
<1>4. CASE StdoutLine(p) \/ StdoutCut(p)
  BY <1>4, StdoutLineTyped, StdoutCutTyped
<1> QED
  BY <1>1, <1>2, <1>3, <1>4 DEF Events

\* What is written arrives whole, or breaks the pipe.
LEMMA WriteTyped ==
  ASSUME Typed, NEW lines \in Seq(Lines), current # 0, WriteLines(lines)
  PROVE  PipeTypes' /\ current \in Engines
<1>1. current \in Engines
  BY DEF Typed, HandleTypes
<1>2. stdin[current] \o lines \in Seq(Lines)
  BY <1>1 DEF Typed, PipeTypes
<1>3. CASE Alive(current)
  BY <1>1, <1>2, <1>3 DEF WriteLines, Typed, PipeTypes
<1>4. CASE ~Alive(current)
  BY <1>1, <1>4 DEF WriteLines, Typed, PipeTypes
<1> QED
  BY <1>1, <1>3, <1>4

LEMMA SendTyped ==
  ASSUME Typed, NEW c \in Calls, NEW k \in Kinds, Send(c, k)
  PROVE  Typed'
<1>1. HandleTypes' /\ ReplTypes' /\ HistoryTypes'
  BY DEF Send, Typed, HandleTypes, ReplTypes, HistoryTypes, processes, repl, history
<1>2. CASE Writable
  <2> DEFINE new == [Unsent EXCEPT !.pc = "waiting", !.kind = k, !.to = current]
             line == [kind |-> k, call |-> c]
  <2>1. /\ call' = [call EXCEPT ![c] = new] /\ WriteLines(<<line>>)
        /\ queue' = IF k = "device" THEN Append(queue, c) ELSE queue
        /\ current \in Engines /\ current # 0
    BY <1>2 DEF Send, Typed, HandleTypes
  <2>2. new \in CallStates
    BY <2>1 DEF Unsent, CallStates
  <2>3. line \in Lines
    BY DEF Lines, Asks
  <2> HIDE DEF new, line
  <2>4. <<line>> \in Seq(Lines)
    BY <2>3
  <2>5. PipeTypes'
    BY <2>1, <2>4, WriteTyped
  <2>6. BridgeTypes'
    BY <2>1, <2>2 DEF Typed, BridgeTypes
  <2> QED
    BY <1>1, <2>5, <2>6 DEF Typed
<1>3. CASE ~Writable
  <2>1. call' = [call EXCEPT ![c] = Failed] /\ UNCHANGED <<queue, pipes>>
    BY <1>3 DEF Send
  <2>2. BridgeTypes' /\ PipeTypes'
    BY <2>1, FailedIs DEF Typed, BridgeTypes, PipeTypes, pipes
  <2> QED
    BY <1>1, <2>2 DEF Typed
<1> QED
  BY <1>2, <1>3

Sent(text) == [i \in DOMAIN text |-> [kind |-> text[i], call |-> <<evals, i>>]]

LEMMA SentTyped ==
  ASSUME Typed, NEW text \in Texts
  PROVE  Sent(text) \in Seq(CodeLines) /\ Sent(text) \in Seq(Lines)
<1>1. text \in Seq(LineKinds) /\ evals \in Nat
  BY EditorSessionAssumption DEF Typed, HistoryTypes
<1>2. \A i \in 1 .. Len(text) : [kind |-> text[i], call |-> <<evals, i>>] \in CodeLines
  BY <1>1 DEF CodeLines
<1>3. Sent(text) \in [1 .. Len(text) -> CodeLines] /\ Len(text) \in Nat
  BY <1>1, <1>2 DEF Sent
<1>4. Sent(text) \in Seq(CodeLines)
  BY <1>3
<1> QED
  BY <1>4 DEF Lines

LEMMA EvaluateTyped == ASSUME Typed, NEW text \in Texts, Evaluate(text) PROVE Typed'
<1>1. /\ Writable /\ evals < MaxEvals /\ evals' = evals + 1 /\ WriteLines(Sent(text))
      /\ written' = IF Alive(current)
                    THEN [written EXCEPT ![current] = @ \o OfKind(Sent(text), CodeKinds)]
                    ELSE written
      /\ UNCHANGED <<processes, repl, bridges, handled, astray>>
  BY DEF Evaluate, Sent
<1>2. PipeTypes' /\ current \in Engines
  BY <1>1, WriteTyped, SentTyped DEF Writable
<1>3. OfKind(Sent(text), CodeKinds) \in Seq(CodeLines)
  BY SentTyped, OfKindType
<1>4. written[current] \o OfKind(Sent(text), CodeKinds) \in Seq(CodeLines)
  BY <1>2, <1>3 DEF Typed, HistoryTypes
<1>5. HistoryTypes'
  BY <1>1, <1>2, <1>4, EditorSessionAssumption DEF Typed, HistoryTypes
<1>6. HandleTypes' /\ ReplTypes' /\ BridgeTypes'
  BY <1>1 DEF Typed, HandleTypes, ReplTypes, BridgeTypes, processes, repl, bridges
<1> QED
  BY <1>2, <1>5, <1>6 DEF Typed

LEMMA TimesOutTyped == ASSUME Typed, NEW c \in Calls, TimesOut(c) PROVE Typed'
<1>1. queue \in Seq(Calls) /\ queue' = RemoveFirst(queue, c)
  BY DEF Typed, BridgeTypes, TimesOut
<1>2. queue' \in Seq(Calls)
  <2>1. CASE queue' = queue
    BY <1>1, <2>1
  <2>2. CASE \E k \in 1 .. Len(queue) : queue' = SubSeq(queue, 1, k - 1)
            \o SubSeq(queue, k + 1, Len(queue))
    BY <1>1, <2>2
  <2> QED
    BY <1>1, <2>1, <2>2, RemoveFirstIs
<1>3. BridgeTypes'
  BY <1>2, FailedIs DEF TimesOut, Typed, BridgeTypes
<1>4. HandleTypes' /\ PipeTypes' /\ ReplTypes' /\ HistoryTypes'
  BY DEF TimesOut, Typed, HandleTypes, PipeTypes, ReplTypes, HistoryTypes, processes, pipes, repl
<1> QED
  BY <1>3, <1>4 DEF Typed

LEMMA StepTyped == ASSUME Typed, [Next]_vars PROVE Typed'
<1>1. CASE UNCHANGED vars
  <2>1. HandleTypes' /\ PipeTypes'
    BY <1>1 DEF vars, Typed, HandleTypes, PipeTypes, processes, pipes
  <2>2. ReplTypes' /\ BridgeTypes' /\ HistoryTypes'
    BY <1>1 DEF vars, Typed, ReplTypes, BridgeTypes, HistoryTypes, repl, bridges, history
  <2> QED
    BY <2>1, <2>2 DEF Typed
<1> QED
  BY <1>1, StartTyped, StopTyped, ReplTyped, EventsTyped, EvaluateTyped, TimesOutTyped, SendTyped
  DEF Next

-----------------------------------------------------------------------------
(* Every line once.                                                        *)

QuietAt(p) ==
    /\ ~Alive(p) => /\ stdin[p] = <<>> /\ busy[p] = Idle /\ buffer[p] = <<>>
                    /\ written[p] = <<>> /\ handled[p] = <<>>
    /\ life[p] = "unborn" => stdout[p] = <<>>
    /\ pipe[p] # "open" => life[p] = "dead"

OnceAt(p) ==
    Alive(p) =>
        written[p] = handled[p]
            \o (IF busy[p].kind = "code" THEN <<>> ELSE buffer[p])
            \o OfKind(stdin[p], CodeKinds)

\* A process that is not running holds no line; its pipe breaks when it is gone.
Quiet == \A p \in Engines : QuietAt(p)

Once == \A p \in Engines : QuietAt(p) /\ OnceAt(p)

\* An action that leaves an engine's lines alone.
SameAt(q) ==
    /\ life'[q] = life[q] /\ pipe'[q] = pipe[q]
    /\ stdin'[q] = stdin[q] /\ stdout'[q] = stdout[q]
    /\ busy'[q] = busy[q] /\ buffer'[q] = buffer[q]
    /\ written'[q] = written[q] /\ handled'[q] = handled[q]

LEMMA SameAtKeeps ==
  ASSUME NEW q, QuietAt(q) /\ OnceAt(q), SameAt(q)
  PROVE  QuietAt(q)' /\ OnceAt(q)'
BY DEF QuietAt, OnceAt, SameAt, Alive

\* One engine's lines change: that engine's are what there is to show.
LEMMA OneEngine ==
  ASSUME Once, NEW p, \A q \in Engines : q # p => SameAt(q),
         p \in Engines => QuietAt(p)' /\ OnceAt(p)'
  PROVE  Once'
<1> SUFFICES ASSUME NEW q \in Engines PROVE QuietAt(q)' /\ OnceAt(q)'
  BY DEF Once
<1>1. CASE q = p
  BY <1>1
<1>2. CASE q # p
  BY <1>2, SameAtKeeps DEF Once
<1> QED
  BY <1>1, <1>2

\* The lines of an engine that has ended go with it.
LEMMA DieOnce == ASSUME Typed, Once, NEW p \in Engines, Alive(p), Die(p) PROVE Once'
<1>1. /\ life' = [life EXCEPT ![p] = "dead"] /\ stdin' = [stdin EXCEPT ![p] = <<>>]
      /\ busy' = [busy EXCEPT ![p] = Idle] /\ buffer' = [buffer EXCEPT ![p] = <<>>]
      /\ written' = [written EXCEPT ![p] = <<>>] /\ handled' = [handled EXCEPT ![p] = <<>>]
      /\ UNCHANGED <<pipe, stdout>>
  BY DEF Die
<1>2. \A q \in Engines : q # p => SameAt(q)
  BY <1>1 DEF SameAt, Typed, HandleTypes, PipeTypes, ReplTypes, HistoryTypes
<1>3. QuietAt(p)' /\ OnceAt(p)'
  <2>1. life'[p] = "dead" /\ stdin'[p] = <<>> /\ busy'[p] = Idle /\ buffer'[p] = <<>>
    BY <1>1 DEF Typed, HandleTypes, PipeTypes, ReplTypes
  <2>2. written'[p] = <<>> /\ handled'[p] = <<>>
    BY <1>1 DEF Typed, HistoryTypes
  <2> QED
    BY <2>1, <2>2 DEF QuietAt, OnceAt, Alive
<1> QED
  BY <1>2, <1>3, OneEngine

LEMMA IdleIs == Idle.kind = "idle" /\ Executing.kind = "code" /\ Executing # Idle
BY DEF Idle, Executing

\* What is executed, dropped or kept back is the code and nothing else.
LEMMA ExecuteOnce ==
  ASSUME Typed, NEW p \in Engines, NEW code \in Seq(CodeLines), NEW forced,
         busy[p].kind = "idle", ExecuteBuffer(p, code, forced)
  PROVE  /\ handled'[p] \o (IF busy'[p].kind = "code" THEN <<>> ELSE buffer'[p])
                = handled[p] \o code
         /\ \A q \in Engines : q # p => /\ busy'[q] = busy[q] /\ buffer'[q] = buffer[q]
                                        /\ handled'[q] = handled[q]
<1>1. /\ busy \in [Engines -> Asks \union {Idle, Executing}]
      /\ buffer \in [Engines -> Seq(CodeLines)] /\ handled \in [Engines -> Seq(CodeLines)]
  BY DEF Typed, ReplTypes, HistoryTypes
<1>2. CASE EndsEarly(code) /\ ~forced
  <2>1. buffer' = [buffer EXCEPT ![p] = code] /\ UNCHANGED <<busy, handled>>
    BY <1>2 DEF ExecuteBuffer
  <2> QED
    BY <1>1, <2>1
<1>3. CASE ~(EndsEarly(code) /\ ~forced)
  <2>1. /\ handled' = [handled EXCEPT ![p] = handled[p] \o code]
        /\ \/ buffer' = [buffer EXCEPT ![p] = <<>>] /\ UNCHANGED busy
           \/ buffer' = [buffer EXCEPT ![p] = code] /\ busy' = [busy EXCEPT ![p] = Executing]
    BY <1>3 DEF ExecuteBuffer, Executing
  <2>2. handled[p] \o code \in Seq(CodeLines)
    BY <1>1
  <2>3. handled'[p] = handled[p] \o code /\ (handled[p] \o code) \o <<>> = handled[p] \o code
    BY <1>1, <2>1, <2>2
  <2>4. (IF busy'[p].kind = "code" THEN <<>> ELSE buffer'[p]) = <<>>
    BY <1>1, <2>1, IdleIs
  <2>5. \A q \in Engines : q # p => /\ busy'[q] = busy[q] /\ buffer'[q] = buffer[q]
                                    /\ handled'[q] = handled[q]
    BY <1>1, <2>1
  <2> QED
    BY <2>3, <2>4, <2>5
<1> QED
  BY <1>2, <1>3

\* The line at the head of the queue leaves it and nothing else changes there.
LEMMA TakesLineOnce ==
  ASSUME Typed, Once, NEW p \in Engines, TakesLine(p)
  PROVE  /\ Alive(p) /\ Alive(p)' /\ busy[p].kind = "idle" /\ stdin[p] # <<>>
         /\ stdin'[p] = Tail(stdin[p]) /\ written' = written
         /\ written[p] = (handled[p] \o buffer[p]) \o OfKind(stdin[p], CodeKinds)
         /\ \A q \in Engines : q # p => stdin'[q] = stdin[q]
         /\ UNCHANGED <<life, pipe, stdout>>
         /\ QuietAt(p)'
<1>1. /\ Alive(p) /\ busy[p].kind = "idle" /\ stdin[p] # <<>>
      /\ stdin' = [stdin EXCEPT ![p] = Tail(stdin[p])] /\ stdin \in [Engines -> Seq(Lines)]
      /\ UNCHANGED <<life, pipe, stdout, written>>
  BY DEF TakesLine, FreeForNext, processes, Typed, PipeTypes
<1>2. QuietAt(p) /\ OnceAt(p)
  BY DEF Once
<1>3. Alive(p)' /\ QuietAt(p)'
  BY <1>1, <1>2 DEF Alive, QuietAt
<1>4. written[p] = (handled[p] \o buffer[p]) \o OfKind(stdin[p], CodeKinds)
  BY <1>1, <1>2 DEF OnceAt
<1> QED
  BY <1>1, <1>3, <1>4

\* Two lists are the same: an equation the provers match as a whole.
Same(a, b) == a = b

LEMMA Associative ==
  ASSUME NEW X, NEW a \in Seq(X), NEW b \in Seq(X), NEW c \in Seq(X)
  PROVE  Same((a \o b) \o c, a \o (b \o c))
BY DEF Same

LEMMA Regrouped ==
  ASSUME NEW X, NEW a \in Seq(X), NEW b \in Seq(X), NEW c \in Seq(X), NEW d \in Seq(X)
  PROVE  Same((a \o b) \o (c \o d), (a \o (b \o c)) \o d)
<1>1. ASSUME NEW ab \in Seq(X) PROVE Same((ab \o c) \o d, ab \o (c \o d))
  BY Associative, Zenon
<1>2. a \o b \in Seq(X)
  OBVIOUS
<1>3. Same(((a \o b) \o c) \o d, (a \o b) \o (c \o d))
  BY <1>1, <1>2, Zenon
<1>4. Same((a \o b) \o c, a \o (b \o c))
  BY Associative, Zenon
<1> QED
  BY <1>3, <1>4, Zenon DEF Same

\* A line goes from the head of the queue to the end of the buffer.
LEMMA MovedLine ==
  ASSUME NEW X, NEW a \in Seq(X), NEW b \in Seq(X), NEW d \in Seq(X), NEW x \in X
  PROVE  Same((a \o b) \o (<<x>> \o d), (a \o Append(b, x)) \o d)
<1>1. <<x>> \in Seq(X) /\ Append(b, x) = b \o <<x>>
  OBVIOUS
<1>2. ASSUME NEW one \in Seq(X) PROVE Same((a \o b) \o (one \o d), (a \o (b \o one)) \o d)
  BY Regrouped, Zenon
<1> QED
  BY <1>1, <1>2, Zenon

LEMMA TakesOnce ==
  ASSUME Typed, Once, NEW p \in Engines, MetaLine(p) \/ BlankLine(p) \/ CodeLine(p)
  PROVE  Once'
<1>1. TakesLine(p)
  BY DEF MetaLine, BlankLine, CodeLine
<1> DEFINE head == Head(stdin[p])
           rest == Tail(stdin[p])
<1>2. stdin[p] \in Seq(Lines) /\ rest \in Seq(Lines) /\ head \in Lines /\ stdin[p] # <<>>
  BY <1>1 DEF Typed, PipeTypes, TakesLine
<1>3. OfKind(stdin[p], CodeKinds) =
         IF head.kind \in CodeKinds THEN <<head>> \o OfKind(rest, CodeKinds)
         ELSE OfKind(rest, CodeKinds)
  BY <1>2, OfKindHead
<1>4. /\ Alive(p) /\ Alive(p)' /\ busy[p].kind = "idle"
      /\ stdin'[p] = rest /\ written' = written
      /\ written[p] = (handled[p] \o buffer[p]) \o OfKind(stdin[p], CodeKinds)
      /\ \A q \in Engines : q # p => stdin'[q] = stdin[q]
      /\ UNCHANGED <<life, pipe, stdout>>
      /\ QuietAt(p)'
  BY <1>1, TakesLineOnce
<1>5. busy \in [Engines -> Asks \union {Idle, Executing}] /\ handled[p] \in Seq(CodeLines)
      /\ buffer[p] \in Seq(CodeLines)
  BY DEF Typed, ReplTypes, HistoryTypes
<1>6. ASSUME NEW code \in Seq(CodeLines), NEW forced, ExecuteBuffer(p, code, forced),
             (handled[p] \o buffer[p]) \o OfKind(stdin[p], CodeKinds)
                = (handled[p] \o code) \o OfKind(rest, CodeKinds)
      PROVE  Once'
  <2>1. /\ handled'[p] \o (IF busy'[p].kind = "code" THEN <<>> ELSE buffer'[p])
              = handled[p] \o code
        /\ \A q \in Engines : q # p => /\ busy'[q] = busy[q] /\ buffer'[q] = buffer[q]
                                       /\ handled'[q] = handled[q]
    BY <1>4, <1>6, ExecuteOnce
  <2>2. \A q \in Engines : q # p => SameAt(q)
    BY <1>4, <2>1 DEF SameAt
  <2>3. OnceAt(p)'
    BY <1>4, <1>6, <2>1 DEF OnceAt
  <2> QED
    BY <1>4, <2>2, <2>3, OneEngine
<1>7. ASSUME head.kind \notin CodeKinds, UNCHANGED <<buffer, handled>>,
             busy'[p].kind # "code", \A q \in Engines : q # p => busy'[q] = busy[q]
      PROVE  Once'
  <2>1. \A q \in Engines : q # p => SameAt(q)
    BY <1>4, <1>7 DEF SameAt
  <2>2. OnceAt(p)'
    BY <1>3, <1>4, <1>7 DEF OnceAt
  <2> QED
    BY <1>4, <2>1, <2>2, OneEngine
<1>8. CASE MetaLine(p)
  <2>1. head.kind \in Kinds /\ busy' = [busy EXCEPT ![p] = head] /\ UNCHANGED <<buffer, handled>>
    BY <1>8 DEF MetaLine
  <2>2. head.kind \notin CodeKinds /\ head.kind # "code"
    BY <2>1 DEF Kinds, CodeKinds
  <2>3. busy'[p] = head /\ \A q \in Engines : q # p => busy'[q] = busy[q]
    BY <1>5, <2>1
  <2> QED
    BY <1>7, <2>1, <2>2, <2>3
<1>9. CASE BlankLine(p)
  <2>1. head.kind \notin CodeKinds
    BY <1>9 DEF BlankLine, CodeKinds
  <2>2. CASE empties[p] >= 1 /\ buffer[p] # <<>>
    <3>1. ExecuteBuffer(p, buffer[p], TRUE)
      BY <1>9, <2>2 DEF BlankLine
    <3> QED
      BY <1>3, <1>5, <1>6, <2>1, <3>1
  <2>3. CASE ~(empties[p] >= 1 /\ buffer[p] # <<>>)
    <3>1. UNCHANGED <<busy, buffer, handled>>
      BY <1>9, <2>3 DEF BlankLine
    <3> QED
      BY <1>4, <1>7, <2>1, <3>1
  <2> QED
    BY <2>2, <2>3
<1>10. CASE CodeLine(p)
  <2>1. head.kind \in CodeKinds /\ ExecuteBuffer(p, Append(buffer[p], head), FALSE)
    BY <1>10 DEF CodeLine
  <2>2. head \in CodeLines
    BY <1>2, <2>1, LineIs
  <2>3. head \in Lines /\ handled[p] \in Seq(Lines) /\ buffer[p] \in Seq(Lines)
    BY <1>2, <1>5 DEF Lines
  <2>4. OfKind(rest, CodeKinds) \in Seq(Lines)
    BY <1>2, OfKindType
  <2>5. Same((handled[p] \o buffer[p]) \o (<<head>> \o OfKind(rest, CodeKinds)),
             (handled[p] \o Append(buffer[p], head)) \o OfKind(rest, CodeKinds))
    BY <2>3, <2>4, MovedLine, Zenon
  <2>6. Append(buffer[p], head) \in Seq(CodeLines)
    BY <1>5, <2>2
  <2> QED
    BY <1>3, <1>6, <2>1, <2>5, <2>6 DEF Same
<1> QED
  BY <1>8, <1>9, <1>10

LEMMA DoneOnce ==
  ASSUME Typed, Once, NEW p \in Engines, CodeDone(p) \/ MetaDone(p)
  PROVE  Once'
<1>1. QuietAt(p) /\ OnceAt(p)
  BY DEF Once
<1>2. /\ Alive(p) /\ busy' = [busy EXCEPT ![p] = Idle]
      /\ UNCHANGED <<life, pipe, stdin, written, handled>>
  BY DEF CodeDone, MetaDone, processes, pipes, history
<1>3. /\ busy \in [Engines -> Asks \union {Idle, Executing}]
      /\ buffer \in [Engines -> Seq(CodeLines)] /\ stdout \in [Engines -> Seq(Asks)]
  BY DEF Typed, ReplTypes, PipeTypes
<1>4. /\ buffer'[p] = (IF busy[p].kind = "code" THEN <<>> ELSE buffer[p])
      /\ \A q \in Engines : q # p => buffer'[q] = buffer[q] /\ stdout'[q] = stdout[q]
  BY <1>3 DEF CodeDone, MetaDone, Kinds, pipes
<1>5. \A q \in Engines : q # p => SameAt(q)
  BY <1>2, <1>3, <1>4 DEF SameAt
<1>6. busy'[p].kind # "code"
  BY <1>2, <1>3, IdleIs
<1>7. OnceAt(p)' /\ QuietAt(p)'
  BY <1>1, <1>2, <1>4, <1>6 DEF OnceAt, QuietAt, Alive
<1> QED
  BY <1>5, <1>7, OneEngine

\* The engine that is spawned was not born before, and has nothing of its own.
LEMMA StartOnce == ASSUME Reached, Typed, Once, Start PROVE Once'
<1>a. born + 1 \in Engines
  BY EditorSessionAssumption DEF Start, Reached, Types, Engines
<1>b. PICK n \in Engines : n = born + 1
  BY <1>a
<1>1. n \in Engines /\ life[n] = "unborn"
  BY <1>b DEF Reached, Types, Unborn
<1>2. \/ life' = [life EXCEPT ![n] = "live"]
      \/ life' = [life EXCEPT ![n] = "dead"]
  BY <1>b DEF Start
<1>3. UNCHANGED <<pipe, stdin, stdout, busy, buffer, written, handled>>
  BY DEF Start, pipes, repl, history
<1>4. \A q \in Engines : q # n => SameAt(q)
  BY <1>2, <1>3 DEF SameAt, Typed, HandleTypes
<1>5. QuietAt(n)
  BY <1>1 DEF Once
<1>6. /\ stdin[n] = <<>> /\ busy[n] = Idle /\ buffer[n] = <<>> /\ written[n] = <<>>
      /\ handled[n] = <<>> /\ stdout[n] = <<>> /\ pipe[n] = "open"
  BY <1>1, <1>5 DEF QuietAt, Alive, Typed, PipeTypes
<1>7. life'[n] \in {"live", "dead"}
  BY <1>1, <1>2 DEF Typed, HandleTypes
<1>8. QuietAt(n)'
  BY <1>3, <1>6, <1>7 DEF QuietAt, Alive
<1>9. OnceAt(n)'
  <2>1. OfKind(<<>>, CodeKinds) = <<>>
    BY OfKindOfNone
  <2>2. <<>> = <<>> \o <<>> \o <<>>
    OBVIOUS
  <2>3. busy[n].kind # "code"
    BY <1>6, IdleIs
  <2> QED
    BY <1>3, <1>6, <2>1, <2>2, <2>3 DEF OnceAt, Alive
<1> QED
  BY <1>1, <1>4, <1>8, <1>9, OneEngine

LEMMA UntouchedOnce ==
  ASSUME Once, UNCHANGED <<life, pipe, stdin, busy, buffer, written, handled>>,
         \A q \in Engines : stdout[q] = <<>> => stdout'[q] = <<>>
  PROVE  Once'
BY DEF Once, QuietAt, OnceAt, Alive

LEMMA StdinErrorOnce == ASSUME Typed, Once, NEW p \in Engines, StdinError(p) PROVE Once'
<1>1. /\ pipe[p] = "broken" /\ pipe' = [pipe EXCEPT ![p] = "closed"]
      /\ UNCHANGED <<life, stdin, stdout, busy, buffer, written, handled>>
  BY DEF StdinError, processes, repl, history
<1>2. \A q \in Engines : q # p => SameAt(q)
  BY <1>1 DEF SameAt, Typed, PipeTypes
<1>3. QuietAt(p) /\ OnceAt(p)
  BY DEF Once
<1>4. QuietAt(p)' /\ OnceAt(p)'
  BY <1>1, <1>3 DEF QuietAt, OnceAt, Alive
<1> QED
  BY <1>2, <1>4, OneEngine

LEMMA StdoutLineOnce ==
  ASSUME Typed, Once, NEW p \in Engines, StdoutLine(p) \/ StdoutCut(p)
  PROVE  Once'
<1>1. /\ stdout[p] # <<>> /\ stdout' = [stdout EXCEPT ![p] = Tail(stdout[p])]
      /\ UNCHANGED <<life, pipe, stdin, busy, buffer, written, handled>>
  BY DEF StdoutLine, StdoutCut, processes, repl, history
<1>2. \A q \in Engines : stdout[q] = <<>> => stdout'[q] = <<>>
  BY <1>1 DEF Typed, PipeTypes
<1> QED
  BY <1>1, <1>2, UntouchedOnce

LEMMA OfKindJoined ==
  ASSUME NEW X, NEW front \in Seq(X), NEW back \in Seq(X), NEW kinds
  PROVE  Same(OfKind(front \o back, kinds), OfKind(front, kinds) \o OfKind(back, kinds))
BY OfKindConcat DEF Same

\* What is written and joins the queue is what the REPL will carry out.
LEMMA WriteOnce ==
  ASSUME Reached, Typed, Once, NEW lines \in Seq(Lines), current # 0, WriteLines(lines),
         written' = IF Alive(current)
                    THEN [written EXCEPT ![current] = @ \o OfKind(lines, CodeKinds)]
                    ELSE written,
         UNCHANGED <<life, busy, buffer, handled>>
  PROVE  Once'
<1>1. PICK p \in Engines : p = current
  BY DEF Typed, HandleTypes
<1>2. QuietAt(p) /\ OnceAt(p)
  BY <1>1 DEF Once
<1>3. CASE Alive(p)
  <2>1. /\ stdin' = [stdin EXCEPT ![p] = stdin[p] \o lines] /\ UNCHANGED <<pipe, stdout>>
        /\ written' = [written EXCEPT ![p] = written[p] \o OfKind(lines, CodeKinds)]
    BY <1>1, <1>3 DEF WriteLines
  <2>2. \A q \in Engines : q # p => SameAt(q)
    BY <2>1 DEF SameAt, Typed, PipeTypes, HistoryTypes
  <2>3. /\ stdin'[p] = stdin[p] \o lines /\ stdin[p] \in Seq(Lines)
        /\ written'[p] = written[p] \o OfKind(lines, CodeKinds)
    BY <1>1, <2>1 DEF Typed, PipeTypes, HistoryTypes
  <2>4. Same(OfKind(stdin[p] \o lines, CodeKinds),
             OfKind(stdin[p], CodeKinds) \o OfKind(lines, CodeKinds))
    BY <2>3, OfKindJoined, Zenon
  <2> DEFINE before == handled[p] \o (IF busy[p].kind = "code" THEN <<>> ELSE buffer[p])
  <2>5. before \in Seq(Lines)
    BY <1>1 DEF Typed, ReplTypes, HistoryTypes, Lines
  <2>6. OfKind(stdin[p], CodeKinds) \in Seq(Lines) /\ OfKind(lines, CodeKinds) \in Seq(Lines)
    BY <2>3, OfKindType
  <2>7. written[p] = before \o OfKind(stdin[p], CodeKinds)
    BY <1>2, <1>3 DEF OnceAt
  <2> HIDE DEF before
  <2>8. Same((before \o OfKind(stdin[p], CodeKinds)) \o OfKind(lines, CodeKinds),
             before \o (OfKind(stdin[p], CodeKinds) \o OfKind(lines, CodeKinds)))
    BY <2>5, <2>6, Associative, Zenon
  <2>9. written'[p] = before \o OfKind(stdin'[p], CodeKinds)
    BY <2>3, <2>4, <2>7, <2>8 DEF Same
  <2>10. OnceAt(p)'
    BY <2>9 DEF OnceAt, before
  <2>11. QuietAt(p)'
    BY <1>2, <1>3, <2>1 DEF QuietAt, Alive
  <2> QED
    BY <2>2, <2>10, <2>11, OneEngine
<1>4. CASE ~Alive(p)
  <2>1. pipe' = [pipe EXCEPT ![p] = "broken"] /\ UNCHANGED <<stdin, stdout, written>>
    BY <1>1, <1>4 DEF WriteLines
  <2>2. \A q \in Engines : q # p => SameAt(q)
    BY <2>1 DEF SameAt, Typed, PipeTypes
  <2>3. life[p] = "dead"
    BY <1>1, <1>4 DEF Reached, Unborn, Alive, Typed, HandleTypes
  <2>4. QuietAt(p)' /\ OnceAt(p)'
    BY <1>2, <2>1, <2>3 DEF QuietAt, OnceAt, Alive
  <2> QED
    BY <2>2, <2>4, OneEngine
<1> QED
  BY <1>3, <1>4

LEMMA EvaluateOnce == ASSUME Reached, Typed, Once, NEW text \in Texts, Evaluate(text) PROVE Once'
<1>1. /\ WriteLines(Sent(text)) /\ current # 0
      /\ written' = IF Alive(current)
                    THEN [written EXCEPT ![current] = @ \o OfKind(Sent(text), CodeKinds)]
                    ELSE written
      /\ UNCHANGED <<life, busy, buffer, handled>>
  BY DEF Evaluate, Sent, Writable, processes, repl
<1> QED
  BY <1>1, SentTyped, WriteOnce

\* A request to a bridge is no line of code.
LEMMA SendOnce ==
  ASSUME Reached, Typed, Once, NEW c \in Calls, NEW k \in Kinds, Send(c, k)
  PROVE  Once'
<1>1. UNCHANGED <<life, busy, buffer, written, handled>>
  BY DEF Send, processes, repl, history
<1>2. CASE ~Writable
  <2>1. UNCHANGED <<pipe, stdin, stdout>>
    BY <1>2 DEF Send, pipes
  <2> QED
    BY <1>1, <2>1, UntouchedOnce
<1>3. CASE Writable
  <2> DEFINE line == [kind |-> k, call |-> c]
             one == <<line>>
  <2>1. current # 0 /\ WriteLines(one)
    BY <1>3 DEF Send
  <2>2. line \in Lines /\ line.kind \notin CodeKinds
    BY DEF Lines, Asks, Kinds, CodeKinds
  <2> HIDE DEF line
  <2>3. one \in Seq(Lines) /\ OfKind(one, CodeKinds) = <<>>
    BY <2>2, OfKindOfOne
  <2> HIDE DEF one
  <2>4. \A p \in Engines : written[p] \o <<>> = written[p]
    BY DEF Typed, HistoryTypes
  <2>5. written' = IF Alive(current)
                   THEN [written EXCEPT ![current] = @ \o OfKind(one, CodeKinds)]
                   ELSE written
    BY <1>1, <2>1, <2>3, <2>4 DEF Typed, HandleTypes, HistoryTypes
  <2> QED
    BY <1>1, <2>1, <2>3, <2>5, WriteOnce
<1> QED
  BY <1>2, <1>3

LEMMA StepOnce == ASSUME Reached, Typed, Once, [Next]_vars PROVE Once'
<1>1. CASE Start
  BY <1>1, StartOnce
<1>2. CASE Stop
  BY <1>2, UntouchedOnce DEF Stop, pipes, repl, history
<1>3. ASSUME NEW p \in Engines, Repl(p) PROVE Once'
  BY <1>3, DieOnce, TakesOnce, DoneOnce DEF Repl, Exits
<1>4. ASSUME NEW p \in Engines, Events(p) PROVE Once'
  <2>1. CASE KillTimer(p)
    BY <2>1, DieOnce, UntouchedOnce DEF KillTimer, NotExited, pipes, repl, history
  <2>2. CASE ExitEvent(p) \/ ErrorEvent(p)
    BY <2>2, UntouchedOnce DEF ExitEvent, ErrorEvent, Noticed, pipes, repl, history
  <2> QED
    BY <1>4, <2>1, <2>2, StdinErrorOnce, StdoutLineOnce DEF Events
<1>5. CASE \E t \in Texts : Evaluate(t)
  BY <1>5, EvaluateOnce
<1>6. CASE \E c \in Calls : TimesOut(c)
  BY <1>6, UntouchedOnce DEF TimesOut, processes, pipes, repl
<1>7. CASE \E c \in Calls : \E k \in Kinds : Send(c, k)
  BY <1>7, SendOnce
<1>8. CASE UNCHANGED vars
  BY <1>8, UntouchedOnce DEF vars, processes, pipes, repl, history
<1> QED
  BY <1>1, <1>2, <1>3, <1>4, <1>5, <1>6, <1>7, <1>8 DEF Next

LEMMA InitOnce == ASSUME Init PROVE Once
BY DEF Init, Once, QuietAt, OnceAt, Alive

-----------------------------------------------------------------------------
(* Every answer to its call.                                               *)

Device == {"device"}

\* The device requests an engine has in its pipes and in hand, oldest first.
Asked(p) ==
    (OfKind(stdout[p], Device) \o OfKind(<<busy[p]>>, Device)) \o OfKind(stdin[p], Device)

Held(p) == IF busy[p].kind = "device" THEN <<busy[p]>> ELSE <<>>

LEMMA Emptied == ASSUME NEW X, NEW a \in Seq(X) PROVE Same(a \o <<>>, a) /\ Same(<<>> \o a, a)
BY DEF Same

Shape(p) ==
    /\ Asked(p) = (OfKind(stdout[p], Device) \o Held(p)) \o OfKind(stdin[p], Device)
    /\ OfKind(stdout[p], Device) \in Seq(Lines) /\ Held(p) \in Seq(Lines)
    /\ OfKind(stdin[p], Device) \in Seq(Lines) /\ Asked(p) \in Seq(Lines)

LEMMA AskedIs == Typed => \A p \in Engines : Shape(p)
<1> SUFFICES ASSUME Typed, NEW p \in Engines PROVE Shape(p)
  OBVIOUS
<1>1. /\ stdout[p] \in Seq(Lines) /\ stdin[p] \in Seq(Lines)
      /\ busy[p] \in Asks \union {Idle, Executing}
  BY DEF Typed, PipeTypes, ReplTypes, Lines
<1>2. OfKind(stdout[p], Device) \in Seq(Lines) /\ OfKind(stdin[p], Device) \in Seq(Lines)
  BY <1>1, OfKindType
<1>3. OfKind(<<busy[p]>>, Device) = Held(p)
  BY OfKindOfOne DEF Held, Device
<1>4. Held(p) \in Seq(Lines)
  <2>1. busy[p].kind = "device" => busy[p] \in Lines
    BY <1>1, IdleIs DEF Lines
  <2> DEFINE b == busy[p]
  <2> HIDE DEF b
  <2>2. b \in Lines => <<b>> \in Seq(Lines)
    OBVIOUS
  <2> QED
    BY <2>1, <2>2 DEF Held, b
<1>5. Asked(p) = (OfKind(stdout[p], Device) \o Held(p)) \o OfKind(stdin[p], Device)
  BY <1>3, Zenon DEF Asked
<1>6. ASSUME NEW o \in Seq(Lines), NEW h \in Seq(Lines), NEW i \in Seq(Lines)
      PROVE  (o \o h) \o i \in Seq(Lines)
  OBVIOUS
<1>7. (OfKind(stdout[p], Device) \o Held(p)) \o OfKind(stdin[p], Device) \in Seq(Lines)
  BY <1>2, <1>4, <1>6, Zenon
<1> QED
  BY <1>2, <1>4, <1>5, <1>7, Zenon DEF Shape

Shapes == \A p \in Engines : Shape(p)

LEMMA TypedShapes == Typed => Shapes
BY AskedIs DEF Shapes

LEMMA AskedThen == ASSUME Typed' PROVE \A p \in Engines : Shape(p)'
<1>1. Shapes'
  BY TypedShapes, PTL
<1> QED
  BY <1>1, Zenon DEF Shapes

LEMMA OfKindLast ==
  ASSUME NEW X, NEW lines \in Seq(X), NEW line \in X, NEW kinds
  PROVE  /\ line.kind \in kinds =>
               Same(OfKind(Append(lines, line), kinds), Append(OfKind(lines, kinds), line))
         /\ line.kind \notin kinds => Same(OfKind(Append(lines, line), kinds), OfKind(lines, kinds))
BY OfKindAppend DEF Same

LEMMA OfKindFirst ==
  ASSUME NEW X, NEW lines \in Seq(X), lines # <<>>, NEW kinds
  PROVE  /\ Head(lines).kind \in kinds =>
               Same(OfKind(lines, kinds), <<Head(lines)>> \o OfKind(Tail(lines), kinds))
         /\ Head(lines).kind \notin kinds => OfKind(lines, kinds) = OfKind(Tail(lines), kinds)
BY OfKindHead DEF Same

\* A request is passed on inside an engine.
LEMMA MetaAsked ==
  ASSUME Typed, NEW p \in Engines, MetaLine(p) \/ MetaDone(p), \A q \in Engines : Shape(q)'
  PROVE  Asked(p)' = Asked(p)
<1>s. Shape(p) /\ Shape(p)'
  BY AskedIs
<1>1. CASE MetaLine(p)
  <2> DEFINE head == Head(stdin[p])
             rest == Tail(stdin[p])
             O == OfKind(stdout[p], Device)
             R == OfKind(rest, Device)
  <2>1. /\ stdin[p] # <<>> /\ stdin[p] \in Seq(Lines) /\ rest \in Seq(Lines) /\ head \in Lines
        /\ busy[p].kind = "idle" /\ busy'[p] = head /\ stdin'[p] = rest /\ stdout' = stdout
    BY <1>1 DEF MetaLine, TakesLine, FreeForNext, Typed, PipeTypes, ReplTypes
  <2>2. Held(p) = <<>> /\ Held(p)' = IF head.kind = "device" THEN <<head>> ELSE <<>>
    BY <2>1 DEF Held
  <2>3. O \in Seq(Lines) /\ R \in Seq(Lines)
    BY <2>1, <1>s, OfKindType DEF Shape
  <2>4. Asked(p) = (O \o <<>>) \o OfKind(stdin[p], Device)
    BY <2>2, <1>s DEF Shape
  <2>5. Asked(p)' = (O \o Held(p)') \o R
    BY <2>1, <1>s DEF Shape
  <2>6. Same(O \o <<>>, O)
    BY <2>3, Emptied, Zenon
  <2>7. CASE head.kind = "device"
    <3>1. Same(OfKind(stdin[p], Device), <<head>> \o R)
      BY <2>1, <2>7, OfKindFirst DEF Device
    <3>2. <<head>> \in Seq(Lines)
      BY <2>1
    <3>3. Same((O \o <<head>>) \o R, O \o (<<head>> \o R))
      BY <2>3, <3>2, Associative, Zenon
    <3> QED
      BY <2>2, <2>4, <2>5, <2>6, <2>7, <3>1, <3>3 DEF Same
  <2>8. CASE head.kind # "device"
    <3>1. OfKind(stdin[p], Device) = R
      BY <2>1, <2>8, OfKindFirst DEF Device
    <3> QED
      BY <2>2, <2>4, <2>5, <2>8, <3>1
  <2> QED
    BY <2>7, <2>8
<1>2. CASE MetaDone(p)
  <2> DEFINE O == OfKind(stdout[p], Device)
             I == OfKind(stdin[p], Device)
  <2>1. /\ stdout \in [Engines -> Seq(Asks)] /\ busy \in [Engines -> Asks \union {Idle, Executing}]
        /\ stdout' = [stdout EXCEPT ![p] = Append(stdout[p], busy[p])]
        /\ busy' = [busy EXCEPT ![p] = Idle] /\ stdin' = stdin /\ busy[p].kind \in Kinds
    BY <1>2 DEF MetaDone, Typed, PipeTypes, ReplTypes
  <2>2. stdout[p] \in Seq(Asks) /\ busy[p] \in Asks
    BY <2>1, IdleIs DEF Kinds
  <2>3. stdout'[p] = Append(stdout[p], busy[p]) /\ busy'[p] = Idle
    BY <2>1
  <2>4. /\ busy[p].kind \in Device =>
                Same(OfKind(Append(stdout[p], busy[p]), Device), Append(O, busy[p]))
        /\ busy[p].kind \notin Device => Same(OfKind(Append(stdout[p], busy[p]), Device), O)
    BY <2>2, OfKindLast, Zenon
  <2>5. O \in Seq(Lines) /\ I \in Seq(Lines) /\ busy[p] \in Lines
    BY <2>2, <1>s DEF Lines, Shape
  <2>6. Asked(p) = (O \o Held(p)) \o I
    BY <1>s DEF Shape
  <2>7. Held(p)' = <<>>
    BY <2>3, IdleIs DEF Held
  <2>8. Asked(p)' = (OfKind(stdout[p], Device)' \o <<>>) \o I
    BY <2>1, <2>7, <1>s DEF Shape
  <2>9. OfKind(stdout[p], Device)' = O \o Held(p)
    <3>1. ASSUME NEW o \in Seq(Lines), NEW l \in Lines
          PROVE  Append(o, l) = o \o <<l>> /\ o = o \o <<>>
      OBVIOUS
    <3>2. OfKind(stdout[p], Device)' = OfKind(Append(stdout[p], busy[p]), Device)
      BY <2>3
    <3> HIDE DEF O
    <3> QED
      BY <2>4, <2>5, <3>1, <3>2 DEF Held, Device, Same
  <2>10. OfKind(stdout[p], Device)' \in Seq(Lines)
    BY <1>s DEF Shape
  <2>11. Same(OfKind(stdout[p], Device)' \o <<>>, OfKind(stdout[p], Device)')
    BY <2>10, Emptied, Zenon
  <2> QED
    BY <2>6, <2>8, <2>9, <2>11 DEF Same
<1> QED
  BY <1>1, <1>2

\* Lines of code are no requests.
LEMMA CodeAsked ==
  ASSUME Typed, NEW p \in Engines, BlankLine(p) \/ CodeLine(p)
            \/ CodeDone(p), \A q \in Engines : Shape(q)'
  PROVE  Asked(p)' = Asked(p)
<1>s. Shape(p) /\ Shape(p)'
  BY AskedIs
<1>1. busy[p].kind # "device" /\ busy'[p].kind # "device" /\ stdout' = stdout
  <2>1. busy \in [Engines -> Asks \union {Idle, Executing}]
    BY DEF Typed, ReplTypes
  <2>2. CASE CodeDone(p)
    BY <2>1, <2>2, IdleIs DEF CodeDone, pipes
  <2>3. CASE BlankLine(p) \/ CodeLine(p)
    <3>1. busy[p].kind = "idle" /\ stdout' = stdout
      BY <2>3 DEF BlankLine, CodeLine, TakesLine, FreeForNext
    <3>2. busy' = busy \/ busy' = [busy EXCEPT ![p] = Executing]
      BY <2>3 DEF BlankLine, CodeLine, ExecuteBuffer, Executing
    <3> QED
      BY <2>1, <3>1, <3>2, IdleIs
  <2> QED
    BY <2>2, <2>3
<1>2. Held(p) = <<>> /\ Held(p)' = <<>>
  BY <1>1 DEF Held
<1>3. OfKind(stdin'[p], Device) = OfKind(stdin[p], Device)
  <2>1. CASE CodeDone(p)
    BY <2>1 DEF CodeDone, pipes
  <2>2. CASE BlankLine(p) \/ CodeLine(p)
    <3>1. stdin[p] # <<>> /\ stdin[p] \in Seq(Lines) /\ stdin'[p] = Tail(stdin[p])
      BY <2>2 DEF BlankLine, CodeLine, TakesLine, Typed, PipeTypes
    <3>2. Head(stdin[p]).kind \notin Device
      BY <2>2 DEF BlankLine, CodeLine, CodeKinds, Device
    <3> QED
      BY <3>1, <3>2, OfKindFirst
  <2> QED
    BY <2>1, <2>2
<1> QED
  BY <1>1, <1>2, <1>3, <1>s DEF Shape

\* An engine that ended will print no more than what it has printed.
LEMMA DieAsked ==
  ASSUME Typed, NEW p \in Engines, Die(p), \A q \in Engines : Shape(q)'
  PROVE  /\ Len(Asked(p)') <= Len(Asked(p))
         /\ \A i \in 1 .. Len(Asked(p)') : Asked(p)'[i] = Asked(p)[i]
<1>s. Shape(p) /\ Shape(p)'
  BY AskedIs
<1> DEFINE O == OfKind(stdout[p], Device)
           I == OfKind(stdin[p], Device)
<1>1. O \in Seq(Lines) /\ I \in Seq(Lines) /\ Held(p) \in Seq(Lines)
          /\ Asked(p) = (O \o Held(p)) \o I
  BY <1>s DEF Shape
<1>2. stdout' = stdout /\ stdin'[p] = <<>> /\ busy'[p] = Idle
  BY DEF Die, Typed, PipeTypes, ReplTypes
<1>3. Held(p)' = <<>> /\ OfKind(<<>>, Device) = <<>>
  BY <1>2, IdleIs, OfKindOfNone DEF Held
<1>4. Asked(p)' = (O \o <<>>) \o <<>>
  BY <1>2, <1>3, <1>s DEF Shape
<1> HIDE DEF O, I
<1>5. Asked(p)' = O
  BY <1>1, <1>4
<1>6. ASSUME NEW o \in Seq(Lines), NEW h \in Seq(Lines), NEW i \in Seq(Lines)
      PROVE  Len(o) <= Len((o \o h) \o i) /\ \A j \in 1 .. Len(o) : o[j] = ((o \o h) \o i)[j]
  OBVIOUS
<1> QED
  BY <1>1, <1>5, <1>6

\* The oldest request is the first one heard of.
LEMMA HeardAsked ==
  ASSUME Typed, NEW p \in Engines, StdoutLine(p) \/ StdoutCut(p), \A q \in Engines : Shape(q)'
  PROVE  LET line == Head(stdout[p])
         IN /\ line.kind # "device" => Asked(p)' = Asked(p)
            /\ line.kind = "device" => Same(Asked(p), <<line>> \o Asked(p)')
<1>s. Shape(p) /\ Shape(p)'
  BY AskedIs
<1> DEFINE line == Head(stdout[p])
           O == OfKind(Tail(stdout[p]), Device)
           I == OfKind(stdin[p], Device)
<1>1. /\ stdout[p] # <<>> /\ stdout[p] \in Seq(Lines) /\ line \in Lines
          /\ Tail(stdout[p]) \in Seq(Lines)
      /\ stdout'[p] = Tail(stdout[p]) /\ UNCHANGED <<stdin, busy>>
  BY DEF StdoutLine, StdoutCut, repl, Typed, PipeTypes, Lines
<1>2. O \in Seq(Lines) /\ I \in Seq(Lines) /\ Held(p) \in Seq(Lines) /\ Held(p)' = Held(p)
  BY <1>1, <1>s, OfKindType DEF Held, Shape
<1>3. Asked(p) = (OfKind(stdout[p], Device) \o Held(p)) \o I /\ Asked(p)' = (O \o Held(p)) \o I
  BY <1>1, <1>2, <1>s DEF Shape
<1>4. ASSUME line.kind # "device" PROVE Asked(p)' = Asked(p)
  <2>1. OfKind(stdout[p], Device) = O
    BY <1>1, <1>4, OfKindFirst DEF Device
  <2> QED
    BY <1>3, <2>1
<1>5. ASSUME line.kind = "device" PROVE Same(Asked(p), <<line>> \o Asked(p)')
  <2>1. Same(OfKind(stdout[p], Device), <<line>> \o O)
    BY <1>1, <1>5, OfKindFirst DEF Device
  <2>2. <<line>> \in Seq(Lines) /\ O \o Held(p) \in Seq(Lines)
    BY <1>1, <1>2
  <2>3. Same((<<line>> \o O) \o Held(p), <<line>> \o (O \o Held(p)))
    BY <1>2, <2>2, Associative, Zenon
  <2>4. Same((<<line>> \o (O \o Held(p))) \o I, <<line>> \o ((O \o Held(p)) \o I))
    BY <1>2, <2>2, Associative, Zenon
  <2> QED
    BY <1>3, <2>1, <2>3, <2>4 DEF Same
<1> QED
  BY <1>4, <1>5

\* A line is in an engine's pipes or in its hands.
InPipe(p, line) ==
    \/ \E i \in 1 .. Len(stdin[p]) : stdin[p][i] = line
    \/ busy[p] = line
    \/ \E i \in 1 .. Len(stdout[p]) : stdout[p][i] = line

Fits(line) ==
    /\ call[line.call].pc # "idle"
    /\ Waiting(line.call) => call[line.call].kind = line.kind

\* A call that waits was sent to the engine that is current.
Pending ==
    /\ astray \subseteq Engines
    /\ \A c \in Calls : Waiting(c) => current # 0 /\ call[c].to = current

\* A request in a pipe is that of a call that was made, and of its kind.
Addressed == \A p \in Engines : \A line \in Asks : InPipe(p, line) => Fits(line)

\* The device bridge's list: calls that wait for a device, each once.
Queued ==
    /\ \A i \in 1 .. Len(queue) : Waiting(queue[i]) /\ call[queue[i]].kind = "device"
    /\ \A i, j \in 1 .. Len(queue) : queue[i] = queue[j] => i = j

\* The requests in the current engine's pipes are those of the list's oldest
\* calls, in its order, unless a device call to that engine timed out or one of
\* its answers was cut; all of the list's while it runs.
Matching ==
    current # 0 /\ current \notin astray =>
        /\ pipe[current] = "closed" => queue = <<>>
        /\ pipe[current] # "closed" =>
             /\ Len(Asked(current)) <= Len(queue)
             /\ Alive(current) => Len(Asked(current)) = Len(queue)
             /\ \A i \in 1 .. Len(Asked(current)) : Asked(current)[i].call = queue[i]

Answers == Pending /\ Addressed /\ Queued /\ Matching /\ OwnAnswer

\* What a step may do to a call that was made.
Moved(c) ==
    call[c].pc # "idle" =>
        /\ call'[c].pc # "idle"
        /\ Waiting(c)' => Waiting(c) /\ call'[c] = call[c]

LEMMA DrainMoves ==
  ASSUME Typed, DrainAll
  PROVE  /\ \A c \in Calls : Moved(c) /\ ~Waiting(c)' /\ (~Waiting(c) => call'[c] = call[c])
         /\ queue' = <<>>
<1>1. call' = [c \in Calls |-> IF Waiting(c) THEN Failed ELSE call[c]] /\ queue' = <<>>
  BY DEF DrainAll
<1>2. Failed.pc = "failed"
  BY DEF Failed, Unsent
<1> QED
  BY <1>1, <1>2 DEF Moved, Waiting

\* Requests stay addressed when what is in the pipes was there, or fits.
LEMMA AddressedKeeps ==
  ASSUME Addressed, \A c \in Calls : Moved(c),
         \A p \in Engines : \A line \in Asks : InPipe(p, line)' => InPipe(p, line) \/ Fits(line)'
  PROVE  Addressed'
<1> SUFFICES ASSUME NEW p \in Engines, NEW line \in Asks, InPipe(p, line)' PROVE Fits(line)'
  BY DEF Addressed
<1>1. CASE Fits(line)'
  BY <1>1
<1>2. CASE InPipe(p, line)
  <2>1. line.call \in Calls /\ Fits(line)
    BY <1>2 DEF Addressed, Asks
  <2>2. Moved(line.call)
    BY <2>1
  <2> QED
    BY <2>1, <2>2 DEF Fits, Moved, Waiting
<1> QED
  BY <1>1, <1>2

LEMMA OwnKeeps ==
  ASSUME OwnAnswer, astray \subseteq astray',
         \A c \in Calls : call'[c].pc = "answered" => call'[c] = call[c]
  PROVE  OwnAnswer'
BY DEF OwnAnswer

\* The bridges and the current engine's pipe as they were.
LEMMA Unheard ==
  ASSUME Typed, Answers, UNCHANGED <<current, call, queue, astray>>,
         \A p \in Engines : \A line \in Asks : InPipe(p, line)' => InPipe(p, line),
         current # 0 => Asked(current)' = Asked(current)
                        /\ (pipe'[current] = "closed" <=> pipe[current] = "closed")
                        /\ (Alive(current)' => Alive(current))
  PROVE  Answers'
<1>1. \A c \in Calls : Moved(c)
  BY DEF Moved, Waiting
<1>2. Addressed'
  BY <1>1, AddressedKeeps DEF Answers
<1>3. Pending' /\ Queued' /\ OwnAnswer'
  BY DEF Answers, Pending, Queued, OwnAnswer, Waiting
<1>4. Matching'
  <2> SUFFICES ASSUME current # 0 /\ current \notin astray PROVE Matching'
    BY DEF Matching
  <2>1. Matching
    BY DEF Answers
  <2>2. PICK p \in Engines : p = current
    BY DEF Typed, HandleTypes
  <2>3. p = current' /\ Asked(p)' = Asked(p) /\ (pipe'[p] = "closed" <=> pipe[p] = "closed")
        /\ (Alive(p)' => Alive(p))
    BY <2>2
  <2>4. Asked(current) = Asked(p) /\ Asked(current)' = Asked(p)'
    BY <2>2, <2>3
  <2> QED
    BY <2>1, <2>2, <2>3, <2>4 DEF Matching, Alive
<1> QED
  BY <1>2, <1>3, <1>4 DEF Answers

\* Nothing waits and nothing is listed when the calls were failed.
LEMMA DrainKeeps ==
  ASSUME Typed, Answers, DrainAll, astray' = astray,
         \A p \in Engines : \A line \in Asks : InPipe(p, line)' => InPipe(p, line),
         current' = 0 \/ (current' = current /\ pipe'[current] = "closed")
  PROVE  Answers'
<1>1. /\ \A c \in Calls : Moved(c) /\ ~Waiting(c)' /\ (~Waiting(c) => call'[c] = call[c])
      /\ queue' = <<>>
  BY DrainMoves
<1>2. Addressed'
  BY <1>1, AddressedKeeps DEF Answers
<1>3. Pending'
  BY <1>1 DEF Answers, Pending
<1>4. Queued'
  BY <1>1 DEF Queued
<1>5. OwnAnswer'
  <2>1. \A c \in Calls : call'[c].pc = "answered" => call'[c] = call[c]
    <3>1. call' = [c \in Calls |-> IF Waiting(c) THEN Failed ELSE call[c]]
      BY DEF DrainAll
    <3> QED
      BY <3>1 DEF Failed, Unsent
  <2> QED
    BY <2>1, OwnKeeps DEF Answers
<1>6. Matching'
  BY <1>1 DEF Matching
<1> QED
  BY <1>2, <1>3, <1>4, <1>5, <1>6 DEF Answers

LEMMA DieAnswers ==
  ASSUME Reached, Typed, Answers, NEW p \in Engines, Alive(p), Die(p), Typed'
  PROVE  Answers'
<1>0. \A q \in Engines : Shape(q)'
  BY AskedThen
<1>1. /\ stdin' = [stdin EXCEPT ![p] = <<>>] /\ busy' = [busy EXCEPT ![p] = Idle]
      /\ life' = [life EXCEPT ![p] = "dead"]
      /\ UNCHANGED <<current, stdout, pipe, call, queue, astray>>
  BY DEF Die, bridges
<1>2. stdin \in [Engines -> Seq(Lines)] /\ busy \in [Engines -> Asks \union {Idle, Executing}]
      /\ life \in [Engines -> {"unborn", "live", "dead"}]
  BY DEF Typed, PipeTypes, ReplTypes, HandleTypes
<1>3. ASSUME NEW q \in Engines, NEW line \in Asks, InPipe(q, line)' PROVE InPipe(q, line)
  <2>1. CASE q = p
    <3>1. stdin'[p] = <<>> /\ busy'[p] = Idle /\ Idle # line
      BY <1>1, <1>2, IdleIs DEF Asks, Kinds, Idle
    <3> QED
      BY <1>1, <1>3, <2>1, <3>1 DEF InPipe
  <2>2. CASE q # p
    BY <1>1, <1>2, <1>3, <2>2 DEF InPipe
  <2> QED
    BY <2>1, <2>2
<1>4. \A c \in Calls : Moved(c)
  BY <1>1 DEF Moved, Waiting
<1>5. Addressed'
  BY <1>3, <1>4, AddressedKeeps DEF Answers
<1>6. Pending' /\ Queued' /\ OwnAnswer'
  BY <1>1 DEF Answers, Pending, Queued, OwnAnswer, Waiting
<1>7. Matching'
  <2> SUFFICES ASSUME current # 0 /\ current \notin astray PROVE Matching'
    BY <1>1 DEF Matching
  <2>1. Matching
    BY DEF Answers
  <2>2. PICK e \in Engines : e = current
    BY DEF Typed, HandleTypes
  <2>3. /\ Len(Asked(e)') <= Len(Asked(e))
            /\ \A i \in 1 .. Len(Asked(e)') : Asked(e)'[i] = Asked(e)[i]
        /\ Alive(e)' => Asked(e)' = Asked(e) /\ Alive(e)
    <3>1. CASE e = p
      BY <1>0, <1>1, <1>2, <3>1, DieAsked DEF Alive
    <3>2. CASE e # p
      <4>1. stdin'[e] = stdin[e] /\ stdout'[e] = stdout[e] /\ busy'[e] = busy[e]
                /\ life'[e] = life[e]
        BY <1>1, <1>2, <3>2
      <4>2. Asked(e)' = Asked(e) /\ Asked(e) \in Seq(Lines)
        BY <4>1, AskedIs DEF Asked, Shape
      <4> QED
        BY <4>1, <4>2 DEF Alive
    <3> QED
      BY <3>1, <3>2
  <2>4. Asked(e) \in Seq(Lines) /\ Asked(e)' \in Seq(Lines) /\ queue \in Seq(Calls)
    BY <1>0, AskedIs DEF Shape, Typed, BridgeTypes
  <2>5. /\ pipe[e] = "closed" => queue = <<>>
        /\ pipe[e] # "closed" =>
             /\ Len(Asked(e)) <= Len(queue)
             /\ Alive(e) => Len(Asked(e)) = Len(queue)
             /\ \A i \in 1 .. Len(Asked(e)) : Asked(e)[i].call = queue[i]
    BY <2>1, <2>2 DEF Matching
  <2>6. pipe[e] # "closed" =>
             /\ Len(Asked(e)') <= Len(queue)
             /\ Alive(e)' => Len(Asked(e)') = Len(queue)
             /\ \A i \in 1 .. Len(Asked(e)') : Asked(e)'[i].call = queue[i]
    BY <2>3, <2>4, <2>5, SMTT(30)
  <2>7. e = current' /\ queue' = queue /\ pipe' = pipe
    BY <1>1, <2>2
  <2> QED
    BY <2>5, <2>6, <2>7 DEF Matching
<1> QED
  BY <1>5, <1>6, <1>7 DEF Answers

\* The requests in the engines' pipes, and the calls, as they were.
LEMMA ReplAnswers ==
  ASSUME Typed, Answers, Typed', NEW p \in Engines,
         MetaLine(p) \/ BlankLine(p) \/ CodeLine(p) \/ CodeDone(p) \/ MetaDone(p)
  PROVE  Answers'
<1>0. \A q \in Engines : Shape(q)'
  BY AskedThen
<1>1. UNCHANGED <<life, current, pipe, call, queue, astray>>
  BY DEF MetaLine, BlankLine, CodeLine, CodeDone, MetaDone, TakesLine, processes, bridges,
         pipes, history
<1>2. stdin \in [Engines -> Seq(Lines)] /\ busy \in [Engines -> Asks \union {Idle, Executing}]
      /\ stdout \in [Engines -> Seq(Asks)]
  BY DEF Typed, PipeTypes, ReplTypes
<1>3. /\ Idle \notin Asks /\ Executing \notin Asks
  BY IdleIs DEF Asks, Kinds
<1>4. \A q \in Engines : q # p => /\ stdin'[q] = stdin[q] /\ stdout'[q] = stdout[q]
                                  /\ busy'[q] = busy[q]
  BY <1>2 DEF MetaLine, BlankLine, CodeLine, CodeDone, MetaDone, TakesLine, ExecuteBuffer, pipes
<1>5. ASSUME NEW line \in Asks, InPipe(p, line)' PROVE InPipe(p, line)
  <2>1. CASE MetaLine(p) \/ BlankLine(p) \/ CodeLine(p)
    <3>1. stdin'[p] = Tail(stdin[p]) /\ stdin[p] # <<>> /\ stdout' = stdout
              /\ stdin[p] \in Seq(Lines)
      BY <1>2, <2>1 DEF MetaLine, BlankLine, CodeLine, TakesLine
    <3>2. busy'[p] = busy[p] \/ busy'[p] = Executing \/ busy'[p] = stdin[p][1]
      <4>1. CASE MetaLine(p)
        BY <1>2, <3>1, <4>1 DEF MetaLine
      <4>2. CASE BlankLine(p) \/ CodeLine(p)
        <5>1. busy' = busy \/ busy' = [busy EXCEPT ![p] = Executing]
          BY <4>2 DEF BlankLine, CodeLine, ExecuteBuffer, Executing
        <5> QED
          BY <1>2, <5>1
      <4> QED
        BY <2>1, <4>1, <4>2
    <3>3. \A i \in 1 .. Len(Tail(stdin[p])) : i + 1 \in 1 .. Len(stdin[p])
                                              /\ Tail(stdin[p])[i] = stdin[p][i + 1]
      BY <3>1
    <3>4. 1 \in 1 .. Len(stdin[p])
      BY <3>1
    <3> QED
      BY <1>3, <1>5, <3>1, <3>2, <3>3, <3>4 DEF InPipe
  <2>2. CASE CodeDone(p)
    <3>1. busy'[p] = Idle /\ stdin' = stdin /\ stdout' = stdout
      BY <1>2, <2>2 DEF CodeDone, pipes
    <3> QED
      BY <1>3, <1>5, <3>1 DEF InPipe
  <2>3. CASE MetaDone(p)
    <3>1. busy'[p] = Idle /\ stdin' = stdin /\ stdout'[p] = Append(stdout[p], busy[p])
          /\ stdout[p] \in Seq(Asks)
      BY <1>2, <2>3 DEF MetaDone
    <3>2. \A i \in 1 .. Len(Append(stdout[p], busy[p])) :
             \/ Append(stdout[p], busy[p])[i] = busy[p]
             \/ i \in 1 .. Len(stdout[p]) /\ Append(stdout[p], busy[p])[i] = stdout[p][i]
      BY <3>1
    <3> QED
      BY <1>3, <1>5, <3>1, <3>2 DEF InPipe
  <2> QED
    BY <2>1, <2>2, <2>3
<1>6. ASSUME NEW q \in Engines, NEW line \in Asks, InPipe(q, line)' PROVE InPipe(q, line)
  BY <1>4, <1>5, <1>6 DEF InPipe
<1>7. \A q \in Engines : Asked(q)' = Asked(q)
  <2>1. Asked(p)' = Asked(p)
    BY <1>0, MetaAsked, CodeAsked
  <2>2. \A q \in Engines : q # p => Asked(q)' = Asked(q)
    BY <1>4 DEF Asked
  <2> QED
    BY <2>1, <2>2
<1>8. current # 0 => Asked(current)' = Asked(current)
  <2> SUFFICES ASSUME current # 0 PROVE Asked(current)' = Asked(current)
    OBVIOUS
  <2>1. PICK e \in Engines : e = current
    BY DEF Typed, HandleTypes
  <2>2. Asked(e)' = Asked(e) /\ e = current'
    BY <1>1, <1>7, <2>1
  <2> QED
    BY <2>1, <2>2
<1> QED
  BY <1>1, <1>6, <1>8, Unheard DEF Alive

\* The engine that is spawned has no request in its pipes, and the list is empty.
LEMMA StartAnswers ==
  ASSUME Reached, Typed, Once, Answers, Start, Typed' PROVE Answers'
<1>1. /\ current = 0 /\ UNCHANGED <<stdin, stdout, busy, pipe, call, queue, astray>>
      /\ current' = born + 1
  BY DEF Start, pipes, repl, bridges, history
<1>2. \A c \in Calls : ~Waiting(c)
  BY <1>1 DEF Answers, Pending
<1>3. queue = <<>>
  <2>1. queue \in Seq(Calls)
    BY DEF Typed, BridgeTypes
  <2>2. ~(1 \in 1 .. Len(queue))
    BY <1>2, <2>1 DEF Answers, Queued
  <2> QED
    BY <2>1, <2>2
<1>4. Addressed'
  BY <1>1, AddressedKeeps DEF Answers, Moved, Waiting, InPipe
<1>5. Pending' /\ Queued' /\ OwnAnswer'
  BY <1>1, <1>2 DEF Answers, Pending, Queued, OwnAnswer, Waiting
<1>6. Matching'
  <2>1. born + 1 \in Engines
    BY EditorSessionAssumption DEF Start, Reached, Types, Engines
  <2>2. PICK n \in Engines : n = born + 1
    BY <2>1
  <2>3. life[n] = "unborn"
    BY <2>2 DEF Reached, Types, Unborn
  <2>4. QuietAt(n)
    BY DEF Once
  <2>5. stdout[n] = <<>> /\ stdin[n] = <<>> /\ busy[n] = Idle /\ pipe[n] = "open"
    BY <2>3, <2>4 DEF QuietAt, Alive, Typed, PipeTypes
  <2>6. Held(n) = <<>>
    BY <2>5, IdleIs DEF Held
  <2>7. Asked(n) = (<<>> \o <<>>) \o <<>>
    BY <2>5, <2>6, AskedIs, OfKindOfNone DEF Shape
  <2>8. Asked(n) = <<>> /\ Len(<<>>) = 0
    BY <2>7
  <2>9. Asked(n)' = Asked(n)
    BY <1>1 DEF Asked
  <2>10. current' = n /\ pipe'[n] = "open" /\ queue' = <<>>
    BY <1>1, <1>3, <2>2, <2>5
  <2>11. Asked(current)' = <<>>
    BY <2>8, <2>9, <2>10
  <2> QED
    BY <2>8, <2>10, <2>11 DEF Matching
<1> QED
  BY <1>4, <1>5, <1>6 DEF Answers

LEMMA StopAnswers == ASSUME Typed, Answers, Stop PROVE Answers'
<1>1. DrainAll /\ current' = 0 /\ astray' = astray /\ UNCHANGED <<stdin, stdout, busy>>
  BY DEF Stop, pipes, repl, history
<1> QED
  BY <1>1, DrainKeeps DEF InPipe

LEMMA NoticedAnswers ==
  ASSUME Typed, Answers, NEW p \in Engines, NEW event, Noticed(p, event), ClearIfCurrent(p)
  PROVE  Answers'
<1>1. UNCHANGED <<life, pipe, stdin, stdout, busy, astray>>
  BY DEF Noticed, pipes, repl, history
<1>2. CASE p = current
  BY <1>1, <1>2, DrainKeeps DEF ClearIfCurrent, InPipe
<1>3. CASE p # current
  <2>1. UNCHANGED <<current, call, queue>>
    BY <1>3 DEF ClearIfCurrent, bridges
  <2> QED
    BY <1>1, <2>1, Unheard DEF InPipe, Asked, Alive
<1> QED
  BY <1>2, <1>3

LEMMA StdinErrorAnswers ==
  ASSUME Typed, Answers, NEW p \in Engines, StdinError(p) PROVE Answers'
<1>1. /\ UNCHANGED <<current, life, stdin, stdout, busy, astray>>
      /\ pipe' = [pipe EXCEPT ![p] = "closed"] /\ pipe \in [Engines -> {"open", "broken", "closed"}]
  BY DEF StdinError, processes, repl, history, Typed, PipeTypes
<1>2. CASE p = current
  BY <1>1, <1>2, DrainKeeps DEF StdinError, InPipe
<1>3. CASE p # current
  <2>1. UNCHANGED <<call, queue>>
    BY <1>3 DEF StdinError, bridges
  <2>2. current # 0 => pipe'[current] = pipe[current]
    BY <1>1, <1>3 DEF Typed, HandleTypes
  <2>3. pipe'[current] = pipe[current]' 
    BY <1>1
  <2> QED
    BY <1>1, <2>1, <2>2, Unheard DEF InPipe, Asked, Alive
<1> QED
  BY <1>2, <1>3

\* A device call that times out leaves its answer to come: from then on the
\* answers of that engine may go to another call.
LEMMA TimesOutAnswers ==
  ASSUME Typed, Answers, NEW c \in Calls, TimesOut(c)
  PROVE  Answers'
<1>1. /\ Waiting(c) /\ call' = [call EXCEPT ![c] = Failed] /\ call \in [Calls -> CallStates]
      /\ queue' = RemoveFirst(queue, c) /\ queue \in Seq(Calls)
      /\ astray' = IF call[c].kind = "device" THEN astray \union {call[c].to} ELSE astray
      /\ UNCHANGED <<current, pipe, life, stdin, stdout, busy>>
  BY DEF TimesOut, processes, pipes, repl, Typed, BridgeTypes
<1>2. Failed.pc = "failed"
  BY DEF Failed, Unsent
<1>3. /\ current # 0 /\ call[c].to = current /\ current \in Engines
  BY <1>1 DEF Answers, Pending, Typed, HandleTypes
<1>4. /\ call'[c] = Failed /\ \A d \in Calls : d # c => call'[d] = call[d]
  BY <1>1
<1>5. \A d \in Calls : Moved(d)
  BY <1>2, <1>4 DEF Moved, Waiting
<1>6. Addressed'
  BY <1>1, <1>5, AddressedKeeps DEF Answers, InPipe
<1>7. Pending'
  BY <1>1, <1>2, <1>3, <1>4 DEF Answers, Pending, Waiting
<1>8. astray \subseteq astray' /\ OwnAnswer'
  BY <1>1, <1>2, <1>4, OwnKeeps DEF Answers
<1> DEFINE rest == RemoveFirst(queue, c)
<1>9. Queued
  BY DEF Answers
<1>10. /\ rest \in Seq(Calls)
       /\ \A i \in 1 .. Len(rest) : rest[i] # c /\ \E j \in 1 .. Len(queue) : rest[i] = queue[j]
       /\ \A i, j \in 1 .. Len(rest) : rest[i] = rest[j] => i = j
       /\ (\A i \in 1 .. Len(queue) : queue[i] # c) => rest = queue
  <2>1. \A i, j \in 1 .. Len(queue) : queue[i] = queue[j] => i = j
    BY <1>9 DEF Queued
  <2> QED
    BY <1>1, <2>1, RemoveFirstKeeps
<1> HIDE DEF rest
<1>11. queue' = rest
  BY <1>1 DEF rest
<1>12. Queued'
  <2>1. ASSUME NEW i \in 1 .. Len(rest)
        PROVE  call'[rest[i]].pc = "waiting" /\ call'[rest[i]].kind = "device"
    <3>1. PICK j \in 1 .. Len(queue) : rest[i] = queue[j]
      BY <1>10
    <3>2. queue[j] \in Calls /\ queue[j] # c /\ Waiting(queue[j]) /\ call[queue[j]].kind = "device"
      BY <1>1, <1>9, <1>10, <3>1 DEF Queued
    <3> QED
      BY <1>4, <3>1, <3>2 DEF Waiting
  <2> QED
    BY <1>10, <1>11, <2>1 DEF Queued, Waiting
<1>13. Matching'
  <2>1. CASE call[c].kind = "device"
    BY <1>1, <1>3, <2>1 DEF Matching
  <2>2. CASE call[c].kind # "device"
    <3>1. \A i \in 1 .. Len(queue) : queue[i] # c
      BY <1>9, <2>2 DEF Queued
    <3>2. UNCHANGED <<queue, astray>>
      BY <1>1, <1>10, <1>11, <2>2, <3>1
    <3>3. Asked(current)' = Asked(current)
      BY <1>1 DEF Asked
    <3> QED
      BY <1>1, <3>2, <3>3 DEF Answers, Matching, Alive
  <2> QED
    BY <2>1, <2>2
<1> QED
  BY <1>6, <1>7, <1>8, <1>12, <1>13 DEF Answers

\* What Answered makes of a call that waits.
LEMMA AnsweredMoves ==
  ASSUME Typed, Answers, NEW c \in Calls, NEW line \in Asks, NEW p \in Engines,
         Waiting(c), p = current, Answered(c, line, p), astray' = astray,
         line.call = c \/ (call[c].kind = "device" /\ current \in astray)
  PROVE  /\ \A d \in Calls : Moved(d)
         /\ call'[c].pc = "answered" /\ \A d \in Calls : d # c => call'[d] = call[d]
         /\ OwnAnswer'
<1> DEFINE new == [call[c] EXCEPT !.pc = "answered", !.by = line.call, !.from = p]
<1>1. call \in [Calls -> CallStates] /\ call[c] \in CallStates /\ call[c].to = current
  BY DEF Typed, BridgeTypes, Answers, Pending
<1>2. /\ new.pc = "answered" /\ new.by = line.call /\ new.from = p
      /\ new.to = call[c].to /\ new.kind = call[c].kind
  BY <1>1 DEF CallStates
<1>3. call' = [call EXCEPT ![c] = new]
  BY DEF Answered
<1> HIDE DEF new
<1>4. call'[c] = new /\ \A d \in Calls : d # c => call'[d] = call[d]
  BY <1>1, <1>3
<1>5. \A d \in Calls : Moved(d)
  BY <1>2, <1>4 DEF Moved, Waiting
<1>6. OwnAnswer'
  <2> SUFFICES ASSUME NEW d \in Calls, call'[d].pc = "answered"
               PROVE  /\ call'[d].from = call'[d].to
                      /\ call'[d].by = d \/ (call'[d].kind = "device" /\ call'[d].to \in astray')
    BY DEF OwnAnswer
  <2>1. CASE d = c
    BY <1>1, <1>2, <1>4, <2>1
  <2>2. CASE d # c
    BY <1>4, <2>2 DEF Answers, OwnAnswer
  <2> QED
    BY <2>1, <2>2
<1> QED
  BY <1>2, <1>4, <1>5, <1>6

\* A cut answer leaves its call in the list; if it was a device's, the rest no longer match.
LEMMA StdoutCutAnswers ==
  ASSUME Typed, Answers, NEW p \in Engines, StdoutCut(p), Typed'
  PROVE  Answers'
<1>0. \A q \in Engines : Shape(q) /\ Shape(q)'
  BY AskedThen, AskedIs
<1> DEFINE line == Head(stdout[p])
<1>1. /\ stdout[p] # <<>> /\ stdout[p] \in Seq(Asks)
      /\ stdout' = [stdout EXCEPT ![p] = Tail(stdout[p])] /\ stdout \in [Engines -> Seq(Asks)]
      /\ UNCHANGED <<current, pipe, life, stdin, busy, call, queue>>
  BY DEF StdoutCut, processes, repl, bridges, Typed, PipeTypes
<1>2. astray' = IF line.kind = "device" THEN astray \union {p} ELSE astray
  BY DEF StdoutCut
<1>3. ASSUME NEW q \in Engines, NEW l \in Asks, InPipe(q, l)' PROVE InPipe(q, l)
  <2>1. CASE q = p
    <3>1. \A i \in 1 .. Len(Tail(stdout[p])) : i + 1 \in 1 .. Len(stdout[p])
                                               /\ Tail(stdout[p])[i] = stdout[p][i + 1]
      BY <1>1
    <3> QED
      BY <1>1, <1>3, <2>1, <3>1 DEF InPipe
  <2>2. CASE q # p
    BY <1>1, <1>3, <2>2 DEF InPipe
  <2> QED
    BY <2>1, <2>2
<1>4. line.kind # "device" => Asked(p)' = Asked(p)
  BY <1>0, HeardAsked
<1>5. \A q \in Engines : q # p => Asked(q)' = Asked(q)
  BY <1>1 DEF Asked
<1> HIDE DEF line
<1>6. \A c \in Calls : Moved(c)
  BY <1>1 DEF Moved, Waiting
<1>7. Addressed'
  BY <1>3, <1>6, AddressedKeeps DEF Answers
<1>8. Pending' /\ Queued' /\ OwnAnswer'
  BY <1>1, <1>2 DEF Answers, Pending, Queued, OwnAnswer, Waiting
<1>9. Matching'
  <2> SUFFICES ASSUME current # 0, current \notin astray' PROVE Matching'
    BY <1>1 DEF Matching
  <2>1. PICK q \in Engines : q = current
    BY DEF Typed, HandleTypes
  <2>2. current \notin astray /\ Asked(q)' = Asked(q)
    BY <1>2, <1>4, <1>5, <2>1
  <2>3. q = current' /\ Asked(current) = Asked(q) /\ Asked(current)' = Asked(q)'
    BY <1>1, <2>1
  <2> QED
    BY <1>1, <2>1, <2>2, <2>3 DEF Answers, Matching, Alive
<1> QED
  BY <1>7, <1>8, <1>9 DEF Answers

LEMMA StdoutLineAnswers ==
  ASSUME Typed, Answers, NEW p \in Engines, StdoutLine(p), Typed'
  PROVE  Answers'
<1>0. \A q \in Engines : Shape(q) /\ Shape(q)'
  BY AskedThen, AskedIs
<1> DEFINE line == Head(stdout[p])
<1>1. /\ stdout[p] # <<>> /\ stdout[p] \in Seq(Asks)
      /\ stdout' = [stdout EXCEPT ![p] = Tail(stdout[p])] /\ stdout \in [Engines -> Seq(Asks)]
      /\ UNCHANGED <<current, pipe, life, stdin, busy, astray>>
  BY DEF StdoutLine, processes, repl, history, Typed, PipeTypes
<1>2. line \in Asks /\ line = stdout[p][1] /\ 1 \in 1 .. Len(stdout[p])
  BY <1>1
<1>3. ASSUME NEW q \in Engines, NEW l \in Asks, InPipe(q, l)' PROVE InPipe(q, l)
  <2>1. CASE q = p
    <3>1. \A i \in 1 .. Len(Tail(stdout[p])) : i + 1 \in 1 .. Len(stdout[p])
                                               /\ Tail(stdout[p])[i] = stdout[p][i + 1]
      BY <1>1
    <3> QED
      BY <1>1, <1>3, <2>1, <3>1 DEF InPipe
  <2>2. CASE q # p
    BY <1>1, <1>3, <2>2 DEF InPipe
  <2> QED
    BY <2>1, <2>2
<1>4. Fits(line)
  BY <1>2 DEF Answers, Addressed, InPipe
<1>5. /\ line.kind # "device" => Asked(p)' = Asked(p)
      /\ line.kind = "device" => Same(Asked(p), <<line>> \o Asked(p)')
  BY <1>0, HeardAsked
<1>6. \A q \in Engines : q # p => Asked(q)' = Asked(q)
  BY <1>1 DEF Asked
<1>7. current \in Engines \union {0} /\ queue \in Seq(Calls)
  BY DEF Typed, HandleTypes, BridgeTypes
<1>8. \/ UNCHANGED <<call, queue>> /\ ~(HeardFrom(p) /\ HasTaker(line))
      \/ HeardFrom(p) /\ HasTaker(line) /\ Matched(line, p)
  BY DEF StdoutLine, bridges
<1> HIDE DEF line
\* Requests that are left, when the first was one, are one place further on.
<1>9. ASSUME line.kind = "device"
      PROVE  /\ Asked(p) \in Seq(Lines) /\ Len(Asked(p)) = Len(Asked(p)') + 1
             /\ Asked(p)[1] = line
             /\ \A i \in 1 .. Len(Asked(p)') : Asked(p)'[i] = Asked(p)[i + 1]
  <2>1. ASSUME NEW a \in Seq(Lines), NEW b \in Seq(Lines), a = <<line>> \o b
        PROVE  Len(a) = Len(b) + 1 /\ a[1] = line /\ \A i \in 1 .. Len(b) : b[i] = a[i + 1]
    BY <2>1
  <2> QED
    BY <1>0, <1>5, <1>9, <2>1 DEF Same, Shape
<1>10. CASE UNCHANGED <<call, queue>> /\ ~(HeardFrom(p) /\ HasTaker(line))
  <2>1. CASE current # p \/ line.kind # "device"
    BY <1>1, <1>3, <1>5, <1>6, <1>7, <1>10, <2>1, Unheard DEF Alive
  <2>2. CASE current = p /\ line.kind = "device"
    <3>1. queue = <<>>
      BY <1>10, <2>2 DEF HeardFrom, HasTaker
    <3>2. p \in astray \/ pipe[p] = "closed"
      BY <1>9, <2>2, <3>1, <1>0 DEF Answers, Matching, Shape, Engines
    <3>3. Matching'
      BY <1>1, <1>10, <2>2, <3>1, <3>2 DEF Matching
    <3>4. \A c \in Calls : Moved(c)
      BY <1>10 DEF Moved, Waiting
    <3>5. Addressed'
      BY <1>3, <3>4, AddressedKeeps DEF Answers
    <3>6. Pending' /\ Queued' /\ OwnAnswer'
      BY <1>1, <1>10 DEF Answers, Pending, Queued, OwnAnswer, Waiting
    <3> QED
      BY <3>3, <3>5, <3>6 DEF Answers
  <2> QED
    BY <2>1, <2>2
<1>11. ASSUME p = current, Matched(line, p), line.kind = "device" PROVE Answers'
  <2> DEFINE c == Head(queue)
  <2>1. queue # <<>> /\ Answered(c, line, p) /\ queue' = Tail(queue)
    BY <1>11 DEF Matched
  <2>2. c \in Calls /\ c = queue[1] /\ 1 \in 1 .. Len(queue)
    BY <1>7, <2>1
  <2>3. Waiting(c) /\ call[c].kind = "device"
    BY <2>2 DEF Answers, Queued
  <2>4. current \in astray \/ line.call = c
    BY <1>0, <1>9, <1>11, <2>1, <2>2 DEF Answers, Matching, Shape, Engines
  <2> HIDE DEF c
  <2>5. /\ \A d \in Calls : Moved(d)
        /\ call'[c].pc = "answered" /\ \A d \in Calls : d # c => call'[d] = call[d]
        /\ OwnAnswer'
    BY <1>1, <1>2, <1>11, <2>1, <2>2, <2>3, <2>4, AnsweredMoves
  <2>6. Addressed'
    BY <1>3, <2>5, AddressedKeeps DEF Answers
  <2>7. Pending'
    BY <1>1, <2>5 DEF Answers, Pending, Waiting
  <2>8. /\ queue' \in Seq(Calls) /\ Len(queue) = Len(queue') + 1 /\ Len(queue') \in Nat
        /\ \A i \in 1 .. Len(queue') : i \in Nat /\ i + 1 \in 1 .. Len(queue) /\ i + 1 # 1
                                       /\ queue'[i] = queue[i + 1]
    <3>1. Tail(queue) \in Seq(Calls) /\ Len(queue) = Len(Tail(queue)) + 1
          /\ \A i \in 1 .. Len(Tail(queue)) : Tail(queue)[i] = queue[i + 1]
      BY <1>7, <2>1
    <3> QED
      BY <2>1, <3>1
  <2>9. Queued'
    <3>1. Queued
      BY DEF Answers
    <3>2. ASSUME NEW i \in 1 .. Len(queue')
          PROVE  /\ queue'[i] \in Calls /\ queue'[i] # c
                 /\ Waiting(queue'[i]) /\ call[queue'[i]].kind = "device"
      BY <1>7, <2>2, <2>8, <3>1 DEF Queued
    <3>3. \A i \in 1 .. Len(queue') :
            call'[queue'[i]].pc = "waiting" /\ call'[queue'[i]].kind = "device"
      BY <2>5, <3>2 DEF Waiting
    <3>4. ASSUME NEW i \in 1 .. Len(queue'), NEW j \in 1 .. Len(queue'), queue'[i] = queue'[j]
          PROVE  i = j
      <4>1. i + 1 = j + 1
        BY <2>8, <3>1, <3>4 DEF Queued
      <4> QED
        BY <4>1
    <3> QED
      BY <3>3, <3>4 DEF Queued, Waiting
  <2>10. Matching'
    <3> SUFFICES ASSUME p \notin astray PROVE Matching'
      BY <1>1, <1>11 DEF Matching
    <3>1. /\ pipe[p] # "closed"
          /\ Len(Asked(p)) <= Len(queue)
          /\ Alive(p) => Len(Asked(p)) = Len(queue)
          /\ \A i \in 1 .. Len(Asked(p)) : Asked(p)[i].call = queue[i]
      BY <1>11, <2>1 DEF Answers, Matching, Engines
    <3>2. Len(Asked(p)') \in Nat /\ Len(Asked(p)) = Len(Asked(p)') + 1
      BY <1>0, <1>9, <1>11 DEF Shape
    <3>3. /\ Len(Asked(p)') <= Len(queue') /\ (Alive(p) => Len(Asked(p)') = Len(queue'))
      BY <2>8, <3>1, <3>2
    <3>4. ASSUME NEW i \in 1 .. Len(Asked(p)') PROVE Asked(p)'[i].call = queue'[i]
      <4>1. i + 1 \in 1 .. Len(Asked(p)) /\ Asked(p)'[i] = Asked(p)[i + 1] /\ i \in 1 .. Len(queue')
        BY <1>9, <1>11, <2>8, <3>2, <3>3
      <4> QED
        BY <2>8, <3>1, <4>1
    <3>5. p = current' /\ pipe'[p] # "closed" /\ Alive(p)' = Alive(p)
      BY <1>1, <1>11, <3>1 DEF Alive
    <3>6. Asked(current)' = Asked(p)'
      BY <3>5
    <3> QED
      BY <3>3, <3>4, <3>5, <3>6 DEF Matching
  <2> QED
    BY <2>5, <2>6, <2>7, <2>9, <2>10 DEF Answers
<1>12. ASSUME p = current, Matched(line, p), line.kind # "device" PROVE Answers'
  <2> DEFINE c == line.call
  <2>1. Waiting(c) /\ Answered(c, line, p) /\ queue' = queue /\ c \in Calls
    BY <1>2, <1>12 DEF Matched, Asks
  <2>2. call[c].kind # "device"
    BY <1>4, <1>12, <2>1 DEF Fits
  <2> HIDE DEF c
  <2>3. /\ \A d \in Calls : Moved(d)
        /\ call'[c].pc = "answered" /\ \A d \in Calls : d # c => call'[d] = call[d]
        /\ OwnAnswer'
    BY <1>1, <1>2, <1>12, <2>1, AnsweredMoves DEF c
  <2>4. Addressed'
    BY <1>3, <2>3, AddressedKeeps DEF Answers
  <2>5. Pending'
    BY <1>1, <2>3 DEF Answers, Pending, Waiting
  <2>6. Queued'
    BY <1>7, <2>1, <2>2, <2>3 DEF Answers, Queued, Waiting
  <2>7. Asked(current)' = Asked(current)
    BY <1>1, <1>5, <1>12
  <2>8. Matching'
    BY <1>1, <2>1, <2>7 DEF Answers, Matching, Alive
  <2> QED
    BY <2>3, <2>4, <2>5, <2>6, <2>8 DEF Answers
<1> QED
  BY <1>8, <1>10, <1>11, <1>12 DEF HeardFrom

\* What a write leaves in the pipes.
LEMMA WriteEffect ==
  ASSUME Typed, NEW p \in Engines, p = current, NEW lines \in Seq(Lines), WriteLines(lines)
  PROVE  /\ \A q \in Engines : q # p => stdin'[q] = stdin[q] /\ pipe'[q] = pipe[q]
         /\ stdout' = stdout
         /\ \/ Alive(p) /\ stdin'[p] = stdin[p] \o lines /\ pipe' = pipe
            \/ ~Alive(p) /\ stdin' = stdin /\ pipe'[p] = "broken"
<1>1. stdin \in [Engines -> Seq(Lines)] /\ pipe \in [Engines -> {"open", "broken", "closed"}]
  BY DEF Typed, PipeTypes
<1>2. CASE Alive(p)
  BY <1>1, <1>2 DEF WriteLines
<1>3. CASE ~Alive(p)
  BY <1>1, <1>3 DEF WriteLines
<1> QED
  BY <1>2, <1>3

\* Every request that is in a pipe after a write was there or was written.
LEMMA WritePipe ==
  ASSUME Typed, NEW p \in Engines, p = current, NEW lines \in Seq(Lines), WriteLines(lines),
         UNCHANGED busy, NEW q \in Engines, NEW line \in Asks, InPipe(q, line)'
  PROVE  InPipe(q, line) \/ \E i \in 1 .. Len(lines) : lines[i] = line
<1>1. /\ \A e \in Engines : e # p => stdin'[e] = stdin[e] /\ pipe'[e] = pipe[e]
      /\ stdout' = stdout
      /\ \/ Alive(p) /\ stdin'[p] = stdin[p] \o lines /\ pipe' = pipe
         \/ ~Alive(p) /\ stdin' = stdin /\ pipe'[p] = "broken"
  BY WriteEffect
<1>2. stdin[p] \in Seq(Lines)
  BY DEF Typed, PipeTypes
<1>3. CASE q = p /\ Alive(p)
  <2>1. \A i \in 1 .. Len(stdin[p] \o lines) :
           \/ i \in 1 .. Len(stdin[p]) /\ (stdin[p] \o lines)[i] = stdin[p][i]
           \/ i - Len(stdin[p]) \in 1 .. Len(lines)
              /\ (stdin[p] \o lines)[i] = lines[i - Len(stdin[p])]
    BY <1>2
  <2>2. stdin'[q] = stdin[p] \o lines /\ stdout'[q] = stdout[q] /\ busy'[q] = busy[q]
    BY <1>1, <1>3
  <2>3. CASE \E i \in 1 .. Len(stdin[p] \o lines) : (stdin[p] \o lines)[i] = line
    BY <1>3, <2>1, <2>3 DEF InPipe
  <2>4. CASE busy'[q] = line \/ \E i \in 1 .. Len(stdout'[q]) : stdout'[q][i] = line
    BY <2>2, <2>4 DEF InPipe
  <2>5. \/ \E i \in 1 .. Len(stdin[p] \o lines) : (stdin[p] \o lines)[i] = line
        \/ busy'[q] = line \/ \E i \in 1 .. Len(stdout'[q]) : stdout'[q][i] = line
    BY <2>2 DEF InPipe
  <2> QED
    BY <2>3, <2>4, <2>5
<1>4. CASE ~(q = p /\ Alive(p))
  BY <1>1, <1>4 DEF InPipe
<1> QED
  BY <1>3, <1>4

\* A write to a running engine adds its requests behind those it has.
LEMMA WriteAsked ==
  ASSUME Typed, NEW p \in Engines, NEW lines \in Seq(Lines), UNCHANGED <<busy, stdout>>,
         stdin'[p] = stdin[p] \o lines
  PROVE  Same(Asked(p)', Asked(p) \o OfKind(lines, Device))
<1> DEFINE front == OfKind(stdout[p], Device) \o OfKind(<<busy[p]>>, Device)
           I == OfKind(stdin[p], Device)
<1>1. Shape(p)
  BY AskedIs
<1>2. OfKind(<<busy[p]>>, Device) = Held(p)
  <2>1. busy[p] \in Asks \union {Idle, Executing}
    BY DEF Typed, ReplTypes
  <2> QED
    BY <2>1, OfKindOfOne DEF Held, Device
<1>3. ASSUME NEW a \in Seq(Lines), NEW b \in Seq(Lines) PROVE a \o b \in Seq(Lines)
  OBVIOUS
<1>4. front \in Seq(Lines)
  BY <1>1, <1>2, <1>3, Zenon DEF Shape
<1>5. stdin[p] \in Seq(Lines) /\ I \in Seq(Lines) /\ OfKind(lines, Device) \in Seq(Lines)
  BY OfKindType DEF Typed, PipeTypes
<1>6. Same(OfKind(stdin[p] \o lines, Device), I \o OfKind(lines, Device))
  BY <1>5, OfKindJoined, Zenon
<1>7. Asked(p) = front \o I /\ Asked(p)' = front \o OfKind(stdin[p] \o lines, Device)
  BY DEF Asked
<1> HIDE DEF front, I
<1>8. Same((front \o I) \o OfKind(lines, Device), front \o (I \o OfKind(lines, Device)))
  BY <1>4, <1>5, Associative, Zenon
<1> QED
  BY <1>6, <1>7, <1>8 DEF Same

LEMMA EvaluateAnswers ==
  ASSUME Typed, Answers, Once, NEW text \in Texts, Evaluate(text), Typed'
  PROVE  Answers'
<1> DEFINE lines == Sent(text)
<1>1. /\ WriteLines(lines) /\ current # 0 /\ pipe[current] # "closed"
      /\ UNCHANGED <<current, life, busy, call, queue, astray>>
  BY DEF Evaluate, Sent, Writable, processes, repl, bridges
<1>2. lines \in Seq(Lines)
  BY SentTyped
<1>3. \A i \in 1 .. Len(lines) : lines[i].kind \in LineKinds
  <2>1. text \in Seq(LineKinds)
    BY EditorSessionAssumption
  <2> QED
    BY <2>1 DEF Sent
<1>4. OfKind(lines, Device) = <<>>
  <2>1. \A i \in 1 .. Len(lines) : lines[i].kind \notin Device
    BY <1>3 DEF LineKinds, CodeKinds, Device
  <2> HIDE DEF lines
  <2> QED
    BY <1>2, <2>1, OfKindOthers
<1> HIDE DEF lines
<1>5. PICK p \in Engines : p = current
  BY <1>1 DEF Typed, HandleTypes
<1>6. /\ \A q \in Engines : q # p => stdin'[q] = stdin[q] /\ pipe'[q] = pipe[q]
      /\ stdout' = stdout
      /\ \/ Alive(p) /\ stdin'[p] = stdin[p] \o lines /\ pipe' = pipe
         \/ ~Alive(p) /\ stdin' = stdin /\ pipe'[p] = "broken"
  BY <1>1, <1>2, <1>5, WriteEffect
<1>7. ASSUME NEW q \in Engines, NEW line \in Asks, InPipe(q, line)' PROVE InPipe(q, line)
  <2>1. \A i \in 1 .. Len(lines) : lines[i] # line
    BY <1>3 DEF LineKinds, CodeKinds, Asks, Kinds
  <2> QED
    BY <1>1, <1>2, <1>5, <1>7, <2>1, WritePipe
<1>8. Asked(p)' = Asked(p)
  <2>1. CASE Alive(p)
    <3>1. Same(Asked(p)', Asked(p) \o <<>>)
      BY <1>1, <1>2, <1>4, <1>6, <2>1, WriteAsked
    <3>2. Asked(p) \in Seq(Lines)
      BY AskedIs DEF Shape
    <3>3. Same(Asked(p) \o <<>>, Asked(p))
      BY <3>2, Emptied, Zenon
    <3> QED
      BY <3>1, <3>3 DEF Same
  <2>2. CASE ~Alive(p)
    BY <1>1, <1>6, <2>2 DEF Asked
  <2> QED
    BY <2>1, <2>2
<1>9. /\ Asked(current)' = Asked(current)
          /\ (pipe'[current] = "closed" <=> pipe[current] = "closed")
      /\ (Alive(current)' => Alive(current))
  <2>1. p = current'
    BY <1>1, <1>5
  <2>2. pipe'[p] # "closed"
    BY <1>1, <1>5, <1>6
  <2> QED
    BY <1>1, <1>5, <1>8, <2>1, <2>2 DEF Alive
<1> QED
  BY <1>1, <1>7, <1>9, Unheard

LEMMA RefusedAnswers ==
  ASSUME Typed, Answers, NEW c \in Calls, NEW k \in Kinds, Send(c, k), ~Writable
  PROVE  Answers'
<1>1. /\ call[c].pc = "idle" /\ call' = [call EXCEPT ![c] = Failed]
          /\ call \in [Calls -> CallStates]
      /\ UNCHANGED <<current, life, queue, pipe, stdin, stdout, busy, astray>>
  BY DEF Send, processes, repl, pipes, history, Typed, BridgeTypes
<1>2. Failed.pc = "failed"
  BY DEF Failed, Unsent
<1>3. call'[c] = Failed /\ \A d \in Calls : d # c => call'[d] = call[d]
  BY <1>1
<1>4. \A d \in Calls : Moved(d)
  BY <1>1, <1>3 DEF Moved, Waiting
<1>5. Addressed'
  BY <1>1, <1>4, AddressedKeeps DEF Answers, InPipe
<1>6. Pending'
  BY <1>1, <1>2, <1>3 DEF Answers, Pending, Waiting
<1>7. Queued'
  <2>1. queue \in Seq(Calls)
    BY DEF Typed, BridgeTypes
  <2>2. \A i \in 1 .. Len(queue) : queue[i] \in Calls /\ queue[i] # c
    BY <1>1, <2>1 DEF Answers, Queued, Waiting
  <2> QED
    BY <1>1, <1>3, <2>2 DEF Answers, Queued, Waiting
<1>8. OwnAnswer'
  BY <1>1, <1>2, <1>3, OwnKeeps DEF Answers
<1>9. Matching'
  <2>1. Asked(current)' = Asked(current)
    BY <1>1 DEF Asked
  <2> QED
    BY <1>1, <2>1 DEF Answers, Matching, Alive
<1> QED
  BY <1>5, <1>6, <1>7, <1>8, <1>9 DEF Answers

LEMMA SendAnswers ==
  ASSUME Typed, Answers, Once, NEW c \in Calls, NEW k \in Kinds, Send(c, k), Writable, Typed'
  PROVE  Answers'
<1> DEFINE new == [Unsent EXCEPT !.pc = "waiting", !.kind = k, !.to = current]
           line == [kind |-> k, call |-> c]
<1>1. /\ call[c].pc = "idle" /\ call' = [call EXCEPT ![c] = new] /\ WriteLines(<<line>>)
      /\ queue' = (IF k = "device" THEN Append(queue, c) ELSE queue)
      /\ current # 0 /\ pipe[current] # "closed"
      /\ UNCHANGED <<current, life, busy, astray>>
  BY DEF Send, Writable, processes, repl, history
<1>2. new.pc = "waiting" /\ new.kind = k /\ new.to = current
  BY DEF Unsent
<1>3. line \in Asks /\ line.kind = k /\ line.call = c /\ line \in Lines
  BY DEF Asks, Lines
<1> HIDE DEF new, line
<1>4. <<line>> \in Seq(Lines) /\ Len(<<line>>) = 1 /\ <<line>>[1] = line
  BY <1>3
<1>5. call \in [Calls -> CallStates] /\ queue \in Seq(Calls)
  BY DEF Typed, BridgeTypes
<1>6. call'[c] = new /\ \A d \in Calls : d # c => call'[d] = call[d]
  BY <1>1, <1>5
<1>7. \A d \in Calls : Moved(d)
  BY <1>1, <1>6 DEF Moved, Waiting
<1>8. PICK p \in Engines : p = current
  BY <1>1 DEF Typed, HandleTypes
<1>9. Addressed'
  <2>1. Fits(line)'
    BY <1>2, <1>3, <1>6 DEF Fits, Waiting
  <2>2. ASSUME NEW q \in Engines, NEW l \in Asks, InPipe(q, l)' PROVE InPipe(q, l) \/ l = line
    <3>1. PICK one \in Seq(Lines) : one = <<line>>
      BY <1>4
    <3>2. WriteLines(one)
      BY <1>1, <3>1
    <3>3. InPipe(q, l) \/ \E i \in 1 .. Len(one) : one[i] = l
      BY <1>1, <1>8, <2>2, <3>2, WritePipe
    <3>4. \A i \in 1 .. Len(one) : one[i] = line
      BY <3>1
    <3> QED
      BY <3>3, <3>4
  <2> QED
    BY <1>7, <2>1, <2>2, AddressedKeeps DEF Answers
<1>10. Pending'
  BY <1>1, <1>2, <1>6 DEF Answers, Pending, Waiting
<1>11. OwnAnswer'
  BY <1>1, <1>2, <1>6, OwnKeeps DEF Answers
<1>12. \A i \in 1 .. Len(queue) : queue[i] \in Calls /\ queue[i] # c
  BY <1>1, <1>5 DEF Answers, Queued, Waiting
<1>13. /\ queue' \in Seq(Calls) /\ Len(queue) \in Nat
       /\ k = "device" => Len(queue') = Len(queue) + 1 /\ queue'[Len(queue) + 1] = c
       /\ k # "device" => queue' = queue
       /\ \A i \in 1 .. Len(queue) : queue'[i] = queue[i]
  BY <1>1, <1>5
<1>14. Queued'
  <2>1. Queued
    BY DEF Answers
  <2>2. ASSUME NEW i \in 1 .. Len(queue')
        PROVE  \/ i \in 1 .. Len(queue) /\ queue'[i] = queue[i] /\ queue'[i] # c
               \/ i = Len(queue) + 1 /\ queue'[i] = c /\ k = "device"
    BY <1>12, <1>13
  <2>3. \A i \in 1 .. Len(queue') : call'[queue'[i]].pc = "waiting"
            /\ call'[queue'[i]].kind = "device"
    BY <1>2, <1>6, <1>12, <2>1, <2>2 DEF Queued, Waiting
  <2>4. \A i, j \in 1 .. Len(queue') : queue'[i] = queue'[j] => i = j
    BY <2>1, <2>2 DEF Queued
  <2> QED
    BY <2>3, <2>4 DEF Queued, Waiting
<1>15. Matching'
  <2> SUFFICES ASSUME p \notin astray PROVE Matching'
    BY <1>1, <1>8 DEF Matching
  <2>1. /\ Len(Asked(p)) <= Len(queue)
        /\ Alive(p) => Len(Asked(p)) = Len(queue)
        /\ \A i \in 1 .. Len(Asked(p)) : Asked(p)[i].call = queue[i]
    BY <1>1, <1>8 DEF Answers, Matching
  <2>2. /\ stdout' = stdout
        /\ \/ Alive(p) /\ stdin'[p] = stdin[p] \o <<line>> /\ pipe' = pipe
           \/ ~Alive(p) /\ stdin' = stdin /\ pipe'[p] = "broken"
    BY <1>1, <1>4, <1>8, WriteEffect
  <2>3. p = current' /\ pipe'[p] # "closed" /\ Alive(p)' = Alive(p)
    BY <1>1, <1>8, <2>2 DEF Alive
  <2>4. Asked(p) \in Seq(Lines) /\ Len(Asked(p)) \in Nat
    BY AskedIs DEF Shape
  <2>5. /\ Len(Asked(p)') <= Len(queue')
        /\ Alive(p) => Len(Asked(p)') = Len(queue')
        /\ \A i \in 1 .. Len(Asked(p)') : Asked(p)'[i].call = queue'[i]
    <3>1. CASE ~Alive(p)
      <4>1. Asked(p)' = Asked(p)
        BY <1>1, <2>2, <3>1 DEF Asked
      <4> QED
        BY <1>13, <2>1, <2>4, <3>1, <4>1
    <3>2. CASE Alive(p)
      <4>1. Same(Asked(p)', Asked(p) \o OfKind(<<line>>, Device))
        BY <1>1, <1>4, <2>2, <3>2, WriteAsked
      <4>2. OfKind(<<line>>, Device) = IF k = "device" THEN <<line>> ELSE <<>>
        BY <1>3, OfKindOfOne DEF Device
      <4>3. CASE k = "device"
        <5>1. ASSUME NEW a \in Seq(Lines)
              PROVE  /\ Len(a \o <<line>>) = Len(a) + 1 /\ (a \o <<line>>)[Len(a) + 1] = line
                     /\ \A i \in 1 .. Len(a) : (a \o <<line>>)[i] = a[i]
          BY <1>3
        <5>2. /\ Len(Asked(p)') = Len(Asked(p)) + 1 /\ Asked(p)'[Len(Asked(p)) + 1] = line
              /\ \A i \in 1 .. Len(Asked(p)) : Asked(p)'[i] = Asked(p)[i]
          BY <2>4, <4>1, <4>2, <4>3, <5>1 DEF Same
        <5>3. \A i \in 1 .. Len(Asked(p)) + 1 : i \in 1 .. Len(Asked(p)) \/ i = Len(Asked(p)) + 1
          BY <2>4
        <5> QED
          BY <1>3, <1>13, <2>1, <2>4, <3>2, <4>3, <5>2, <5>3
      <4>4. CASE k # "device"
        <5>1. Same(Asked(p) \o <<>>, Asked(p))
          BY <2>4, Emptied, Zenon
        <5>2. Asked(p)' = Asked(p)
          BY <4>1, <4>2, <4>4, <5>1 DEF Same
        <5> QED
          BY <1>13, <2>1, <4>4, <5>2
      <4> QED
        BY <4>3, <4>4
    <3> QED
      BY <3>1, <3>2
  <2>6. Asked(current)' = Asked(p)'
    BY <2>3
  <2> QED
    BY <2>3, <2>5, <2>6 DEF Matching
<1> QED
  BY <1>9, <1>10, <1>11, <1>14, <1>15 DEF Answers

LEMMA StepAnswers ==
  ASSUME Reached, Typed, Once, Answers, Typed', [Next]_vars
  PROVE  Answers'
<1>1. CASE Start
  BY <1>1, StartAnswers
<1>2. CASE Stop
  BY <1>2, StopAnswers
<1>3. ASSUME NEW p \in Engines, Repl(p) PROVE Answers'
  BY <1>3, DieAnswers, ReplAnswers DEF Repl, Exits
<1>4. ASSUME NEW p \in Engines, Events(p) PROVE Answers'
  <2>1. CASE KillTimer(p)
    <3>1. CASE NotExited(p)
      BY <2>1, <3>1, DieAnswers DEF KillTimer, NotExited
    <3>2. CASE ~NotExited(p)
      BY <2>1, <3>2, Unheard DEF KillTimer, pipes, repl, bridges, history, InPipe, Asked, Alive
    <3> QED
      BY <3>1, <3>2
  <2>2. CASE ExitEvent(p) \/ ErrorEvent(p)
    BY <2>2, NoticedAnswers DEF ExitEvent, ErrorEvent
  <2>3. CASE StdinError(p)
    BY <2>3, StdinErrorAnswers
  <2>4. CASE StdoutLine(p) \/ StdoutCut(p)
    BY <2>4, StdoutLineAnswers, StdoutCutAnswers
  <2> QED
    BY <1>4, <2>1, <2>2, <2>3, <2>4 DEF Events
<1>5. CASE \E t \in Texts : Evaluate(t)
  BY <1>5, EvaluateAnswers
<1>6. CASE \E c \in Calls : TimesOut(c)
  BY <1>6, TimesOutAnswers
<1>7. CASE \E c \in Calls : \E k \in Kinds : Send(c, k)
  BY <1>7, SendAnswers, RefusedAnswers
<1>8. CASE UNCHANGED vars
  BY <1>8, Unheard DEF vars, processes, pipes, repl, bridges, history, InPipe, Asked, Alive
<1> QED
  BY <1>1, <1>2, <1>3, <1>4, <1>5, <1>6, <1>7, <1>8 DEF Next

LEMMA InitAnswers == ASSUME Init PROVE Answers
<1>1. /\ \A c \in Calls : call[c] = Unsent /\ Unsent.pc = "idle"
      /\ queue = <<>> /\ current = 0 /\ astray = {}
      /\ \A p \in Engines : stdin[p] = <<>> /\ stdout[p] = <<>> /\ busy[p] = Idle
  BY DEF Init, Unsent
<1>2. \A line \in Asks : line # Idle
  BY DEF Asks, Kinds, Idle
<1>3. Addressed
  BY <1>1, <1>2 DEF Addressed, InPipe
<1>4. Pending /\ Queued /\ Matching /\ OwnAnswer
  BY <1>1 DEF Pending, Queued, Matching, OwnAnswer, Waiting
<1> QED
  BY <1>3, <1>4 DEF Answers

\* The inductive invariant.
IInv == Reached /\ Typed /\ Once /\ Answers

LEMMA Invariant == Spec => []IInv
<1>1. Init => IInv
  BY InitReached, InitTyped, InitOnce, InitAnswers DEF IInv
<1>2. IInv /\ [Next]_vars => IInv'
  <2> SUFFICES ASSUME IInv, [Next]_vars PROVE IInv'
    OBVIOUS
  <2>1. Reached /\ Typed /\ Once /\ Answers
    BY DEF IInv
  <2>2. Reached' /\ Typed' /\ Once'
    BY <2>1, StepReached, StepTyped, StepOnce
  <2>3. Answers'
    BY <2>1, <2>2, StepAnswers
  <2> QED
    BY <2>2, <2>3 DEF IInv
<1> QED
  BY <1>1, <1>2, PTL DEF Spec

\* Whatever order the exit, error and EPIPE events of engines come in, an
\* engine that runs is the one stopEngine can reach, or was told to stop.
THEOREM EveryEngineReached == Spec => []NoStray
<1>1. IInv => NoStray
  BY DEF IInv, Reached
<1> QED
  BY <1>1, Invariant, PTL

\* No line of code that a running engine was sent is lost, doubled or carried
\* out of its turn by the REPL's queue and its buffer.
THEOREM EveryLineOnce == Spec => []LinesOnce
<1>1. IInv => LinesOnce
  BY DEF IInv, Once, OnceAt, LinesOnce
<1> QED
  BY <1>1, Invariant, PTL

\* The answer a call gets is its own, from the engine it was sent to; only a
\* device call may get another's, once one has given up on that engine or an
\* answer of that engine's to one was cut in two.
THEOREM AnswersMatch == Spec => []OwnAnswer
<1>1. IInv => OwnAnswer
  BY DEF IInv, Answers
<1> QED
  BY <1>1, Invariant, PTL

\* Every variable keeps its type.
THEOREM TypeCorrect == Spec => []TypeOK
<1>1. IInv => TypeOK
  <2> SUFFICES ASSUME Typed, astray \subseteq Engines PROVE TypeOK
    BY DEF IInv, Answers, Pending
  <2>1. \A p \in Engines : busy[p].kind \in Kinds \union {"idle", "code"}
    <3>1. \A p \in Engines : busy[p] \in Asks \union {Idle, Executing}
      BY DEF Typed, ReplTypes
    <3> QED
      BY <3>1, IdleIs DEF Asks
  <2>2. \A c \in Calls : call[c].pc \in {"idle", "waiting", "answered", "failed"}
    BY DEF Typed, BridgeTypes, CallStates
  <2> QED
    BY <2>1, <2>2 DEF Typed, HandleTypes, PipeTypes, ReplTypes, BridgeTypes, HistoryTypes, TypeOK
<1> QED
  BY <1>1, Invariant, PTL

=============================================================================
