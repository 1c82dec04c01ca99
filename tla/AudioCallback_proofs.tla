--------------------------- MODULE AudioCallback_proofs ---------------------------
(***************************************************************************)
(* Proofs about the two halves of what the daemon does in its audio        *)
(* callback: InstrumentEvents, the way of the events to an instrument in   *)
(* another process, and MixerGraph, the way of the signal to the device.   *)
(*                                                                         *)
(* InstrumentEvents, for any set of notes, any number of slots, blocks and *)
(* deaths, and any size of window, backlog and spill queue.  EInv is the   *)
(* shape of the path: Typed, Places for the positions of host and child,   *)
(* Tags and Reader for what the drain may conclude from a tag, and         *)
(* Divided: there is a way to cut what was accepted into the notes the     *)
(* plugin got, one piece for each window it has still to take, and the     *)
(* backlog.  Others is the rest of TypeOK; Process folds over a window,    *)
(* and that a fold keeps a property is proved by induction over it.        *)
(* Quelled follows a released note until the plugin has released it, and   *)
(* Follows a counted voice until its end is read or all are forgotten.     *)
(*                                                                         *)
(* MixerGraph, for any number of inserts, sums and auxes, calls and loads. *)
(* Mixer has Controls and Signal, the shape of the sessions' and of the    *)
(* callback's half, and Conserved: what hw has of a source and what the    *)
(* stages still to come will deliver of it are together what the graph     *)
(* owes, at every turn of the loop.  It rests on Passed, that a turn       *)
(* changes nothing about that sum, and on lemmas about sums.               *)
(***************************************************************************)
EXTENDS InstrumentEvents, MixerGraph,
        FiniteSetTheorems, SequenceTheorems, WellFoundedInduction, TLAPS

(***************************************************************************)
(* Induction, and the operators on lists.                                  *)
(***************************************************************************)

LEMMA Least ==
  ASSUME NEW T, T \subseteq Nat, T # {}
  PROVE  \E m \in T : \A k \in T : m <= k
<1>1. \E x \in T : \A y \in T : ~(<<y, x>> \in OpToRel(<, Nat))
  BY WFMin, NatLessThanWellFounded, Zenon
<1>2. PICK x \in T : \A y \in T : ~(<<y, x>> \in OpToRel(<, Nat))
  BY <1>1
<1>3. \A y \in T : ~(y < x)
  BY <1>2, Zenon DEF OpToRel
<1> QED
  BY <1>3

LEMMA ByInduction ==
  ASSUME NEW S, 0 \in S, \A n \in Nat : n \in S => n + 1 \in S
  PROVE  Nat \subseteq S
<1> DEFINE T == Nat \ S
<1> SUFFICES ASSUME T # {} PROVE FALSE
  OBVIOUS
<1>1. PICK m \in T : \A k \in T : m <= k
  BY Least
<1>2. m # 0 /\ m - 1 \in Nat /\ ~(m <= m - 1)
  BY <1>1
<1>3. m - 1 \in S
  BY <1>1, <1>2
<1> QED
  BY <1>1, <1>2, <1>3

\* f[i] is what is left of the first i events without chokes.
Unchoked(f, window, n) ==
    /\ f[0] = <<>>
    /\ \A i \in 1 .. n :
         f[i] = IF window[i] # Choke THEN Append(f[i - 1], window[i]) ELSE f[i - 1]

LEMMA UnchokedIsUnique ==
  ASSUME NEW window, NEW f, NEW g, NEW m \in Nat,
         Unchoked(f, window, m), Unchoked(g, window, m)
  PROVE  \A i \in 0 .. m : f[i] = g[i]
<1> DEFINE S == {i \in Nat : i <= m => f[i] = g[i]}
<1>1. 0 \in S
  BY DEF Unchoked
<1>2. ASSUME NEW i \in Nat, i \in S PROVE i + 1 \in S
  <2> SUFFICES ASSUME i + 1 <= m PROVE f[i + 1] = g[i + 1]
    OBVIOUS
  <2>1. i + 1 \in 1 .. m /\ (i + 1) - 1 = i /\ f[i] = g[i]
    BY <1>2
  <2> QED
    BY <2>1 DEF Unchoked
<1> HIDE DEF S
<1>3. Nat \subseteq S
  BY <1>1, <1>2, ByInduction
<1> QED
  BY <1>3 DEF S

\* NotesOf is the last value of any such function.
LEMMA NotesOfIs ==
  ASSUME NEW X, NEW window \in Seq(X), NEW f \in [0 .. Len(window) -> Seq(X)],
         Unchoked(f, window, Len(window))
  PROVE  NotesOf(window) = f[Len(window)]
<1> DEFINE n == Len(window)
           Rec(g) == [i \in 0 .. n |-> IF i = 0 THEN <<>>
                        ELSE IF window[i] # Choke THEN Append(g[i - 1], window[i])
                        ELSE g[i - 1]]
           upTo == CHOOSE g : g = Rec(g)
<1>0. n \in Nat
  OBVIOUS
<1>2. f = Rec(f)
  <2>1. ASSUME NEW i \in 0 .. n PROVE f[i] = Rec(f)[i]
    <3>1. CASE i = 0
      BY <3>1 DEF Unchoked
    <3>2. CASE i # 0
      <4>1. i \in 1 .. n
        BY <3>2
      <4> QED
        BY <4>1 DEF Unchoked
    <3> QED
      BY <3>1, <3>2
  <2>2. DOMAIN f = 0 .. n
    OBVIOUS
  <2> QED
    BY <2>1, <2>2
<1>3. upTo = Rec(upTo)
  BY <1>2
<1>4. Unchoked(upTo, window, n)
  <2> HIDE DEF upTo
  <2>1. upTo[0] = <<>>
    BY <1>3
  <2>2. ASSUME NEW i \in 1 .. n
        PROVE  upTo[i] = IF window[i] # Choke THEN Append(upTo[i - 1], window[i]) ELSE upTo[i - 1]
    <3>1. upTo[i] = Rec(upTo)[i]
      BY <1>3
    <3> QED
      BY <3>1
  <2> QED
    BY <2>1, <2>2 DEF Unchoked
<1>5. NotesOf(window) = upTo[n]
  BY DEF NotesOf
<1> HIDE DEF upTo
<1> QED
  BY <1>0, <1>4, <1>5, UnchokedIsUnique

\* No event that is queued is a choke.
LEMMA EventsAreNotes == \A e \in Events : e # Choke
BY DEF Events, On, Off, Choke

LEMMA NotesOfNotes ==
  ASSUME NEW q \in Seq(Events)
  PROVE  NotesOf(q) = q
<1> DEFINE f == [i \in 0 .. Len(q) |-> SubSeq(q, 1, i)]
<1>1. f \in [0 .. Len(q) -> Seq(Events)]
  OBVIOUS
<1>2. Unchoked(f, q, Len(q))
  <2>1. f[0] = <<>>
    OBVIOUS
  <2>2. ASSUME NEW i \in 1 .. Len(q)
        PROVE  f[i] = IF q[i] # Choke THEN Append(f[i - 1], q[i]) ELSE f[i - 1]
    <3>1. q[i] # Choke
      BY EventsAreNotes
    <3>2. SubSeq(q, 1, i) = Append(SubSeq(q, 1, i - 1), q[i])
      OBVIOUS
    <3>3. i \in 0 .. Len(q) /\ i - 1 \in 0 .. Len(q)
      OBVIOUS
    <3> QED
      BY <3>1, <3>2, <3>3
  <2> HIDE DEF f
  <2> QED
    BY <2>1, <2>2 DEF Unchoked
<1>3. f[Len(q)] = q
  OBVIOUS
<1> HIDE DEF f
<1> QED
  BY <1>1, <1>2, <1>3, NotesOfIs

LEMMA NotesOfChoked ==
  ASSUME NEW q \in Seq(Events)
  PROVE  NotesOf(<<Choke>> \o q) = q
<1> DEFINE w == <<Choke>> \o q
           X == Events \union {Choke}
           f == [i \in 0 .. Len(w) |-> IF i = 0 THEN <<>> ELSE SubSeq(q, 1, i - 1)]
<1>0. q \in Seq(X) /\ <<Choke>> \in Seq(X) /\ w \in Seq(X) /\ Len(w) = Len(q) + 1
  OBVIOUS
<1>a. w[1] = Choke /\ \A i \in 1 .. Len(q) : w[i + 1] = q[i]
  OBVIOUS
<1> HIDE DEF w, X
<1>1. f \in [0 .. Len(w) -> Seq(X)]
  BY <1>0
<1>2. Unchoked(f, w, Len(w))
  <2>1. f[0] = <<>>
    BY <1>0
  <2>2. ASSUME NEW i \in 1 .. Len(w)
        PROVE  f[i] = IF w[i] # Choke THEN Append(f[i - 1], w[i]) ELSE f[i - 1]
    <3>3. i \in 0 .. Len(w) /\ i - 1 \in 0 .. Len(w)
      BY <1>0
    <3>4. CASE i = 1
      <4>1. f[1] = SubSeq(q, 1, 0) /\ f[0] = <<>>
        BY <3>4, <3>3
      <4>2. SubSeq(q, 1, 0) = <<>>
        OBVIOUS
      <4> QED
        BY <3>4, <4>1, <4>2, <1>a
    <3>5. CASE i # 1
      <4>1. i - 1 \in 1 .. Len(q) /\ (i - 1) + 1 = i /\ i - 1 # 0 /\ i # 0
        BY <3>5, <1>0
      <4>2. w[i] = q[i - 1]
        BY <4>1, <1>a
      <4>4. w[i] # Choke
        BY <4>1, <4>2, EventsAreNotes
      <4>5. SubSeq(q, 1, i - 1) = Append(SubSeq(q, 1, (i - 1) - 1), q[i - 1])
        BY <4>1
      <4>6. f[i] = SubSeq(q, 1, i - 1) /\ f[i - 1] = SubSeq(q, 1, (i - 1) - 1)
        BY <4>1, <3>3
      <4> QED
        BY <4>2, <4>4, <4>5, <4>6
    <3> QED
      BY <3>4, <3>5
  <2> HIDE DEF f
  <2> QED
    BY <2>1, <2>2 DEF Unchoked
<1>3. f[Len(w)] = q
  BY <1>0
<1> HIDE DEF f
<1> QED
  BY <1>0, <1>1, <1>2, <1>3, NotesOfIs DEF w

(***************************************************************************)
(* Slot numbers, and what First leaves.                                    *)
(***************************************************************************)

LEMMA Bounds ==
  Slots \in Nat /\ Slots >= 1 /\ Window \in Nat /\ Window >= 1 /\ Backlog \in Nat
    /\ MaxBlocks \in Nat /\ Spill \in Nat /\ MaxDeaths \in Nat /\ IsFiniteSet(Notes)
  BY EventsAssumption

LEMMA SlotType == ASSUME NEW s \in Nat PROVE slot_index(s) \in 0 .. Slots - 1
  BY Bounds DEF slot_index

\* A number is a multiple of Slots plus its slot.
LEMMA Division ==
  ASSUME NEW s \in Nat
  PROVE  s \div Slots \in Int /\ s = Slots * (s \div Slots) + (s % Slots)
  BY Bounds

\* Two blocks of one slot are Slots or more apart.
LEMMA SameSlot ==
  ASSUME NEW s \in Nat, NEW t \in Nat, s < t, slot_index(s) = slot_index(t)
  PROVE  t >= s + Slots
<1> DEFINE x == s \div Slots
           y == t \div Slots
<1>1. x \in Int /\ y \in Int /\ s = Slots * x + slot_index(s) /\ t = Slots * y + slot_index(t)
  BY Division DEF slot_index
<1>2. SUFFICES ASSUME t < s + Slots PROVE FALSE
  BY Bounds
<1> HIDE DEF x, y
<1>3. slot_index(s) \in Int /\ Slots \in Nat /\ Slots >= 1
  BY SlotType, Bounds
<1>4. Slots * x < Slots * y /\ Slots * y < Slots * x + Slots
  BY <1>1, <1>2, <1>3
<1>5. x < y /\ y < x + 1
  <2>1. CASE y <= x
    BY <2>1, <1>1, <1>3, <1>4
  <2>2. CASE y >= x + 1
    BY <2>2, <1>1, <1>3, <1>4
  <2> QED
    BY <2>1, <2>2, <1>1
<1> QED
  BY <1>1, <1>5

\* First takes the front of a list and leaves the rest of it.
LEMMA FirstIs ==
  ASSUME NEW X, NEW q \in Seq(X), NEW n \in Nat
  PROVE  /\ First(q, n) \in Seq(X) /\ Len(First(q, n)) <= n /\ Len(First(q, n)) <= Len(q)
         /\ First(q, n) = SubSeq(q, 1, Len(First(q, n)))
         /\ Len(q) <= n => First(q, n) = q
         /\ Len(q) > n => Len(First(q, n)) = n
BY DEF First

LEMMA RestType ==
  ASSUME NEW X, NEW q \in Seq(X), NEW n \in Nat
  PROVE  SubSeq(q, n + 1, Len(q)) \in Seq(X)
OBVIOUS

LEMMA Concatenated ==
  ASSUME NEW X, NEW q \in Seq(X), NEW m \in Nat, NEW n \in Nat, m <= n, n <= Len(q)
  PROVE  SubSeq(q, 1, m) \o SubSeq(q, m + 1, n) = SubSeq(q, 1, n)
OBVIOUS

LEMMA BehindOne ==
  ASSUME NEW X, NEW e \in X, NEW q \in Seq(X), NEW n \in Nat, n <= Len(q)
  PROVE  SubSeq(<<e>> \o q, 1, n + 1) = <<e>> \o SubSeq(q, 1, n)
<1> DEFINE all == <<e>> \o q
           a == SubSeq(all, 1, n + 1)
           c == SubSeq(q, 1, n)
           b == <<e>> \o c
<1>0. Len(q) \in Nat /\ all \in Seq(X) /\ Len(all) = Len(q) + 1 /\ all[1] = e
        /\ \A i \in 2 .. Len(all) : all[i] = q[i - 1]
  OBVIOUS
<1>1. c \in Seq(X) /\ Len(c) = n /\ \A i \in 1 .. n : c[i] = q[i]
  OBVIOUS
<1> HIDE DEF c, all
<1>2. b \in Seq(X) /\ Len(b) = n + 1 /\ b[1] = e /\ \A i \in 2 .. n + 1 : b[i] = c[i - 1]
  BY <1>1
<1>3. a \in Seq(X) /\ Len(a) = n + 1 /\ \A i \in 1 .. n + 1 : a[i] = all[i]
  BY <1>0
<1> HIDE DEF a, b
<1>4. ASSUME NEW i \in 1 .. Len(a) PROVE a[i] = b[i]
  <2>1. CASE i = 1
    BY <2>1, <1>0, <1>2, <1>3
  <2>2. CASE i # 1
    <3>1. i \in 2 .. n + 1 /\ i \in 2 .. Len(all) /\ i - 1 \in 1 .. n /\ i \in 1 .. n + 1
      BY <2>2, <1>0, <1>3
    <3> QED
      BY <3>1, <1>0, <1>1, <1>2, <1>3
  <2> QED
    BY <2>1, <2>2
<1>6. a = b
  BY <1>2, <1>3, <1>4, SeqEqual
<1> QED
  BY <1>6 DEF a, b, c, all

LEMMA Halves ==
  ASSUME NEW X, NEW q \in Seq(X), NEW m \in Nat, m <= Len(q)
  PROVE  q = SubSeq(q, 1, m) \o SubSeq(q, m + 1, Len(q))
<1>1. Len(q) \in Nat /\ Len(q) <= Len(q) /\ SubSeq(q, 1, Len(q)) = q
  OBVIOUS
<1> QED
  BY <1>1, Concatenated

LEMMA FrontOfFront ==
  ASSUME NEW X, NEW p \in Seq(X), NEW q \in Seq(X), NEW n \in Nat, Len(p) <= n,
         n <= Len(p \o q)
  PROVE  SubSeq(SubSeq(p \o q, 1, n), 1, Len(p)) = p
<1> DEFINE a == SubSeq(p \o q, 1, n)
           b == SubSeq(a, 1, Len(p))
<1>1. p \o q \in Seq(X) /\ Len(p) \in Nat /\ \A i \in 1 .. Len(p) : (p \o q)[i] = p[i]
  OBVIOUS
<1>2. a \in Seq(X) /\ Len(a) = n /\ \A i \in 1 .. n : a[i] = (p \o q)[i]
  BY <1>1
<1> HIDE DEF a
<1>3. b \in Seq(X) /\ Len(b) = Len(p) /\ \A i \in 1 .. Len(p) : b[i] = a[i]
  BY <1>1, <1>2
<1> HIDE DEF b
<1>4. \A i \in 1 .. Len(b) : b[i] = p[i]
  BY <1>1, <1>2, <1>3
<1>5. b = p
  BY <1>1, <1>3, <1>4, SeqEqual
<1> QED
  BY <1>5 DEF a, b

\* A part of the front of a longer list.
LEMMA Longer ==
  ASSUME NEW X, NEW p \in Seq(X), NEW q \in Seq(X), NEW m \in Nat, NEW n \in Nat, n <= Len(p)
  PROVE  SubSeq(p \o q, m + 1, n) = SubSeq(p, m + 1, n)
OBVIOUS

LEMMA Rest ==
  ASSUME NEW X, NEW p \in Seq(X), NEW q \in Seq(X), NEW m \in Nat, m <= Len(p)
  PROVE  SubSeq(p \o q, m + 1, Len(p \o q)) = SubSeq(p, m + 1, Len(p)) \o q
<1> DEFINE a == SubSeq(p \o q, m + 1, Len(p \o q))
           c == SubSeq(p, m + 1, Len(p))
           b == c \o q
<1>0. Len(p) \in Nat /\ Len(q) \in Nat
  OBVIOUS
<1>1. p \o q \in Seq(X) /\ Len(p \o q) = Len(p) + Len(q)
  OBVIOUS
<1>2. c \in Seq(X) /\ Len(c) = Len(p) - m
  OBVIOUS
<1>3. b \in Seq(X) /\ Len(b) = (Len(p) - m) + Len(q)
  BY <1>2
<1>4. a \in Seq(X) /\ Len(a) = (Len(p) - m) + Len(q)
  BY <1>0, <1>1
<1>5. ASSUME NEW i \in 1 .. Len(a) PROVE a[i] = b[i]
  <2>1. a[i] = (p \o q)[i + m]
    BY <1>0, <1>1, <1>4
  <2>2. CASE i <= Len(p) - m
    <3>1. b[i] = c[i] /\ c[i] = p[i + m] /\ (p \o q)[i + m] = p[i + m]
      BY <2>2, <1>0, <1>2, <1>4
    <3> QED
      BY <2>1, <3>1
  <2>3. CASE i > Len(p) - m
    <3>1. b[i] = q[i - (Len(p) - m)] /\ (p \o q)[i + m] = q[(i + m) - Len(p)]
      BY <2>3, <1>0, <1>2, <1>4
    <3>2. i \in Int /\ i - (Len(p) - m) = (i + m) - Len(p)
      BY <1>0, <1>4
    <3> HIDE DEF a, b, c
    <3> QED
      BY <2>1, <3>1, <3>2, Zenon
  <2> QED
    BY <1>0, <1>4, <2>2, <2>3
<1> HIDE DEF a, b, c
<1>6. a = b
  BY <1>0, <1>3, <1>4, <1>5, SeqEqual
<1> QED
  BY <1>6 DEF a, b, c

LEMMA RestOfRest ==
  ASSUME NEW X, NEW q \in Seq(X), NEW m \in Nat, NEW n \in Nat, m + n <= Len(q)
  PROVE  /\ SubSeq(SubSeq(q, m + 1, Len(q)), 1, n) = SubSeq(q, m + 1, m + n)
         /\ SubSeq(SubSeq(q, m + 1, Len(q)), n + 1, Len(SubSeq(q, m + 1, Len(q))))
              = SubSeq(q, (m + n) + 1, Len(q))
         /\ Len(SubSeq(q, m + 1, Len(q))) = Len(q) - m
OBVIOUS

(***************************************************************************)
(* The window of a block, without the rest of Submit.                      *)
(***************************************************************************)

AllOf == backlog \o incoming
KeptOf == Kept(AllOf)
DroppedOf == SubSeq(AllOf, Len(KeptOf) + 1, Len(AllOf))
ChokeOf == flush \/ AsksForChoke(DroppedOf)
WindowOf == First((IF ChokeOf THEN <<Choke>> ELSE <<>>) \o KeptOf, Window)
FreshOf == Len(WindowOf) - (IF ChokeOf THEN 1 ELSE 0)

\* A window holds the choke, if one is asked for, and the first events of the backlog.
LEMMA WindowOfHead ==
  ASSUME NEW head \in {<<>>, <<Choke>>}, NEW kept \in Seq(Events)
  PROVE  LET window == First(head \o kept, Window)
             fresh == Len(window) - Len(head)
         IN  /\ window \in Seq(Events \union {Choke}) /\ Len(window) <= Window
             /\ fresh \in Nat /\ fresh <= Len(kept)
             /\ window = head \o SubSeq(kept, 1, fresh)
             /\ NotesOf(window) = SubSeq(kept, 1, fresh)
<1> SUFFICES ASSUME NEW window, NEW fresh, window = First(head \o kept, Window),
                    fresh = Len(window) - Len(head)
             PROVE  /\ window \in Seq(Events \union {Choke}) /\ Len(window) <= Window
                    /\ fresh \in Nat /\ fresh <= Len(kept)
                    /\ window = head \o SubSeq(kept, 1, fresh)
                    /\ NotesOf(window) = SubSeq(kept, 1, fresh)
  BY Zenon
<1>1. CASE head = <<Choke>>
  <2> DEFINE q == <<Choke>> \o kept
  <2>1. q \in Seq(Events \union {Choke}) /\ Len(q) = Len(kept) + 1 /\ window = First(q, Window)
    BY <1>1
  <2> HIDE DEF q
  <2>2. /\ window \in Seq(Events \union {Choke}) /\ Len(window) <= Window /\ Len(window) <= Len(q)
        /\ window = SubSeq(q, 1, Len(window)) /\ (Len(q) <= Window => window = q)
        /\ (Len(q) > Window => Len(window) = Window)
    BY <2>1, FirstIs, Bounds
  <2>3. Len(window) >= 1 /\ Len(window) \in Nat
    BY <2>1, <2>2, Bounds
  <2>4. fresh \in Nat /\ fresh <= Len(kept) /\ Len(window) = fresh + 1
    BY <2>1, <2>2, <2>3, <1>1
  <2>5. SubSeq(q, 1, fresh + 1) = <<Choke>> \o SubSeq(kept, 1, fresh)
    <3>1. kept \in Seq(Events \union {Choke}) /\ Choke \in Events \union {Choke}
      OBVIOUS
    <3> QED
      BY <2>4, <3>1, BehindOne DEF q
  <2>6. SubSeq(kept, 1, fresh) \in Seq(Events)
    BY <2>4
  <2>7. window = <<Choke>> \o SubSeq(kept, 1, fresh)
    BY <2>2, <2>4, <2>5
  <2> QED
    BY <2>2, <2>4, <2>6, <2>7, <1>1, NotesOfChoked
<1>2. CASE head = <<>>
  <2>1. <<>> \o kept = kept
    OBVIOUS
  <2>2. window = First(kept, Window) /\ fresh = Len(window)
    <3>1. window = First(<<>> \o kept, Window)
      BY <1>2
    <3>2. Len(First(kept, Window)) \in Nat
      BY FirstIs, Bounds
    <3> QED
      BY <1>2, <3>1, <3>2, <2>1
  <2>3. /\ window \in Seq(Events) /\ Len(window) <= Window /\ Len(window) <= Len(kept)
        /\ window = SubSeq(kept, 1, Len(window))
    BY <2>2, FirstIs, Bounds
  <2>4. window \in Seq(Events \union {Choke}) /\ Len(window) \in Nat
    BY <2>3
  <2>5. <<>> \o SubSeq(kept, 1, fresh) = window
    BY <2>2, <2>3
  <2> QED
    BY <2>2, <2>3, <2>4, <2>5, <1>2, NotesOfNotes
<1> QED
  BY <1>1, <1>2

(***************************************************************************)
(* The invariant.                                                          *)
(***************************************************************************)

SlotIds == 0 .. Slots - 1

\* The types of what carries blocks and notes, but not of what the plugin makes of them.
Typed ==
    /\ incoming \in Seq(Events) /\ backlog \in Seq(Events) /\ Len(backlog) <= Backlog
    /\ flush \in BOOLEAN /\ submitted \in 0 .. MaxBlocks /\ cursor \in 0 .. submitted
    /\ host \in {"idle", "drain", "read", "check", "count"}
    /\ input \in [SlotIds -> Seq(Events \union {Choke})]
    /\ tag \in [SlotIds -> 0 .. submitted] /\ done \in 0 .. submitted
    /\ child \in {"poll", "write", "tag", "dead"} /\ last \in 0 .. submitted
    /\ deaths \in Nat /\ accepted \in Seq(Events) /\ got \in Seq(Events)

\* Blocks whose events the plugin has been given.
Processed == IF child \in {"write", "tag"} THEN last + 1 ELSE last

\* Before any death the child is where seq_done says, and no more than Slots blocks are open.
Places ==
    /\ Processed <= submitted
    /\ deaths = 0 => child # "dead" /\ done = last /\ submitted <= done + Slots

\* Before any death the tags are of finished blocks, the last of each slot.
Tags ==
    deaths = 0 =>
        /\ \A i \in SlotIds : tag[i] <= done /\ (tag[i] # 0 => slot_index(tag[i]) = i)
        /\ \A s \in 1 .. done : tag[slot_index(s)] >= s

\* Before any death the drain is behind the child, and no more than Slots blocks behind the host.
Reader ==
    deaths = 0 =>
        /\ cursor <= done /\ submitted <= next + Slots
        /\ host \in {"idle", "count"} => submitted <= cursor + Slots
        /\ host \in {"read", "check"} => next <= done

\* What was accepted, cut where blocks begin: the plugin has the front of it, each pending
\* window the next part, the backlog the rest.
Sliced(cut) ==
    /\ \A k \in Processed .. submitted : cut[k] \in 0 .. Len(accepted)
    /\ \A k \in Processed + 1 .. submitted :
          /\ cut[k - 1] <= cut[k]
          /\ NotesOf(input[slot_index(k)]) = SubSeq(accepted, cut[k - 1] + 1, cut[k])
    /\ got = SubSeq(accepted, 1, cut[Processed])
    /\ backlog = SubSeq(accepted, cut[submitted] + 1, Len(accepted))

Divided == IF deaths > 0 THEN accepted = <<>> /\ got = <<>> ELSE \E cut : Sliced(cut)

EInv == Typed /\ Places /\ Tags /\ Reader /\ Divided

LEMMA InitE == Init => EInv
<1> SUFFICES ASSUME Init PROVE EInv
  OBVIOUS
<1> USE DEF Init
<1>1. Typed
  <2>1. <<>> \in Seq(Events) /\ <<>> \in Seq(Events \union {Choke}) /\ Len(<<>>) = 0
    OBVIOUS
  <2>2. input \in [SlotIds -> Seq(Events \union {Choke})] /\ tag \in [SlotIds -> 0 .. 0]
    BY <2>1 DEF SlotIds
  <2> QED
    BY <2>1, <2>2, Bounds DEF Typed
<1>2. Places /\ Tags /\ Reader
  BY Bounds DEF Places, Tags, Reader, Processed, SlotIds, next
<1>3. Divided
  <2> DEFINE cut == [k \in 0 .. 0 |-> 0]
  <2>1. cut[0] = 0 /\ Processed = 0 /\ Len(accepted) = 0
    BY DEF Processed
  <2>2. SubSeq(<<>>, 1, 0) = <<>>
    OBVIOUS
  <2>3. Sliced(cut)
    BY <2>1, <2>2 DEF Sliced
  <2> HIDE DEF cut
  <2> QED
    BY <2>3 DEF Divided
<1> QED
  BY <1>1, <1>2, <1>3 DEF EInv

\* Steps that leave everything of Divided alone.
LEMMA WholeKept ==
  ASSUME Divided, UNCHANGED <<submitted, input, accepted, got, backlog, deaths, Processed>>
  PROVE  Divided'
<1>1. CASE deaths > 0
  BY <1>1 DEF Divided
<1>2. CASE ~(deaths > 0)
  <2>1. PICK cut : Sliced(cut)
    BY <1>2 DEF Divided
  <2>2. Sliced(cut)'
    BY <2>1 DEF Sliced
  <2> QED
    BY <1>2, <2>2 DEF Divided
<1> QED
  BY <1>1, <1>2

(***************************************************************************)
(* Submit.                                                                 *)
(***************************************************************************)

Choked == IF ChokeOf THEN <<Choke>> ELSE <<>>

\* What the queue keeps has the backlog in front.
LEMMA Queue ==
  ASSUME Typed
  PROVE  /\ AllOf \in Seq(Events) /\ KeptOf \in Seq(Events) /\ Len(KeptOf) <= Backlog
         /\ Len(backlog) <= Len(KeptOf)
         /\ KeptOf = backlog \o SubSeq(KeptOf, Len(backlog) + 1, Len(KeptOf))
         /\ SubSeq(KeptOf, Len(backlog) + 1, Len(KeptOf)) \in Seq(Events)
         /\ DroppedOf \in Seq(Events) /\ ChokeOf \in BOOLEAN
<1>1. AllOf \in Seq(Events) /\ Len(AllOf) = Len(backlog) + Len(incoming)
          /\ Len(backlog) \in Nat /\ Len(incoming) \in Nat /\ Len(backlog) <= Backlog
  BY DEF Typed, AllOf
<1>2. /\ KeptOf \in Seq(Events) /\ Len(KeptOf) <= Backlog /\ Len(KeptOf) <= Len(AllOf)
      /\ KeptOf = SubSeq(AllOf, 1, Len(KeptOf)) /\ (Len(AllOf) <= Backlog => KeptOf = AllOf)
      /\ (Len(AllOf) > Backlog => Len(KeptOf) = Backlog)
  BY <1>1, FirstIs, Bounds DEF KeptOf, Kept
<1>3. Len(backlog) <= Len(KeptOf)
  <2>1. CASE Len(AllOf) <= Backlog
    BY <2>1, <1>1, <1>2
  <2>2. CASE Len(AllOf) > Backlog
    BY <2>2, <1>1, <1>2
  <2>3. Len(AllOf) \in Nat
    BY <1>1
  <2> QED
    BY <2>1, <2>2, <2>3, Bounds
<1>4. backlog = SubSeq(KeptOf, 1, Len(backlog))
  <2>1. /\ backlog \in Seq(Events) /\ incoming \in Seq(Events) /\ Len(KeptOf) \in Nat
        /\ Len(KeptOf) <= Len(backlog \o incoming)
    <3>1. backlog \in Seq(Events) /\ incoming \in Seq(Events)
      BY DEF Typed
    <3>2. Len(KeptOf) \in Nat
      BY <1>2
    <3>3. Len(KeptOf) <= Len(backlog \o incoming)
      BY <1>2, Zenon DEF AllOf
    <3> QED
      BY <3>1, <3>2, <3>3
  <2>2. SubSeq(SubSeq(backlog \o incoming, 1, Len(KeptOf)), 1, Len(backlog)) = backlog
    BY <2>1, <1>3, FrontOfFront, Zenon
  <2>3. KeptOf = SubSeq(backlog \o incoming, 1, Len(KeptOf))
    BY <1>2 DEF AllOf
  <2> QED
    BY <2>2, <2>3, Zenon
<1>5. KeptOf = SubSeq(KeptOf, 1, Len(backlog)) \o SubSeq(KeptOf, Len(backlog) + 1, Len(KeptOf))
  BY <1>1, <1>2, <1>3, Halves, Zenon
<1>6. SubSeq(KeptOf, Len(backlog) + 1, Len(KeptOf)) \in Seq(Events)
  BY <1>1, <1>2, RestType
<1>7. DroppedOf \in Seq(Events) /\ ChokeOf \in BOOLEAN
  <2>1. DroppedOf \in Seq(Events)
    BY <1>1, <1>2, RestType DEF DroppedOf
  <2> QED
    BY <2>1 DEF ChokeOf, AsksForChoke, Typed
<1> QED
  BY <1>1, <1>2, <1>3, <1>4, <1>5, <1>6, <1>7

\* Submit, with its local names.
LEMMA SubmitIs ==
  ASSUME Submit
  PROVE  /\ host = "idle" /\ submitted < MaxBlocks /\ host' = "drain" /\ incoming' = <<>>
         /\ accepted' = IF deaths > 0 THEN <<>>
                        ELSE accepted \o SubSeq(KeptOf, Len(backlog) + 1, Len(KeptOf))
         /\ \/ /\ slot_free(submitted + 1)
               /\ submitted' = submitted + 1
               /\ input' = [input EXCEPT ![slot_index(submitted + 1)] = WindowOf]
               /\ backlog' = SubSeq(KeptOf, FreshOf + 1, Len(KeptOf)) /\ flush' = FALSE
            \/ /\ ~slot_free(submitted + 1)
               /\ backlog' = KeptOf /\ flush' = ChokeOf
               /\ UNCHANGED <<submitted, input>>
         /\ UNCHANGED <<down, up, cursor, output, tag, done, lost, childVars, plugin, deaths, got>>
BY DEF Submit, FreshOf, WindowOf, ChokeOf, DroppedOf, KeptOf, AllOf

LEMMA WindowOfIs ==
  ASSUME Typed
  PROVE  /\ WindowOf \in Seq(Events \union {Choke}) /\ Len(WindowOf) <= Window
         /\ FreshOf \in Nat /\ FreshOf <= Len(KeptOf)
         /\ WindowOf = Choked \o SubSeq(KeptOf, 1, FreshOf)
         /\ NotesOf(WindowOf) = SubSeq(KeptOf, 1, FreshOf)
<1>1. KeptOf \in Seq(Events) /\ ChokeOf \in BOOLEAN
  BY Queue
<1>2. WindowOf = First((IF ChokeOf THEN <<Choke>> ELSE <<>>) \o KeptOf, Window)
  BY DEF WindowOf
<1>3. FreshOf = Len(WindowOf) - (IF ChokeOf THEN 1 ELSE 0)
  BY DEF FreshOf
<1>4. Choked \in {<<>>, <<Choke>>} /\ WindowOf = First(Choked \o KeptOf, Window)
        /\ FreshOf = Len(WindowOf) - Len(Choked)
  <2>1. Len(<<>>) = 0 /\ Len(<<Choke>>) = 1
    OBVIOUS
  <2>2. CASE ChokeOf
    BY <2>1, <2>2, <1>2, <1>3, Zenon DEF Choked
  <2>3. CASE ~ChokeOf
    BY <2>1, <2>3, <1>2, <1>3, Zenon DEF Choked
  <2> QED
    BY <2>2, <2>3
<1> QED
  BY <1>1, <1>4, WindowOfHead, Zenon

LEMMA SubmitTyped == EInv /\ Submit => Typed'
<1> SUFFICES ASSUME EInv, Submit PROVE Typed'
  OBVIOUS
<1>0. Typed
  BY DEF EInv
<1>1. KeptOf \in Seq(Events) /\ Len(KeptOf) <= Backlog /\ ChokeOf \in BOOLEAN
        /\ SubSeq(KeptOf, Len(backlog) + 1, Len(KeptOf)) \in Seq(Events)
  BY <1>0, Queue
<1>2. WindowOf \in Seq(Events \union {Choke}) /\ FreshOf \in Nat /\ FreshOf <= Len(KeptOf)
  BY <1>0, WindowOfIs
<1>3. slot_index(submitted + 1) \in SlotIds
  <2>1. submitted + 1 \in Nat
    BY <1>0 DEF Typed
  <2> QED
    BY <2>1, SlotType DEF SlotIds
<1>a. /\ incoming' = <<>> /\ host = "idle" /\ submitted < MaxBlocks
      /\ accepted' = IF deaths > 0 THEN <<>>
                     ELSE accepted \o SubSeq(KeptOf, Len(backlog) + 1, Len(KeptOf))
  BY SubmitIs, Zenon
<1>b. \/ /\ submitted' = submitted + 1
         /\ input' = [input EXCEPT ![slot_index(submitted + 1)] = WindowOf]
         /\ backlog' = SubSeq(KeptOf, FreshOf + 1, Len(KeptOf)) /\ flush' = FALSE
      \/ backlog' = KeptOf /\ flush' = ChokeOf /\ UNCHANGED <<submitted, input>>
  BY SubmitIs, Zenon
<1>4. accepted' \in Seq(Events) /\ incoming' \in Seq(Events)
  <2>1. accepted \in Seq(Events) /\ <<>> \in Seq(Events)
    BY <1>0 DEF Typed
  <2> QED
    BY <1>1, <1>a, <2>1
<1>5. SubSeq(KeptOf, FreshOf + 1, Len(KeptOf)) \in Seq(Events)
        /\ Len(SubSeq(KeptOf, FreshOf + 1, Len(KeptOf))) <= Backlog
  <2>1. Len(SubSeq(KeptOf, FreshOf + 1, Len(KeptOf))) = Len(KeptOf) - FreshOf
    BY <1>1, <1>2
  <2> QED
    BY <1>1, <1>2, <2>1, RestType, Bounds
<1>6. backlog' \in Seq(Events) /\ Len(backlog') <= Backlog /\ flush' \in BOOLEAN
  BY <1>1, <1>5, <1>b
<1>7. submitted' \in 0 .. MaxBlocks /\ submitted <= submitted'
  BY <1>0, <1>a, <1>b, Bounds DEF Typed
<1>8. input' \in [SlotIds -> Seq(Events \union {Choke})]
  BY <1>0, <1>2, <1>3, <1>b DEF Typed
<1>9. host' \in {"idle", "drain", "read", "check", "count"}
        /\ UNCHANGED <<cursor, tag, done, child, last, deaths, got>>
  BY SubmitIs DEF childVars
<1>10. cursor' \in 0 .. submitted' /\ tag' \in [SlotIds -> 0 .. submitted']
         /\ done' \in 0 .. submitted' /\ last' \in 0 .. submitted'
  BY <1>0, <1>7, <1>9 DEF Typed
<1> QED
  BY <1>0, <1>4, <1>6, <1>7, <1>8, <1>9, <1>10 DEF Typed

LEMMA SubmitPlaces == EInv /\ Submit => Places' /\ Tags' /\ Reader'
<1> SUFFICES ASSUME EInv, Submit PROVE Places' /\ Tags' /\ Reader'
  OBVIOUS
<1>1. UNCHANGED <<cursor, tag, done, child, last, deaths, Processed, next>> /\ host = "idle"
        /\ host' = "drain"
  BY SubmitIs DEF childVars, Processed, next
<1>2. \/ submitted' = submitted /\ UNCHANGED input
      \/ submitted' = submitted + 1 /\ submitted + 1 <= done + Slots
  <2>1. \/ slot_free(submitted + 1) /\ submitted' = submitted + 1
        \/ UNCHANGED <<submitted, input>>
    BY SubmitIs, Zenon
  <2> QED
    BY <2>1, Bounds DEF slot_free, EInv, Typed
<1>3. Places'
  BY <1>1, <1>2 DEF EInv, Typed, Places, Processed
<1>4. Tags'
  BY <1>1 DEF EInv, Tags
<1>5. Reader'
  BY <1>1, <1>2, Bounds DEF EInv, Typed, Reader, next
<1> QED
  BY <1>3, <1>4, <1>5

\* What is accepted goes behind what is queued.
LEMMA SubmitSlices ==
  ASSUME Typed, Places, NEW cut, Sliced(cut), NEW new, new \in Seq(Events),
         KeptOf = backlog \o new, NEW long, long = accepted \o new
  PROVE  /\ long \in Seq(Events) /\ Len(long) = Len(accepted) + Len(new)
         /\ cut[submitted] \in 0 .. Len(accepted)
         /\ KeptOf = SubSeq(long, cut[submitted] + 1, Len(long))
         /\ Len(KeptOf) = Len(long) - cut[submitted]
         /\ got = SubSeq(long, 1, cut[Processed])
         /\ \A k \in Processed .. submitted : cut[k] \in 0 .. Len(long)
         /\ \A k \in Processed + 1 .. submitted :
              NotesOf(input[slot_index(k)]) = SubSeq(long, cut[k - 1] + 1, cut[k])
<1>1. accepted \in Seq(Events) /\ Len(accepted) \in Nat /\ Len(new) \in Nat
        /\ Processed \in Nat /\ submitted \in Nat /\ Processed <= submitted
  BY DEF Typed, Places, Processed
<1>2. long \in Seq(Events) /\ Len(long) = Len(accepted) + Len(new)
  BY <1>1
<1>3. \A k \in Processed .. submitted : cut[k] \in 0 .. Len(accepted)
  BY DEF Sliced
<1>4. cut[submitted] \in 0 .. Len(accepted) /\ cut[Processed] \in 0 .. Len(accepted)
  BY <1>1, <1>3
<1>5. KeptOf = SubSeq(long, cut[submitted] + 1, Len(long))
  <2>1. backlog = SubSeq(accepted, cut[submitted] + 1, Len(accepted))
    BY DEF Sliced
  <2>2. cut[submitted] \in Nat /\ cut[submitted] <= Len(accepted)
    BY <1>4, <1>1
  <2>3. SubSeq(accepted \o new, cut[submitted] + 1, Len(accepted \o new))
          = SubSeq(accepted, cut[submitted] + 1, Len(accepted)) \o new
    BY <1>1, <2>2, Rest, Zenon
  <2> QED
    BY <2>1, <2>3, Zenon
<1>6. Len(KeptOf) = Len(long) - cut[submitted]
  BY <1>1, <1>2, <1>4, <1>5
<1>7. ASSUME NEW m \in Nat, NEW n \in Nat, n <= Len(accepted)
      PROVE  SubSeq(long, m + 1, n) = SubSeq(accepted, m + 1, n)
  <2>1. SubSeq(accepted \o new, m + 1, n) = SubSeq(accepted, m + 1, n)
    BY <1>1, <1>7, Longer
  <2> QED
    BY <2>1
<1>8. got = SubSeq(long, 1, cut[Processed])
  <2>1. got = SubSeq(accepted, 1, cut[Processed])
    BY DEF Sliced
  <2>2. cut[Processed] \in Nat /\ cut[Processed] <= Len(accepted) /\ 0 \in Nat /\ 0 + 1 = 1
    BY <1>1, <1>4
  <2>3. SubSeq(long, 0 + 1, cut[Processed]) = SubSeq(accepted, 0 + 1, cut[Processed])
    BY <2>2, <1>7, Zenon
  <2> QED
    BY <2>1, <2>2, <2>3, Zenon
<1>9. \A k \in Processed .. submitted : cut[k] \in 0 .. Len(long)
  BY <1>1, <1>2, <1>3
<1>10. ASSUME NEW k \in Processed + 1 .. submitted
       PROVE  NotesOf(input[slot_index(k)]) = SubSeq(long, cut[k - 1] + 1, cut[k])
  <2>1. k \in Processed .. submitted /\ k - 1 \in Processed .. submitted
    BY <1>1
  <2>2. cut[k] \in Nat /\ cut[k] <= Len(accepted) /\ cut[k - 1] \in Nat
    BY <2>1, <1>1, <1>3
  <2>3. NotesOf(input[slot_index(k)]) = SubSeq(accepted, cut[k - 1] + 1, cut[k])
    BY DEF Sliced
  <2> QED
    BY <2>2, <2>3, <1>7, Zenon
<1> QED
  BY <1>2, <1>4, <1>5, <1>6, <1>8, <1>9, <1>10

LEMMA SubmitWhole == EInv /\ Submit => Divided'
<1> SUFFICES ASSUME EInv, Submit PROVE Divided'
  OBVIOUS
<1>0. Typed /\ Places /\ Divided
  BY DEF EInv
<1>a. /\ accepted' = IF deaths > 0 THEN <<>>
                     ELSE accepted \o SubSeq(KeptOf, Len(backlog) + 1, Len(KeptOf))
      /\ UNCHANGED <<child, last, done, deaths, got>>
  BY SubmitIs DEF childVars
<1>b. UNCHANGED Processed
  BY <1>a DEF Processed
<1>c. \/ /\ slot_free(submitted + 1) /\ submitted' = submitted + 1
         /\ input' = [input EXCEPT ![slot_index(submitted + 1)] = WindowOf]
         /\ backlog' = SubSeq(KeptOf, FreshOf + 1, Len(KeptOf))
      \/ backlog' = KeptOf /\ UNCHANGED <<submitted, input>>
  BY SubmitIs, Zenon
<1>1. CASE deaths > 0
  BY <1>0, <1>1, <1>a DEF Divided
<1>2. CASE ~(deaths > 0)
  <2>n. PICK new : new = SubSeq(KeptOf, Len(backlog) + 1, Len(KeptOf))
    OBVIOUS
  <2>l. PICK long : long = accepted \o new
    OBVIOUS
  <2>1. accepted' = long
    BY <1>2, <1>a, <2>n, <2>l
  <2>2. new \in Seq(Events) /\ KeptOf = backlog \o new
    BY <1>0, <2>n, Queue
  <2>3. PICK cut : Sliced(cut)
    BY <1>0, <1>2 DEF Divided
  <2>4. /\ long \in Seq(Events) /\ Len(long) = Len(accepted) + Len(new)
        /\ cut[submitted] \in 0 .. Len(accepted)
        /\ KeptOf = SubSeq(long, cut[submitted] + 1, Len(long))
        /\ Len(KeptOf) = Len(long) - cut[submitted]
        /\ got = SubSeq(long, 1, cut[Processed])
        /\ \A k \in Processed .. submitted : cut[k] \in 0 .. Len(long)
        /\ \A k \in Processed + 1 .. submitted :
             NotesOf(input[slot_index(k)]) = SubSeq(long, cut[k - 1] + 1, cut[k])
    BY <1>0, <2>2, <2>3, <2>l, SubmitSlices, Zenon
  <2>5. \A k \in Processed + 1 .. submitted : cut[k - 1] <= cut[k]
    BY <2>3 DEF Sliced
  <2>6. CASE backlog' = KeptOf /\ UNCHANGED <<submitted, input>>
    <3>1. Sliced(cut)'
      BY <2>1, <2>4, <2>5, <2>6, <1>a, <1>b, Zenon DEF Sliced
    <3> QED
      BY <3>1, <1>2, <1>a DEF Divided
  <2>7. CASE /\ slot_free(submitted + 1) /\ submitted' = submitted + 1
             /\ input' = [input EXCEPT ![slot_index(submitted + 1)] = WindowOf]
             /\ backlog' = SubSeq(KeptOf, FreshOf + 1, Len(KeptOf))
    <3>0. submitted \in Nat /\ Processed \in Nat /\ Processed <= submitted
            /\ last \in Nat /\ last <= Processed /\ done = last /\ done \in Nat
            /\ Len(accepted) \in Nat /\ Len(new) \in Nat /\ Len(long) \in Nat
      <4>1. /\ submitted \in Nat /\ last \in Nat /\ last <= submitted /\ done \in Nat
            /\ done = last /\ Processed \in {last, last + 1} /\ Processed <= submitted
        <5>1. deaths = 0
          BY <1>0, <1>2 DEF Typed
        <5>2. submitted \in 0 .. MaxBlocks /\ done \in 0 .. submitted /\ last \in 0 .. submitted
          BY <1>0, Zenon DEF Typed
        <5> QED
          BY <1>0, <5>1, <5>2, Bounds DEF Places, Processed
      <4>2. Len(accepted) \in Nat /\ Len(new) \in Nat /\ Len(long) \in Nat
        <5>1. accepted \in Seq(Events)
          BY <1>0, Zenon DEF Typed
        <5> QED
          BY <5>1, <2>2, <2>4, LenProperties
      <4> QED
        BY <4>1, <4>2
    <3>1. submitted + 1 <= done + Slots
      BY <3>0, <2>7, Bounds DEF slot_free
    <3>p. PICK fresh, from : fresh = FreshOf /\ from = cut[submitted]
      OBVIOUS
    <3>2. /\ fresh \in Nat /\ fresh <= Len(KeptOf) /\ KeptOf \in Seq(Events)
          /\ NotesOf(WindowOf) = SubSeq(KeptOf, 1, fresh)
      BY <1>0, <3>p, WindowOfIs, Queue
    <3>3. from \in Nat /\ from + fresh <= Len(long) /\ from + fresh \in Nat
      <4>1. Len(KeptOf) = Len(long) - from /\ from \in 0 .. Len(accepted)
        BY <2>4, <3>p, Zenon
      <4> QED
        BY <4>1, <3>0, <3>2
    <3>a. /\ SubSeq(SubSeq(long, from + 1, Len(long)), 1, fresh)
              = SubSeq(long, from + 1, from + fresh)
          /\ SubSeq(SubSeq(long, from + 1, Len(long)), fresh + 1,
                    Len(SubSeq(long, from + 1, Len(long))))
               = SubSeq(long, (from + fresh) + 1, Len(long))
      <4>1. long \in Seq(Events)
        BY <2>4
      <4> QED
        BY <4>1, <3>2, <3>3, RestOfRest, Zenon
    <3>b. KeptOf = SubSeq(long, from + 1, Len(long))
      BY <2>4, <3>p, Zenon
    <3> PICK cut2 :
          cut2 = [k \in 0 .. submitted + 1 |-> IF k = submitted + 1 THEN from + fresh ELSE cut[k]]
      OBVIOUS
    <3>4. cut2[submitted + 1] = from + fresh /\ \A k \in 0 .. submitted : cut2[k] = cut[k]
      BY <3>0
    <3>5. \A k \in Processed .. submitted + 1 : cut2[k] \in 0 .. Len(long)
      <4> TAKE k \in Processed .. submitted + 1
      <4>1. CASE k = submitted + 1
        BY <4>1, <3>0, <3>3, <3>4
      <4>2. CASE k # submitted + 1
        <5>1. k \in Processed .. submitted /\ k \in 0 .. submitted
          BY <4>2, <3>0
        <5> QED
          BY <5>1, <2>4, <3>4
      <4> QED
        BY <4>1, <4>2
    <3>6. ASSUME NEW k \in Processed + 1 .. submitted + 1
          PROVE  /\ cut2[k - 1] <= cut2[k]
                 /\ NotesOf(input'[slot_index(k)]) = SubSeq(long, cut2[k - 1] + 1, cut2[k])
      <4>1. k \in Nat /\ k - 1 \in 0 .. submitted /\ cut2[k - 1] = cut[k - 1]
        BY <3>0, <3>4
      <4>2. CASE k = submitted + 1
        <5>1. cut2[k - 1] = from /\ cut2[k] = from + fresh
          BY <4>1, <4>2, <3>0, <3>4
        <5>2. slot_index(k) \in DOMAIN input
          BY <1>0, <4>1, SlotType DEF Typed, SlotIds
        <5>3. input'[slot_index(k)] = WindowOf
          BY <4>2, <5>2, <2>7
        <5>4. SubSeq(KeptOf, 1, fresh) = SubSeq(long, from + 1, from + fresh)
          BY <3>a, <3>b, Zenon
        <5> QED
          <6>1. cut2[k - 1] <= cut2[k]
            BY <5>1, <3>2, <3>3
          <6>2. NotesOf(input'[slot_index(k)]) = SubSeq(long, cut2[k - 1] + 1, cut2[k])
            BY <5>1, <5>3, <5>4, <3>2, Zenon
          <6> QED
            BY <6>1, <6>2
      <4>3. CASE k # submitted + 1
        <5>1. k \in Processed + 1 .. submitted /\ cut2[k] = cut[k]
          BY <4>3, <4>1, <3>0, <3>4
        <5>2. slot_index(k) # slot_index(submitted + 1)
          <6>1. k < submitted + 1 /\ submitted + 1 < k + Slots /\ submitted + 1 \in Nat
            BY <5>1, <3>0, <3>1, Bounds
          <6> QED
            BY <6>1, <4>1, SameSlot, Bounds
        <5>3. input'[slot_index(k)] = input[slot_index(k)]
          BY <5>2, <2>7, <1>0, SlotType, <4>1 DEF Typed, SlotIds
        <5>4. NotesOf(input[slot_index(k)]) = SubSeq(long, cut[k - 1] + 1, cut[k])
                /\ cut[k - 1] <= cut[k]
          BY <5>1, <2>4, <2>5
        <5> QED
          BY <5>1, <5>3, <5>4, <4>1
      <4> QED
        BY <4>2, <4>3
    <3>7. got = SubSeq(long, 1, cut2[Processed])
      <4>1. cut2[Processed] = cut[Processed]
        BY <3>0, <3>4
      <4> QED
        BY <4>1, <2>4, Zenon
    <3>8. backlog' = SubSeq(long, cut2[submitted + 1] + 1, Len(long))
      BY <3>a, <3>b, <3>p, <2>7, <3>4, Zenon
    <3>9. /\ \A k \in Processed' .. submitted' : cut2[k] \in 0 .. Len(accepted')
          /\ \A k \in Processed' + 1 .. submitted' :
               /\ cut2[k - 1] <= cut2[k]
               /\ NotesOf(input'[slot_index(k)]) = SubSeq(accepted', cut2[k - 1] + 1, cut2[k])
          /\ got' = SubSeq(accepted', 1, cut2[Processed'])
          /\ backlog' = SubSeq(accepted', cut2[submitted'] + 1, Len(accepted'))
      <4>1. submitted' = submitted + 1 /\ Processed' = Processed /\ got' = got
        BY <2>7, <1>a, <1>b
      <4> QED
        BY <4>1, <3>5, <3>6, <3>7, <3>8, <2>1, Zenon
    <3>10. Sliced(cut2)'
      BY <3>9, Zenon DEF Sliced, slot_index
    <3> QED
      BY <3>10, <1>2, <1>a DEF Divided
  <2> QED
    BY <1>c, <2>6, <2>7
<1> QED
  BY <1>1, <1>2

LEMMA SubmitE == EInv /\ Submit => EInv'
BY SubmitTyped, SubmitPlaces, SubmitWhole DEF EInv

(***************************************************************************)
(* The engine and the drain.                                               *)
(***************************************************************************)

LEMMA NoteEventsE ==
  ASSUME NEW n \in Notes
  PROVE  EInv /\ (NoteOn(n) \/ NoteOff(n)) => EInv'
<1> SUFFICES ASSUME EInv, NoteOn(n) \/ NoteOff(n) PROVE EInv'
  OBVIOUS
<1>1. UNCHANGED <<queue, submitted, hostVars, region, childVars, deaths, accepted, got>>
  BY DEF NoteOn, NoteOff, respawn, history
<1>2. UNCHANGED <<backlog, flush, cursor, host, input, tag, done, child, last, Processed, next>>
  BY <1>1 DEF queue, hostVars, region, childVars, Processed, next
<1>3. Typed'
  <2>1. On(n) \in Events /\ Off(n) \in Events
    BY DEF Events
  <2>2. incoming' \in Seq(Events)
    <3>1. PICK e \in Events : incoming' = Append(incoming, e)
      BY <2>1, Zenon DEF NoteOn, NoteOff
    <3>2. incoming \in Seq(Events)
      BY DEF EInv, Typed
    <3> QED
      BY <3>1, <3>2
  <2> QED
    BY <1>1, <1>2, <2>2 DEF EInv, Typed
<1>4. Places' /\ Tags' /\ Reader'
  BY <1>1, <1>2 DEF EInv, Places, Tags, Reader
<1>5. Divided'
  BY <1>1, <1>2, WholeKept DEF EInv
<1> QED
  BY <1>3, <1>4, <1>5 DEF EInv

\* Finished blocks have their tag or a later one.
LEMMA TagOf ==
  ASSUME Typed, Places, Tags, deaths = 0, NEW s \in Nat, s >= 1
  PROVE  /\ tag[slot_index(s)] \in Nat /\ tag[slot_index(s)] <= done
         /\ s <= done => tag[slot_index(s)] >= s
         /\ tag[slot_index(s)] > s => tag[slot_index(s)] >= s + Slots
<1>1. slot_index(s) \in SlotIds
  BY SlotType DEF SlotIds
<1>2. tag[slot_index(s)] \in Nat /\ tag[slot_index(s)] <= done
  BY <1>1 DEF Typed, Tags
<1>3. s <= done => tag[slot_index(s)] >= s
  <2>1. done \in Nat
    BY DEF Typed
  <2> QED
    BY <2>1 DEF Tags
<1>4. ASSUME tag[slot_index(s)] > s PROVE tag[slot_index(s)] >= s + Slots
  <2>1. slot_index(tag[slot_index(s)]) = slot_index(s)
    BY <1>1, <1>2, <1>4 DEF Tags
  <2> QED
    BY <1>2, <1>4, <2>1, SameSlot
<1> QED
  BY <1>2, <1>3, <1>4

\* The drain never passes a block that is not finished.
LEMMA DrainStepE == EInv /\ (Drain \/ Read \/ Revalidate \/ Count) => EInv'
<1> SUFFICES ASSUME EInv, Drain \/ Read \/ Revalidate \/ Count PROVE EInv'
  OBVIOUS
<1>1. UNCHANGED <<incoming, backlog, flush, submitted, input, tag, done, child, last, deaths,
                  accepted, got, Processed>>
  BY DEF Drain, Read, Revalidate, Count, engine, queue, region, childVars, respawn, history,
         Processed
<1>a. Typed /\ Places /\ Tags /\ Reader /\ Divided
  BY DEF EInv
<1>b. submitted \in Nat /\ cursor \in Nat /\ cursor <= submitted /\ done \in Nat
        /\ done <= submitted /\ next = cursor + 1 /\ next \in Nat /\ next >= 1
  BY <1>a DEF Typed, next
<1> PICK t : t = tag[slot_index(next)]
  OBVIOUS
<1>c. deaths = 0 =>
        /\ t \in Nat /\ t <= done /\ (next <= done => t >= next)
        /\ t > next => t >= next + Slots
        /\ cursor <= done /\ submitted <= next + Slots /\ submitted <= done + Slots
        /\ host \in {"idle", "count"} => submitted <= cursor + Slots
        /\ host \in {"read", "check"} => next <= done
  BY <1>a, <1>b, TagOf DEF Reader, Places
<1>2. \/ host = "drain" /\ cursor = submitted /\ host' = "count" /\ cursor' = cursor
      \/ host = "drain" /\ cursor < submitted /\ t > next /\ host' = "count" /\ cursor' = submitted
      \/ host = "drain" /\ cursor < submitted /\ t < next /\ host' = "count" /\ cursor' = cursor
      \/ host = "drain" /\ cursor < submitted /\ t = next /\ host' = "read" /\ cursor' = cursor
      \/ host = "read" /\ host' = "check" /\ cursor' = cursor
      \/ host = "check" /\ t = next /\ host' = "drain" /\ cursor' = next
      \/ host = "check" /\ t # next /\ host' = "count" /\ cursor' = submitted
      \/ host = "count" /\ host' = "idle" /\ cursor' = cursor
  <2>1. CASE Drain
    BY <2>1, Zenon DEF Drain, Done, Recover, Recycled
  <2>2. CASE Read
    BY <2>2 DEF Read
  <2>3. CASE Revalidate
    BY <2>3, Zenon DEF Revalidate, StillThere, Recover
  <2>4. CASE Count
    BY <2>4 DEF Count
  <2> QED
    BY <2>1, <2>2, <2>3, <2>4
<1>d. next' = cursor' + 1
  BY DEF next
<1>3. Reader'
  <2> SUFFICES ASSUME deaths = 0
               PROVE  /\ cursor' <= done /\ submitted <= next' + Slots
                      /\ host' \in {"idle", "count"} => submitted <= cursor' + Slots
                      /\ host' \in {"read", "check"} => next' <= done
    BY <1>1 DEF Reader
  <2> QED
    BY <1>2, <1>b, <1>c, <1>d, Bounds
<1>4. Typed'
  <2>1. cursor' \in 0 .. submitted /\ host' \in {"idle", "drain", "read", "check", "count"}
    <3>1. CASE cursor' = next
      <4>1. (host = "check" /\ t = next) \/ cursor' \in {cursor, submitted}
        BY <1>2, Zenon
      <4>2. t <= submitted
        <5>1. slot_index(next) \in SlotIds
          BY <1>b, SlotType DEF SlotIds
        <5> QED
          BY <5>1, <1>a, <1>b DEF Typed
      <4> QED
        BY <3>1, <4>1, <4>2, <1>2, <1>b
    <3>2. CASE cursor' # next
      BY <3>2, <1>2, <1>b
    <3> QED
      BY <3>1, <3>2
  <2> QED
    BY <1>1, <1>a, <2>1 DEF Typed
<1>5. Places' /\ Tags'
  BY <1>1, <1>a DEF Places, Tags
<1>6. Divided'
  BY <1>1, <1>a, WholeKept
<1> QED
  BY <1>3, <1>4, <1>5, <1>6 DEF EInv

(***************************************************************************)
(* The child, death and replacement.                                       *)
(***************************************************************************)

LEMMA ProcessIs ==
  ASSUME Process
  PROVE  /\ child = "poll" /\ last < submitted /\ last' = NextSeq - 1 /\ child' = "write"
         /\ got' = IF deaths > 0 THEN <<>> ELSE got \o NotesOf(input[slot_index(NextSeq)])
         /\ UNCHANGED <<engine, queue, submitted, hostVars, region, respawn, accepted>>
BY Zenon DEF Process

LEMMA ProcessE == EInv /\ Process => EInv'
<1> SUFFICES ASSUME EInv, Process PROVE EInv'
  OBVIOUS
<1>a. Typed /\ Places /\ Tags /\ Reader /\ Divided
  BY DEF EInv
<1>b. last \in Nat /\ submitted \in Nat /\ last <= submitted
  BY <1>a DEF Typed
<1>1. child = "poll" /\ last < submitted /\ child' = "write" /\ last' = last
        /\ got' = (IF deaths > 0 THEN <<>> ELSE got \o NotesOf(input[slot_index(last + 1)]))
  BY <1>b, ProcessIs DEF NextSeq
<1>2. UNCHANGED <<incoming, backlog, flush, submitted, cursor, host, input, tag, done, deaths,
                  accepted, next>>
  BY ProcessIs DEF engine, queue, hostVars, region, respawn, next
<1>3. Processed = last /\ Processed' = last + 1
  BY <1>1 DEF Processed
<1>4. Places' /\ Tags' /\ Reader'
  BY <1>1, <1>2, <1>3, <1>a, <1>b DEF Places, Tags, Reader
<1>5. Divided' /\ got' \in Seq(Events)
  <2>1. CASE deaths > 0
    BY <2>1, <1>1, <1>2, <1>a DEF Divided
  <2>2. CASE ~(deaths > 0)
    <3>1. PICK cut : Sliced(cut)
      BY <2>2, <1>a DEF Divided
    <3>2. last + 1 \in Processed + 1 .. submitted /\ last \in Processed .. submitted
            /\ last + 1 \in Processed .. submitted /\ (last + 1) - 1 = last
      BY <1>1, <1>3, <1>b
    <3>3. /\ cut[last] \in Nat /\ cut[last + 1] \in Nat /\ cut[last] <= cut[last + 1]
          /\ cut[last + 1] <= Len(accepted)
      <4>1. cut[last] \in 0 .. Len(accepted) /\ cut[last + 1] \in 0 .. Len(accepted)
        BY <3>1, <3>2 DEF Sliced
      <4>2. cut[(last + 1) - 1] <= cut[last + 1]
        BY <3>1, <3>2, Zenon DEF Sliced
      <4>3. Len(accepted) \in Nat
        BY <1>a DEF Typed
      <4> QED
        BY <4>1, <4>2, <4>3, <3>2
    <3>4. NotesOf(input[slot_index(last + 1)]) = SubSeq(accepted, cut[last] + 1, cut[last + 1])
      <4>1. NotesOf(input[slot_index(last + 1)])
              = SubSeq(accepted, cut[(last + 1) - 1] + 1, cut[last + 1])
        BY <3>1, <3>2, Zenon DEF Sliced
      <4> QED
        BY <4>1, <3>2, Zenon
    <3>5. got = SubSeq(accepted, 1, cut[last])
      BY <3>1, <1>3 DEF Sliced
    <3>6. got' = SubSeq(accepted, 1, cut[last + 1])
      <4>1. accepted \in Seq(Events)
        BY <1>a DEF Typed
      <4>2. SubSeq(accepted, 1, cut[last]) \o SubSeq(accepted, cut[last] + 1, cut[last + 1])
              = SubSeq(accepted, 1, cut[last + 1])
        BY <4>1, <3>3, Concatenated, Zenon
      <4> QED
        BY <4>2, <3>4, <3>5, <2>2, <1>1, Zenon
    <3>7. /\ \A k \in last + 1 .. submitted : cut[k] \in 0 .. Len(accepted)
          /\ \A k \in (last + 1) + 1 .. submitted :
               /\ cut[k - 1] <= cut[k]
               /\ NotesOf(input[slot_index(k)]) = SubSeq(accepted, cut[k - 1] + 1, cut[k])
          /\ backlog = SubSeq(accepted, cut[submitted] + 1, Len(accepted))
      <4>1. \A k : (k \in last + 1 .. submitted => k \in last .. submitted)
                   /\ (k \in (last + 1) + 1 .. submitted => k \in last + 1 .. submitted)
        BY <1>b
      <4> QED
        BY <4>1, <3>1, <1>3, Zenon DEF Sliced
    <3>8. Sliced(cut)'
      BY <3>6, <3>7, <1>2, <1>3, Zenon DEF Sliced, slot_index
    <3>9. got' \in Seq(Events)
      BY <3>3, <3>6, <1>a DEF Typed
    <3> QED
      BY <3>8, <3>9, <2>2, <1>2 DEF Divided
  <2> QED
    BY <2>1, <2>2
<1>6. Typed'
  BY <1>1, <1>2, <1>5, <1>a DEF Typed
<1> QED
  BY <1>4, <1>5, <1>6 DEF EInv

LEMMA WriteE == EInv /\ Write => EInv'
<1> SUFFICES ASSUME EInv, Write PROVE EInv'
  OBVIOUS
<1>1. UNCHANGED <<incoming, backlog, flush, submitted, cursor, host, input, tag, done, last,
                  deaths, accepted, got, next>> /\ child = "write" /\ child' = "tag"
  BY DEF Write, engine, queue, hostVars, respawn, history, next
<1>2. Processed' = Processed
  BY <1>1 DEF Processed
<1>3. Typed' /\ Places' /\ Tags' /\ Reader'
  BY <1>1, <1>2 DEF EInv, Typed, Places, Tags, Reader
<1>4. Divided'
  BY <1>1, <1>2, WholeKept DEF EInv
<1> QED
  BY <1>3, <1>4 DEF EInv

LEMMA TagE == EInv /\ Tag => EInv'
<1> SUFFICES ASSUME EInv, Tag PROVE EInv'
  OBVIOUS
<1>a. Typed /\ Places /\ Tags /\ Reader /\ Divided
  BY DEF EInv
<1>1. UNCHANGED <<incoming, backlog, flush, submitted, cursor, host, input, deaths, accepted,
                  got, next>>
  BY DEF Tag, engine, queue, hostVars, respawn, history, next
<1>2. /\ child = "tag" /\ child' = "poll" /\ last' = last + 1 /\ done' = last + 1
      /\ tag' = [tag EXCEPT ![slot_index(last + 1)] = last + 1]
  BY DEF Tag
<1>3. Processed = last + 1 /\ Processed' = last + 1 /\ last + 1 <= submitted /\ last \in Nat
        /\ submitted \in Nat /\ done \in Nat
  BY <1>2, <1>a DEF Processed, Places, Typed
<1>4. Places'
  <2>1. deaths = 0 => submitted <= done' + Slots
    BY <1>2, <1>3, <1>a, Bounds DEF Places
  <2> QED
    BY <2>1, <1>1, <1>2, <1>3 DEF Places
<1>5. slot_index(last + 1) \in SlotIds
  BY <1>3, SlotType DEF SlotIds
<1>6. Typed'
  BY <1>1, <1>2, <1>3, <1>5, <1>a DEF Typed
<1>7. Tags'
  <2> SUFFICES ASSUME deaths = 0
               PROVE  /\ \A i \in SlotIds : tag'[i] <= done'
                                           /\ (tag'[i] # 0 => slot_index(tag'[i]) = i)
                      /\ \A s \in 1 .. done' : tag'[slot_index(s)] >= s
    BY <1>1 DEF Tags, slot_index
  <2>1. done = last
    BY <1>a DEF Places
  <2>2. ASSUME NEW i \in SlotIds
        PROVE  tag'[i] <= done' /\ (tag'[i] # 0 => slot_index(tag'[i]) = i)
    <3>1. CASE i = slot_index(last + 1)
      BY <3>1, <1>2, <1>3, <1>5, <1>a DEF Typed
    <3>2. CASE i # slot_index(last + 1)
      <4>1. tag'[i] = tag[i] /\ tag[i] \in Nat
        BY <3>2, <1>2, <1>a DEF Typed
      <4> QED
        BY <4>1, <2>1, <1>2, <1>3, <1>a DEF Tags
    <3> QED
      BY <3>1, <3>2
  <2>3. ASSUME NEW s \in 1 .. done' PROVE tag'[slot_index(s)] >= s
    <3>0. s \in Nat /\ s <= last + 1 /\ slot_index(s) \in SlotIds
      BY <1>2, <1>3, SlotType DEF SlotIds
    <3>1. CASE slot_index(s) = slot_index(last + 1)
      BY <3>0, <3>1, <1>2, <1>3, <1>5, <1>a DEF Typed
    <3>2. CASE slot_index(s) # slot_index(last + 1)
      <4>1. s \in 1 .. done
        BY <3>0, <3>2, <2>1, <1>3
      <4>2. tag'[slot_index(s)] = tag[slot_index(s)]
        BY <3>0, <3>2, <1>2, <1>a DEF Typed
      <4> QED
        BY <4>1, <4>2, <1>a DEF Tags
    <3> QED
      BY <3>1, <3>2
  <2> QED
    BY <2>2, <2>3
<1>8. Reader'
  BY <1>1, <1>2, <1>3, <1>a DEF Reader, Places, Typed, next
<1>9. Divided'
  BY <1>1, <1>3, <1>a, WholeKept
<1> QED
  BY <1>4, <1>6, <1>7, <1>8, <1>9 DEF EInv

LEMMA DeathE == EInv /\ (Die \/ Respawn \/ CountRespawn) => EInv'
<1> SUFFICES ASSUME EInv, Die \/ Respawn \/ CountRespawn PROVE EInv'
  OBVIOUS
<1>a. Typed /\ Places /\ Tags /\ Reader /\ Divided
  BY DEF EInv
<1>1. CASE Die
  <2>1. /\ UNCHANGED <<incoming, backlog, flush, submitted, cursor, host, input, tag, done, last>>
        /\ child' = "dead" /\ deaths' = deaths + 1 /\ accepted' = <<>> /\ got' = <<>>
    BY <1>1 DEF Die, engine, queue, hostVars, region
  <2>2. deaths \in Nat /\ deaths' > 0 /\ deaths' \in Nat /\ deaths' # 0
    BY <2>1, <1>a DEF Typed
  <2>3. Divided' /\ Tags' /\ Reader'
    BY <2>1, <2>2 DEF Divided, Tags, Reader
  <2>4. Processed' = last /\ last <= submitted
    BY <2>1, <1>a DEF Processed, Typed
  <2>5. Places'
    BY <2>1, <2>2, <2>4 DEF Places
  <2>6. Typed'
    BY <2>1, <2>2, <1>a DEF Typed
  <2> QED
    BY <2>3, <2>5, <2>6 DEF EInv
<1>2. CASE Respawn
  <2>1. /\ UNCHANGED <<incoming, backlog, flush, submitted, cursor, host, input, tag, done, deaths,
                       accepted, got>>
        /\ child = "dead" /\ child' = "poll" /\ last' = 0
    BY <1>2 DEF Respawn, ResumePoint, engine, queue, hostVars, region, history
  <2>2. deaths # 0 /\ deaths \in Nat /\ submitted \in Nat
    BY <2>1, <1>a DEF Places, Typed
  <2>3. deaths > 0
    BY <2>2
  <2>4. Divided' /\ Tags' /\ Reader'
    BY <2>1, <2>2, <2>3, <1>a DEF Divided, Tags, Reader
  <2>5. Places' /\ Typed'
    BY <2>1, <2>2, <1>a DEF Places, Processed, Typed
  <2> QED
    BY <2>4, <2>5 DEF EInv
<1>3. CASE CountRespawn
  <2>1. UNCHANGED <<incoming, backlog, flush, submitted, cursor, host, input, tag, done, child,
                    last, deaths, accepted, got, next, Processed>>
    BY <1>3 DEF CountRespawn, engine, queue, hostVars, region, childVars, history, next, Processed
  <2>2. Typed' /\ Places' /\ Tags' /\ Reader'
    BY <2>1, <1>a DEF Typed, Places, Tags, Reader
  <2> QED
    BY <2>1, <2>2, <1>a, WholeKept DEF EInv
<1> QED
  BY <1>1, <1>2, <1>3

LEMMA StutterE == EInv /\ UNCHANGED vars => EInv'
<1> SUFFICES ASSUME EInv, UNCHANGED vars PROVE EInv'
  OBVIOUS
<1>1. UNCHANGED <<incoming, backlog, flush, submitted, cursor, host, input, tag, done, child, last,
                  deaths, accepted, got, next, Processed>>
  BY DEF vars, engine, queue, hostVars, region, childVars, respawn, history, next, Processed
<1>2. Typed' /\ Places' /\ Tags' /\ Reader'
  BY <1>1 DEF EInv, Typed, Places, Tags, Reader
<1> QED
  BY <1>1, <1>2, WholeKept DEF EInv

LEMMA StepE == EInv /\ [Next]_vars => EInv'
BY NoteEventsE, SubmitE, DrainStepE, ProcessE, WriteE, TagE, DeathE, StutterE
   DEF Next, HostStep, ChildStep

\* The shape of the path and of what travels on it is kept by every step: the notes accepted
\* are those the plugin got, those in the windows it has still to take, and those waiting in
\* the backlog, in this order.
THEOREM InductiveE == Spec => []EInv
BY InitE, StepE, PTL DEF Spec

LEMMA EInvGivesIntact == EInv => EventsIntact
<1> SUFFICES ASSUME EInv PROVE EventsIntact
  OBVIOUS
<1>1. NothingSkipped
  BY DEF EInv, Reader, NothingSkipped
<1>2. InOrderOnce
  <2>1. CASE deaths > 0
    <3>1. accepted = <<>> /\ got = <<>>
      BY <2>1 DEF EInv, Divided
    <3> QED
      BY <3>1 DEF InOrderOnce, IsPrefix
  <2>2. CASE ~(deaths > 0)
    <3>1. PICK cut : Sliced(cut)
      BY <2>2 DEF EInv, Divided
    <3>2. cut[Processed] \in 0 .. Len(accepted)
      <4>1. Processed \in Nat /\ submitted \in Nat /\ Processed <= submitted
        BY DEF EInv, Typed, Places, Processed
      <4> QED
        BY <3>1, <4>1 DEF Sliced
    <3>3. got = SubSeq(accepted, 1, cut[Processed]) /\ accepted \in Seq(Events)
      BY <3>1 DEF Sliced, EInv, Typed
    <3> QED
      BY <3>2, <3>3 DEF InOrderOnce, IsPrefix
  <2> QED
    BY <2>1, <2>2
<1> QED
  BY <1>1, <1>2 DEF EventsIntact

\* Until a child dies the plugin gets exactly the events EventBackingRing accepted, each once
\* and in order, and the drain of process_block passes over finished blocks only: for any
\* number of slots and blocks, any window, backlog and spill size.
THEOREM EventsSurvive == Spec => []EventsIntact
BY InductiveE, EInvGivesIntact, PTL

(***************************************************************************)
(* The fold over a window.                                                 *)
(***************************************************************************)

LEMMA MaxIs ==
  ASSUME NEW k \in Nat, NEW s, s \subseteq 1 .. k, k \in s
  PROVE  Max(s) = k
<1>1. \A y \in s : k >= y
  OBVIOUS
<1>2. Max(s) \in s /\ \A y \in s : Max(s) >= y
  BY <1>1, Zenon DEF Max
<1>3. PICK m : m = Max(s)
  OBVIOUS
<1>4. m \in 1 .. k /\ m >= k
  BY <1>2, <1>3, Zenon
<1> QED
  BY <1>3, <1>4

\* The fold as it is defined, over sets of places of the window.
IsFold(f, p, w, m) ==
    f = [s \in SUBSET (1 .. m) |-> IF s = {} THEN p
           ELSE classify_event(f[s \ {Max(s)}], w[Max(s)])]

LEMMA FoldExists ==
  ASSUME NEW p, NEW w, NEW m \in Nat
  PROVE  \E f : IsFold(f, p, w, m)
<1> DEFINE P(k, f) == IsFold(f, p, w, k)
           S == {k \in Nat : \E f : P(k, f)}
<1>1. 0 \in S
  <2> DEFINE f == [s \in SUBSET (1 .. 0) |-> p]
  <2>1. \A s \in SUBSET (1 .. 0) : s = {}
    OBVIOUS
  <2>2. P(0, f)
    BY <2>1 DEF IsFold
  <2> QED
    BY <2>2
<1>2. ASSUME NEW k \in Nat, k \in S PROVE k + 1 \in S
  <2>1. PICK f : P(k, f)
    BY <1>2
  <2> DEFINE g == [s \in SUBSET (1 .. k + 1) |->
                     IF s \subseteq 1 .. k THEN f[s]
                     ELSE classify_event(f[s \ {k + 1}], w[k + 1])]
             h == [s \in SUBSET (1 .. k + 1) |-> IF s = {} THEN p
                     ELSE classify_event(g[s \ {Max(s)}], w[Max(s)])]
  <2>2. ASSUME NEW s \in SUBSET (1 .. k + 1) PROVE g[s] = h[s]
    <3>1. CASE s \subseteq 1 .. k
      <4>1. f[s] = IF s = {} THEN p ELSE classify_event(f[s \ {Max(s)}], w[Max(s)])
        <5>1. s \in SUBSET (1 .. k)
          BY <3>1
        <5> QED
          BY <5>1, <2>1 DEF IsFold
      <4>2. s \ {Max(s)} \subseteq 1 .. k /\ s \ {Max(s)} \in SUBSET (1 .. k + 1)
        BY <3>1
      <4>3. g[s] = f[s] /\ g[s \ {Max(s)}] = f[s \ {Max(s)}]
        BY <3>1, <4>2
      <4> QED
        BY <4>1, <4>3
    <3>2. CASE ~(s \subseteq 1 .. k)
      <4>1. k + 1 \in s /\ s # {}
        BY <3>2
      <4>2. Max(s) = k + 1
        BY <4>1, MaxIs, k + 1 \in Nat
      <4>3. s \ {k + 1} \subseteq 1 .. k /\ s \ {k + 1} \in SUBSET (1 .. k + 1)
        BY <4>1
      <4>4. g[s \ {k + 1}] = f[s \ {k + 1}]
        BY <4>3
      <4> HIDE DEF P
      <4> QED
        BY <3>2, <4>1, <4>2, <4>4
    <3> QED
      BY <3>1, <3>2
  <2>3. g = h
    BY <2>2
  <2>4. P(k + 1, g)
    BY <2>3 DEF IsFold
  <2> HIDE DEF P, g
  <2> QED
    BY <2>4
<1> HIDE DEF S
<1>3. Nat \subseteq S
  BY <1>1, <1>2, ByInduction
<1> QED
  BY <1>3, Zenon DEF S

\* What the plugin is after each event of a window.
After(f, p, w, n) ==
    f[0] = p /\ \A i \in 1 .. n : f[i] = classify_event(f[i - 1], w[i])

LEMMA FoldIs ==
  ASSUME NEW X, NEW w \in Seq(X), NEW p
  PROVE  \E f : After(f, p, w, Len(w)) /\ FoldLeft(classify_event, p, w) = f[Len(w)]
<1> DEFINE n == Len(w)
           Rec(f) == IsFold(f, p, w, n)
           iter == CHOOSE f : Rec(f)
<1>0. n \in Nat /\ DOMAIN w = 1 .. n
  OBVIOUS
<1>1. FoldLeft(classify_event, p, w) = iter[1 .. n]
  BY <1>0 DEF FoldLeft, MapThenFoldSet, IsFold
<1>2. iter = [s \in SUBSET (1 .. n) |-> IF s = {} THEN p
                ELSE classify_event(iter[s \ {Max(s)}], w[Max(s)])]
  <2>1. \E f : Rec(f)
    <3> HIDE DEF n
    <3> QED
      BY <1>0, FoldExists
  <2>2. Rec(iter)
    <3> HIDE DEF Rec
    <3> QED
      BY <2>1, Zenon
  <2> QED
    BY <2>2, Zenon DEF IsFold
<1> HIDE DEF iter, n
<1> DEFINE f == [i \in 0 .. n |-> iter[1 .. i]]
<1>3. f[0] = p
  <2>1. 1 .. 0 = {} /\ {} \in SUBSET (1 .. n) /\ 0 \in 0 .. n
    BY <1>0
  <2>2. iter[{}] = p
    BY <1>2, <2>1
  <2> QED
    BY <2>1, <2>2
<1>4. ASSUME NEW i \in 1 .. n PROVE f[i] = classify_event(f[i - 1], w[i])
  <2>1. i \in Nat /\ i - 1 \in 0 .. n /\ i \in 0 .. n /\ 1 .. i # {}
          /\ 1 .. i \in SUBSET (1 .. n) /\ i \in 1 .. i
    BY <1>0
  <2>2. Max(1 .. i) = i
    BY <2>1, MaxIs
  <2>3. (1 .. i) \ {i} = 1 .. (i - 1)
    BY <2>1
  <2>4. iter[1 .. i] = classify_event(iter[(1 .. i) \ {Max(1 .. i)}], w[Max(1 .. i)])
    BY <1>2, <2>1
  <2> QED
    BY <2>1, <2>2, <2>3, <2>4
<1>5. f[n] = iter[1 .. n]
  BY <1>0
<1> HIDE DEF f
<1> QED
  BY <1>1, <1>3, <1>4, <1>5 DEF After, n

(***************************************************************************)
(* What the plugin makes of a window.                                      *)
(***************************************************************************)

LEMMA SetToSeqType ==
  ASSUME NEW S, IsFiniteSet(S)
  PROVE  SetToSeq(S) \in Seq(S)
<1> DEFINE n == Cardinality(S)
           One(f) == f \in [1 .. n -> S] /\ IsInjective(f)
<1>1. n \in Nat /\ ExistsBijection(1 .. n, S)
  BY FS_CardinalityType
<1>2. \E f : One(f)
  BY <1>1 DEF ExistsBijection, Bijection, Injection
<1>3. \E f \in [1 .. n -> S] : IsInjective(f)
  BY <1>2
<1>4. SetToSeq(S) \in [1 .. n -> S]
  BY <1>3, Zenon DEF SetToSeq
<1> HIDE DEF n
<1>5. \A f \in [1 .. n -> S] : f \in Seq(S)
  BY <1>1
<1> QED
  BY <1>4, <1>5

Player == [held : SUBSET Notes, tails : SUBSET Notes, out : Seq(Ends)]

LEMMA EndsOfFinite ==
  ASSUME NEW S, S \subseteq Notes
  PROVE  SetToSeq({Ended(n) : n \in S}) \in Seq(Ends)
<1> DEFINE T == {Ended(n) : n \in S}
<1>1. IsFiniteSet(S)
  BY Bounds, FS_Subset
<1>2. IsFiniteSet(T)
  <2> DEFINE f == [n \in S |-> Ended(n)]
  <2>1. f \in Surjection(S, T)
    BY DEF Surjection
  <2> QED
    BY <1>1, <2>1, FS_Surjection
<1>3. T \subseteq Ends
  BY DEF Ends
<1> HIDE DEF T
<1>4. SetToSeq(T) \in Seq(T)
  BY <1>2, SetToSeqType
<1>5. SetToSeq(T) \in Seq(Ends)
  BY <1>3, <1>4, SeqMonotonic
<1> QED
  BY <1>5 DEF T

LEMMA EventKinds ==
  ASSUME NEW e \in Events \union {Choke}
  PROVE  \/ \E n \in Notes : e = On(n)
         \/ \E n \in Notes : e = Off(n)
         \/ e = Choke
BY DEF Events

LEMMA OneEvent ==
  ASSUME NEW p \in Player, NEW e \in Events \union {Choke}
  PROVE  /\ classify_event(p, e) \in Player
         /\ e.kind = "on" => classify_event(p, e).held = p.held \union {e.key}
         /\ e.kind = "off" /\ ~Vst3 => classify_event(p, e).held = p.held \ {e.key}
         /\ e.kind = "choke" /\ ~Vst3 => classify_event(p, e).held = {}
<1> DEFINE q == classify_event(p, e)
<1>0. p.held \subseteq Notes /\ p.tails \subseteq Notes /\ p.out \in Seq(Ends) /\ Vst3 \in BOOLEAN
        /\ p = [held |-> p.held, tails |-> p.tails, out |-> p.out]
  BY EventsAssumption DEF Player
<1>1. CASE e.kind = "on"
  <2>1. q = [p EXCEPT !.held = p.held \union {e.key}]
    BY <1>1 DEF classify_event
  <2>2. e.key \in Notes
    BY <1>1, EventKinds DEF On, Off, Choke
  <2>3. q = [held |-> p.held \union {e.key}, tails |-> p.tails, out |-> p.out]
    BY <1>0, <2>1, Zenon
  <2> HIDE DEF q
  <2>4. q \in Player /\ q.held = p.held \union {e.key}
    BY <1>0, <2>2, <2>3 DEF Player
  <2> QED
    BY <2>4, <1>1 DEF q
<1>2. CASE Vst3 /\ e.kind # "on"
  <2>1. q = [p EXCEPT !.held = p.held \ {vst3_channel_pitch(e.key)},
                      !.out = Append(p.out, Ended(e.key))]
    BY <1>2 DEF classify_event
  <2>2. Ended(e.key) \in Ends
    BY <1>2, EventKinds DEF On, Off, Choke, Ends
  <2>3. Append(p.out, Ended(e.key)) \in Seq(Ends)
    BY <1>0, <2>2
  <2>4. q = [held |-> p.held \ {vst3_channel_pitch(e.key)}, tails |-> p.tails,
             out |-> Append(p.out, Ended(e.key))]
    BY <1>0, <2>1
  <2> HIDE DEF q
  <2>5. q \in Player
    BY <1>0, <2>3, <2>4 DEF Player
  <2> QED
    BY <2>5, <1>2 DEF q
<1>3. CASE ~Vst3 /\ e.kind = "off"
  <2>1. q = [p EXCEPT !.held = p.held \ {e.key},
                      !.tails = IF e.key \in p.held THEN p.tails \union {e.key} ELSE p.tails]
    BY <1>3 DEF classify_event
  <2>2. q = [held |-> p.held \ {e.key},
             tails |-> IF e.key \in p.held THEN p.tails \union {e.key} ELSE p.tails,
             out |-> p.out]
    BY <1>0, <2>1
  <2> HIDE DEF q
  <2>3. q \in Player /\ q.held = p.held \ {e.key}
    BY <1>0, <2>2 DEF Player
  <2> QED
    BY <2>3, <1>3 DEF q
<1>4. CASE ~Vst3 /\ e.kind = "choke"
  <2> DEFINE ends == SetToSeq({Ended(n) : n \in p.held \cup p.tails})
  <2>1. q = [p EXCEPT !.held = {}, !.tails = {}, !.out = p.out \o ends]
    BY <1>4 DEF classify_event
  <2>2. ends \in Seq(Ends)
    BY <1>0, EndsOfFinite
  <2> HIDE DEF ends
  <2>3. p.out \o ends \in Seq(Ends)
    BY <1>0, <2>2
  <2>4. q = [held |-> {}, tails |-> {}, out |-> p.out \o ends]
    BY <1>0, <2>1
  <2> HIDE DEF q
  <2>5. q \in Player /\ q.held = {}
    BY <2>3, <2>4 DEF Player
  <2> QED
    BY <2>5, <1>4 DEF q
<1>5. e.kind \in {"on", "off", "choke"}
  BY EventKinds DEF On, Off, Choke
<1> QED
  BY <1>0, <1>1, <1>2, <1>3, <1>4, <1>5

\* The plugin before a window, and after it.
Before == [held |-> held, tails |-> tails, out |-> <<>>]
Played(window) == FoldLeft(classify_event, Before, window)

\* A note stays off if no event after place m switches it on.
LEMMA PlayedIs ==
  ASSUME held \subseteq Notes, tails \subseteq Notes, NEW w \in Seq(Events \union {Choke})
  PROVE  \E f : /\ After(f, Before, w, Len(w)) /\ Played(w) = f[Len(w)]
                /\ \A i \in 0 .. Len(w) : f[i] \in Player
<1> PICK f : After(f, Before, w, Len(w)) /\ Played(w) = f[Len(w)]
  BY FoldIs DEF Played
<1> DEFINE S == {i \in Nat : i <= Len(w) => f[i] \in Player}
<1>1. 0 \in S
  <2>1. <<>> \in Seq(Ends)
    OBVIOUS
  <2>2. Before \in Player
    BY <2>1 DEF Player, Before
  <2>3. f[0] = Before
    BY DEF After
  <2> QED
    BY <2>2, <2>3, Zenon
<1>2. ASSUME NEW i \in Nat, i \in S PROVE i + 1 \in S
  <2> SUFFICES ASSUME i + 1 <= Len(w) PROVE f[i + 1] \in Player
    OBVIOUS
  <2>1. i + 1 \in 1 .. Len(w) /\ (i + 1) - 1 = i /\ f[i] \in Player
          /\ w[i + 1] \in Events \union {Choke}
    BY <1>2
  <2>2. f[i + 1] = classify_event(f[i], w[i + 1])
    BY <2>1 DEF After
  <2> QED
    BY <2>1, <2>2, OneEvent
<1> HIDE DEF S
<1>3. Nat \subseteq S
  BY <1>1, <1>2, ByInduction
<1>4. \A i \in 0 .. Len(w) : f[i] \in Player
  BY <1>3 DEF S
<1> QED
  BY <1>4

LEMMA PlayedType ==
  ASSUME held \subseteq Notes, tails \subseteq Notes, NEW w \in Seq(Events \union {Choke})
  PROVE  Played(w) \in Player
<1>1. Len(w) \in 0 .. Len(w)
  OBVIOUS
<1> QED
  BY <1>1, PlayedIs

\* A note stays off if no later event switches it on.
LEMMA StaysOff ==
  ASSUME NEW w \in Seq(Events \union {Choke}), NEW f, NEW p, After(f, p, w, Len(w)),
         \A i \in 0 .. Len(w) : f[i] \in Player, NEW n \in Notes, NEW m \in 0 .. Len(w),
         n \notin f[m].held, \A j \in m + 1 .. Len(w) : w[j] # On(n)
  PROVE  n \notin f[Len(w)].held
<1> DEFINE S == {i \in Nat : m <= i /\ i <= Len(w) => n \notin f[i].held}
<1>1. 0 \in S
  OBVIOUS
<1>2. ASSUME NEW i \in Nat, i \in S PROVE i + 1 \in S
  <2> SUFFICES ASSUME m <= i + 1, i + 1 <= Len(w), m # i + 1 PROVE n \notin f[i + 1].held
    OBVIOUS
  <2>1. i + 1 \in 1 .. Len(w) /\ (i + 1) - 1 = i /\ f[i] \in Player /\ n \notin f[i].held
          /\ w[i + 1] \in Events \union {Choke} /\ w[i + 1] # On(n)
    BY <1>2
  <2>2. f[i + 1] = classify_event(f[i], w[i + 1])
    BY <2>1 DEF After
  <2>3. f[i + 1].held \subseteq f[i].held \union {k \in Notes : w[i + 1] = On(k)}
    <3> PICK e \in Events \union {Choke} : e = w[i + 1]
      BY <2>1
    <3> PICK p1 \in Player : p1 = f[i]
      BY <2>1
    <3>1. classify_event(p1, e).held \subseteq p1.held \union {k \in Notes : e = On(k)}
      <4>1. CASE Vst3 /\ e.kind # "on"
        <5>1. classify_event(p1, e) = [p1 EXCEPT !.held = p1.held \ {vst3_channel_pitch(e.key)},
                      !.out = Append(p1.out, Ended(e.key))]
          BY <4>1 DEF classify_event
        <5>2. p1.held = p1.held /\ p1 = [held |-> p1.held, tails |-> p1.tails, out |-> p1.out]
          BY DEF Player
        <5>3. classify_event(p1, e).held = p1.held \ {vst3_channel_pitch(e.key)}
          BY <5>1, <5>2
        <5> QED
          BY <5>3
      <4>2. CASE e.kind = "on"
        <5>1. e = On(e.key) /\ e.key \in Notes
          BY <4>2, EventKinds DEF On, Off, Choke
        <5> QED
          BY <5>1, <4>2, OneEvent
      <4>3. CASE ~Vst3 /\ e.kind # "on"
        <5>1. e.kind = "off" \/ e.kind = "choke"
          BY <4>3, EventKinds DEF On, Off, Choke
        <5> QED
          BY <5>1, <4>3, OneEvent
      <4>4. Vst3 \in BOOLEAN
        BY EventsAssumption
      <4> QED
        BY <4>1, <4>2, <4>3, <4>4
    <3> QED
      BY <3>1, <2>2
  <2> QED
    BY <2>1, <2>3
<1> HIDE DEF S
<1>3. Nat \subseteq S
  BY <1>1, <1>2, ByInduction
<1> QED
  BY <1>3 DEF S

\* The types of the other variables.
Others ==
    /\ up \subseteq down /\ down \subseteq Notes /\ counting \subseteq Notes
    /\ voices \in [Notes -> Nat]
    /\ \A i \in SlotIds : Len(input[i]) <= Window
    /\ output \in [SlotIds -> Seq(Ends)] /\ \A i \in SlotIds : Len(output[i]) <= Window
    /\ lost \in BOOLEAN /\ made \in Seq(Ends) /\ spill \in Seq(Ends) /\ Len(spill) <= Spill
    /\ held \subseteq Notes /\ tails \subseteq Notes
    /\ news \in {"none", "due", "told"} /\ deaths \in 0 .. MaxDeaths
    /\ torn \in BOOLEAN

LEMMA InitO == Init => Others
<1> SUFFICES ASSUME Init PROVE Others
  OBVIOUS
<1> USE DEF Init
<1>1. <<>> \in Seq(Ends) /\ Len(<<>>) = 0
  OBVIOUS
<1>2. voices \in [Notes -> Nat]
  BY DEF NoVoices
<1>3. output \in [SlotIds -> Seq(Ends)] /\ \A i \in SlotIds : output[i] = <<>> /\ input[i] = <<>>
  BY <1>1 DEF SlotIds
<1>4. torn \in BOOLEAN /\ lost \in BOOLEAN
  BY Zenon DEF Init
<1>5. /\ \A i \in SlotIds : Len(input[i]) <= Window /\ Len(output[i]) <= Window
      /\ deaths \in 0 .. MaxDeaths /\ Len(spill) <= Spill
  BY <1>1, <1>3, Bounds
<1>6. up \subseteq down /\ down \subseteq Notes /\ counting \subseteq Notes /\ made \in Seq(Ends)
        /\ spill \in Seq(Ends) /\ held \subseteq Notes /\ tails \subseteq Notes /\ news = "none"
  BY <1>1
<1> HIDE DEF Init
<1> QED
  BY <1>2, <1>3, <1>4, <1>5, <1>6, Zenon DEF Others

\* The keys of notes are notes.
LEMMA KeysOfNotes ==
  ASSUME NEW q \in Seq(Events \union {Choke})
  PROVE  Keys(q, "on") \subseteq Notes /\ Keys(q, "off") \subseteq Notes
<1>1. \A j \in DOMAIN q : q[j] \in Events \union {Choke}
  OBVIOUS
<1>2. \A e \in Events \union {Choke} : e.kind = "on" \/ e.kind = "off" => e.key \in Notes
  BY DEF Events, On, Off, Choke
<1> QED
  BY <1>1, <1>2, Zenon DEF Keys

LEMMA SubmitO == EInv /\ Others /\ Submit => Others'
<1> SUFFICES ASSUME EInv, Others, Submit PROVE Others'
  OBVIOUS
<1>0. Typed
  BY DEF EInv
<1>1. UNCHANGED <<down, up, output, lost, made, spill, held, tails, deaths, torn>>
  BY DEF Submit, childVars, plugin
<1>2. voices' \in [Notes -> Nat] /\ news' \in {"none", "due", "told"}
  BY DEF Submit, Others, VoicesAfterRespawn, NoVoices
<1>3. WindowOf \in Seq(Events \union {Choke}) /\ Len(WindowOf) <= Window
  BY <1>0, WindowOfIs
<1>4. counting' \subseteq Notes
  <2>1. counting' = Keys(WindowOf, "on") \/ counting' = {}
    BY Zenon DEF Submit, WindowOf, ChokeOf, DroppedOf, KeptOf, AllOf
  <2> QED
    BY <2>1, <1>3, KeysOfNotes
<1>5. \A i \in SlotIds : Len(input'[i]) <= Window
  <2>1. input' = [input EXCEPT ![slot_index(submitted + 1)] = WindowOf] \/ input' = input
    BY SubmitIs, Zenon
  <2>2. input \in [SlotIds -> Seq(Events \union {Choke})]
    BY <1>0 DEF Typed
  <2>3. \A i \in SlotIds : Len(input[i]) <= Window
    BY DEF Others
  <2> TAKE i \in SlotIds
  <2>4. input'[i] = input[i] \/ input'[i] = WindowOf
    BY <2>1, <2>2
  <2> QED
    BY <2>3, <2>4, <1>3
<1> QED
  BY <1>1, <1>2, <1>4, <1>5 DEF Others

LEMMA HostO == EInv /\ Others /\ (Drain \/ Read \/ Revalidate \/ Count) => Others'
<1> SUFFICES ASSUME EInv, Others, Drain \/ Read \/ Revalidate \/ Count PROVE Others'
  OBVIOUS
<1>1. UNCHANGED <<down, up, input, output, made, spill, held, tails, news, deaths>>
  BY DEF Drain, Read, Revalidate, Count, engine, region, childVars, plugin, respawn
<1>2. counting' \subseteq Notes /\ lost' \in BOOLEAN
  BY DEF Drain, Read, Revalidate, Count, region, Others
<1>4. torn' \in BOOLEAN
  <2>1. CASE Read
    <3>1. torn' = (torn \/ (child = "tag" /\ slot_index(last + 1) = slot_index(next)))
      BY <2>1, Zenon DEF Read
    <3> QED
      BY <3>1, Zenon
  <2>2. CASE ~Read
    BY <2>2 DEF Drain, Revalidate, Count, history, Others
  <2> QED
    BY <2>1, <2>2
<1>3. voices' \in [Notes -> Nat]
  <2>1. CASE voices' = voices
    BY <2>1 DEF Others
  <2>2. CASE voices' = NoVoices
    BY <2>2 DEF NoVoices
  <2>3. ASSUME NEW ends, voices' = Without(voices, ends) PROVE voices' \in [Notes -> Nat]
    <3> voices \in [Notes -> Nat]
      BY DEF Others
    <3> QED
      BY <2>3 DEF Without
  <2>4. CASE Count
    <3> DEFINE v(n) == (IF lost THEN 0 ELSE voices[n]) + (IF n \in counting THEN 1 ELSE 0)
    <3>1. voices' = [n \in Notes |-> v(n)]
      BY <2>4 DEF Count
    <3>2. ASSUME NEW n \in Notes PROVE v(n) \in Nat
      <4>1. voices[n] \in Nat
        BY DEF Others
      <4> QED
        BY <4>1
    <3> QED
      BY <3>1, <3>2
  <2> QED
    BY <2>1, <2>2, <2>3, <2>4, Zenon DEF Drain, Done, Recover, Read, Revalidate, VoicesAfterGap
<1> QED
  BY <1>1, <1>2, <1>3, <1>4 DEF Others

\* Process, with its local names.
LEMMA ProcessPlays ==
  ASSUME Process
  PROVE  \E quiet \in SUBSET (Played(input[slot_index(NextSeq)]).held
                              \union Played(input[slot_index(NextSeq)]).tails) :
            /\ held' = Played(input[slot_index(NextSeq)]).held \ quiet
            /\ tails' = Played(input[slot_index(NextSeq)]).tails \ quiet
            /\ made' = Played(input[slot_index(NextSeq)]).out
                          \o SetToSeq({Ended(n) : n \in quiet})
            /\ brief' = brief \union (Keys(input[slot_index(NextSeq)], "on")
                                        \cap Keys(made', "end"))
<1> PICK w, p : w = input[slot_index(NextSeq)] /\ p = Played(w)
  OBVIOUS
<1>1. PICK quiet \in IF Vst3 THEN {{}} ELSE SUBSET (p.held \union p.tails) :
         /\ held' = p.held \ quiet /\ tails' = p.tails \ quiet
         /\ made' = p.out \o SetToSeq({Ended(n) : n \in quiet})
         /\ brief' = brief \union (Keys(w, "on") \cap Keys(made', "end"))
  BY Zenon DEF Process, Played, Before
<1>2. quiet \in SUBSET (p.held \union p.tails)
  BY EventsAssumption
<1> QED
  BY <1>1, <1>2, Zenon

LEMMA ProcessO == EInv /\ Others /\ Process => Others'
<1> SUFFICES ASSUME EInv, Others, Process PROVE Others'
  OBVIOUS
<1>1. UNCHANGED <<down, up, counting, voices, input, output, lost, spill, news, deaths, torn>>
  BY DEF Process, engine, hostVars, region, respawn
<1> PICK p : p = Played(input[slot_index(NextSeq)])
  OBVIOUS
<1>2. p \in Player
  <2>1. NextSeq \in Nat
    BY DEF NextSeq, EInv, Typed
  <2>2. input[slot_index(NextSeq)] \in Seq(Events \union {Choke})
    BY <2>1, SlotType DEF EInv, Typed, SlotIds
  <2> QED
    BY <2>2, PlayedType DEF Others
<1>3. PICK quiet \in SUBSET (p.held \union p.tails) :
         held' = p.held \ quiet /\ tails' = p.tails \ quiet
           /\ made' = p.out \o SetToSeq({Ended(n) : n \in quiet})
  BY ProcessPlays, Zenon
<1>4. p.held \subseteq Notes /\ p.tails \subseteq Notes /\ p.out \in Seq(Ends)
  BY <1>2 DEF Player
<1>5. SetToSeq({Ended(n) : n \in quiet}) \in Seq(Ends)
  BY <1>4, EndsOfFinite
<1>6. held' \subseteq Notes /\ tails' \subseteq Notes /\ made' \in Seq(Ends)
  BY <1>3, <1>4, <1>5
<1> QED
  BY <1>1, <1>6 DEF Others

LEMMA WriteO == EInv /\ Others /\ Write => Others'
<1> SUFFICES ASSUME EInv, Others, Write PROVE Others'
  OBVIOUS
<1>1. UNCHANGED <<down, up, counting, voices, input, held, tails, news, deaths, torn>>
  BY DEF Write, engine, hostVars, plugin, respawn, history
<1> PICK all : all = spill \o made
  OBVIOUS
<1> PICK kept : kept = First(all, Window + Spill)
  OBVIOUS
<1>2. all \in Seq(Ends)
  BY DEF Others
<1>3. kept \in Seq(Ends) /\ Len(kept) <= Window + Spill /\ Window + Spill \in Nat
          /\ Len(kept) \in Nat
  <2>1. Window + Spill \in Nat
    BY Bounds
  <2>2. kept \in Seq(Ends) /\ Len(kept) <= Window + Spill
    BY <1>2, <2>1, FirstIs
  <2> QED
    BY <2>1, <2>2
<1>4. First(all, Window) \in Seq(Ends) /\ Len(First(all, Window)) <= Window
  BY <1>2, FirstIs, Bounds
<1>5. /\ output' = [output EXCEPT ![slot_index(last + 1)] = First(all, Window)]
      /\ spill' = SubSeq(kept, Window + 1, Len(kept)) /\ made' = <<>>
      /\ lost' = (lost \/ TellsLoss(Len(all)))
  BY Zenon DEF Write
<1>6. spill' \in Seq(Ends) /\ Len(spill') <= Spill
  BY <1>3, <1>5, RestType, Bounds
<1>7. output' \in [SlotIds -> Seq(Ends)] /\ \A i \in SlotIds : Len(output'[i]) <= Window
  <2>1. \A i \in SlotIds : output'[i] = output[i] \/ output'[i] = First(all, Window)
    BY <1>5 DEF Others
  <2>2. \A i \in SlotIds : output'[i] \in Seq(Ends) /\ Len(output'[i]) <= Window
    BY <2>1, <1>4 DEF Others
  <2> QED
    BY <2>2, <1>4, <1>5 DEF Others
<1>8. made' \in Seq(Ends) /\ lost' \in BOOLEAN
  BY <1>5 DEF Others, TellsLoss
<1> QED
  BY <1>1, <1>6, <1>7, <1>8 DEF Others

LEMMA StepO == EInv /\ Others /\ [Next]_vars => Others'
<1> SUFFICES ASSUME EInv, Others, [Next]_vars PROVE Others'
  OBVIOUS
<1>1. ASSUME NEW n \in Notes, NoteOn(n) \/ NoteOff(n) PROVE Others'
  BY <1>1 DEF NoteOn, NoteOff, hostVars, region, childVars, plugin, respawn, history, Others
<1>2. CASE Tag
  BY <1>2 DEF Tag, engine, hostVars, plugin, respawn, history, Others
<1>3. CASE Die
  <2>1. deaths' \in 0 .. MaxDeaths
    BY <1>3, Bounds DEF Die, Others
  <2>2. <<>> \in Seq(Ends) /\ Len(<<>>) = 0
    OBVIOUS
  <2> QED
    BY <1>3, <2>1, <2>2, Bounds DEF Die, engine, hostVars, region, Others
<1>4. CASE Respawn \/ CountRespawn
  BY <1>4 DEF Respawn, CountRespawn, engine, hostVars, region, childVars, plugin, history, Others
<1>5. CASE UNCHANGED vars
  BY <1>5 DEF vars, engine, hostVars, region, childVars, plugin, respawn, history, Others
<1> QED
  BY <1>1, <1>2, <1>3, <1>4, <1>5, SubmitO, HostO, ProcessO, WriteO DEF Next, HostStep, ChildStep

\* The rest of the types: what the plugin answers to a window are ends of notes, whatever the
\* window (a fold over it), and the voice table counts in natural numbers.
THEOREM InductiveO == Spec => [](EInv /\ Others)
<1>1. Init => EInv /\ Others
  BY InitE, InitO
<1>2. EInv /\ Others /\ [Next]_vars => EInv' /\ Others'
  BY StepE, StepO
<1> QED
  BY <1>1, <1>2, PTL DEF Spec

\* The type invariant: neither the backlog, nor a window, nor the spill queue ever holds more
\* than it is built for.
THEOREM TypeCorrect == Spec => []TypeOK
<1>1. EInv /\ Others => TypeOK
  <2> SUFFICES ASSUME EInv, Others PROVE TypeOK
    OBVIOUS
  <2>1. ASSUME NEW i \in 0 .. Slots - 1
        PROVE  /\ input[i] \in Seq(Events \cup {Choke}) /\ Len(input[i]) <= Window
               /\ output[i] \in Seq(Ends) /\ Len(output[i]) <= Window
               /\ tag[i] \in 0 .. MaxBlocks
    <3>1. i \in SlotIds
      BY DEF SlotIds
    <3>2. input[i] \in Seq(Events \cup {Choke}) /\ output[i] \in Seq(Ends)
      BY <3>1 DEF EInv, Typed, Others
    <3>3. Len(input[i]) <= Window /\ Len(output[i]) <= Window
      BY <3>1 DEF Others
    <3>4. tag[i] \in 0 .. MaxBlocks
      BY <3>1, Bounds DEF EInv, Typed
    <3> QED
      BY <3>2, <3>3, <3>4
  <2>2. submitted \in 0 .. MaxBlocks /\ done \in 0 .. MaxBlocks /\ last \in 0 .. MaxBlocks
          /\ cursor \in 0 .. submitted
    BY Bounds DEF EInv, Typed
  <2> QED
    BY <2>1, <2>2 DEF EInv, Typed, Others, TypeOK
<1> QED
  BY <1>1, InductiveO, PTL

(***************************************************************************)
(* What releases a note.                                                   *)
(***************************************************************************)

HasOn(q, n) == \E j \in 1 .. Len(q) : q[j] = On(n)

\* The last event about the note releases it.
Quells(q, n) ==
    \E i \in 1 .. Len(q) : q[i] \in {Off(n), Choke} /\ \A j \in i + 1 .. Len(q) : q[j] # On(n)

\* The note is not switched on behind block k.
NoMore(n, k) ==
    /\ ~HasOn(AllOf, n)
    /\ \A m \in k + 1 .. submitted : ~HasOn(input[slot_index(m)], n)

\* It is off, or something that is on its way will release it.
Ending(n) ==
    \/ n \notin held /\ NoMore(n, Processed)
    \/ \E k \in Processed + 1 .. submitted : Quells(input[slot_index(k)], n) /\ NoMore(n, k)
    \/ flush /\ ~HasOn(AllOf, n)
    \/ Quells(AllOf, n)

\* Before any death: every note that was switched off, and not overtaken, will end.
Quelled == ~Vst3 /\ deaths = 0 => \A n \in up \ overtaken : Ending(n)

LEMMA HasOnFront ==
  ASSUME NEW X, NEW q \in Seq(X), NEW m \in Nat, m <= Len(q), NEW n, ~HasOn(q, n)
  PROVE  ~HasOn(SubSeq(q, 1, m), n) /\ ~HasOn(SubSeq(q, m + 1, Len(q)), n)
<1>1. Len(SubSeq(q, 1, m)) = m /\ \A j \in 1 .. m : SubSeq(q, 1, m)[j] = q[j]
  OBVIOUS
<1>2. /\ Len(SubSeq(q, m + 1, Len(q))) = Len(q) - m
      /\ \A j \in 1 .. Len(q) - m : SubSeq(q, m + 1, Len(q))[j] = q[j + m]
  OBVIOUS
<1>3. Len(q) \in Nat
  OBVIOUS
<1> QED
  BY <1>1, <1>2, <1>3 DEF HasOn

\* Cut in two, one of the parts releases the note, the second or, if the second does not
\* switch it on, the first.
LEMMA QuellsHalves ==
  ASSUME NEW X, NEW q \in Seq(X), NEW m \in Nat, m <= Len(q), NEW n, Quells(q, n)
  PROVE  \/ Quells(SubSeq(q, m + 1, Len(q)), n)
         \/ Quells(SubSeq(q, 1, m), n) /\ ~HasOn(SubSeq(q, m + 1, Len(q)), n)
<1>1. Len(SubSeq(q, 1, m)) = m /\ \A j \in 1 .. m : SubSeq(q, 1, m)[j] = q[j]
  OBVIOUS
<1> PICK r : r = SubSeq(q, m + 1, Len(q))
  OBVIOUS
<1>2. Len(r) = Len(q) - m /\ \A j \in 1 .. Len(q) - m : r[j] = q[j + m]
  OBVIOUS
<1>3. Len(q) \in Nat
  OBVIOUS
<1>4. PICK i \in 1 .. Len(q) : q[i] \in {Off(n), Choke} /\ \A j \in i + 1 .. Len(q) : q[j] # On(n)
  BY DEF Quells
<1>5. CASE i <= m
  <2>1. Quells(SubSeq(q, 1, m), n)
    <3>1. i \in 1 .. m /\ \A j \in i + 1 .. m : j \in i + 1 .. Len(q) /\ j \in 1 .. m
      BY <1>3, <1>5
    <3> QED
      BY <1>1, <1>4, <3>1, Zenon DEF Quells
  <2>2. ~HasOn(r, n)
    <3> SUFFICES ASSUME NEW j \in 1 .. Len(r) PROVE r[j] # On(n)
      BY DEF HasOn
    <3>1. j + m \in i + 1 .. Len(q) /\ r[j] = q[j + m]
      BY <1>2, <1>3, <1>5
    <3> QED
      BY <3>1, <1>4
  <2> QED
    BY <2>1, <2>2
<1>6. CASE i > m
  <2>1. i - m \in 1 .. Len(r) /\ r[i - m] = q[i]
    <3>1. i - m \in 1 .. Len(q) - m /\ (i - m) + m = i
      BY <1>3, <1>6
    <3> QED
      BY <3>1, <1>2
  <2>2. ASSUME NEW j \in (i - m) + 1 .. Len(r) PROVE r[j] # On(n)
    <3>1. Len(r) = Len(q) - m
      BY <1>2
    <3>2. j \in 1 .. Len(q) - m /\ j + m \in i + 1 .. Len(q)
      <4> PICK l, k : l = Len(q) /\ k = Len(r)
        OBVIOUS
      <4>1. l \in Nat /\ k = l - m /\ i \in 1 .. l /\ j \in (i - m) + 1 .. k
        BY <1>3, <3>1
      <4>2. j \in 1 .. l - m /\ j + m \in i + 1 .. l
        BY <1>6, <4>1
      <4> QED
        BY <4>2
    <3> QED
      BY <3>2, <1>2, <1>4
  <2>3. Quells(r, n)
    BY <2>1, <2>2, <1>4 DEF Quells
  <2> QED
    BY <2>3
<1> QED
  BY <1>3, <1>5, <1>6

\* A choke in front releases what the rest does not switch on.
LEMMA ChokeQuells ==
  ASSUME NEW q \in Seq(Events), NEW n, ~HasOn(q, n)
  PROVE  Quells(<<Choke>> \o q, n)
<1> PICK w : w = <<Choke>> \o q
  OBVIOUS
<1>1. Len(w) = Len(q) + 1 /\ w[1] = Choke /\ Len(q) \in Nat
        /\ \A j \in 2 .. Len(q) + 1 : w[j] = q[j - 1] /\ j - 1 \in 1 .. Len(q)
  OBVIOUS
<1>2. \A j \in 1 + 1 .. Len(w) : w[j] # On(n)
  BY <1>1 DEF HasOn
<1>3. 1 \in 1 .. Len(w)
  BY <1>1
<1> QED
  BY <1>1, <1>2, <1>3 DEF Quells

LEMMA ChokeHasNoOn ==
  ASSUME NEW head \in {<<>>, <<Choke>>}, NEW q \in Seq(Events), NEW n \in Notes
  PROVE  /\ HasOn(head \o q, n) <=> HasOn(q, n)
         /\ Quells(q, n) => Quells(head \o q, n)
<1>1. CASE head = <<>>
  <2>1. <<>> \o q = q
    OBVIOUS
  <2> QED
    BY <1>1, <2>1, Zenon
<1>2. CASE head = <<Choke>>
  <2> PICK w : w = <<Choke>> \o q
    OBVIOUS
  <2>1. Len(w) = Len(q) + 1 /\ w[1] = Choke /\ Len(q) \in Nat
          /\ \A j \in 1 .. Len(q) : w[j + 1] = q[j] /\ j + 1 \in 1 .. Len(w)
    OBVIOUS
  <2>2. Choke # On(n)
    BY DEF Choke, On
  <2>3. HasOn(w, n) => HasOn(q, n)
    <3> SUFFICES ASSUME NEW j \in 1 .. Len(w), w[j] = On(n) PROVE HasOn(q, n)
      BY DEF HasOn
    <3>1. j - 1 \in 1 .. Len(q) /\ (j - 1) + 1 = j
      BY <2>1, <2>2
    <3>2. q[j - 1] = On(n)
      BY <2>1, <3>1
    <3> QED
      BY <3>1, <3>2 DEF HasOn
  <2>4. HasOn(q, n) => HasOn(w, n)
    BY <2>1 DEF HasOn
  <2>5. ASSUME Quells(q, n) PROVE Quells(w, n)
    <3>1. PICK i \in 1 .. Len(q) : /\ q[i] \in {Off(n), Choke}
                                   /\ \A j \in i + 1 .. Len(q) : q[j] # On(n)
      BY <2>5 DEF Quells
    <3>2. i + 1 \in 1 .. Len(w) /\ w[i + 1] \in {Off(n), Choke}
      BY <2>1, <3>1
    <3>3. ASSUME NEW j \in (i + 1) + 1 .. Len(w) PROVE w[j] # On(n)
      <4>1. j - 1 \in i + 1 .. Len(q) /\ j - 1 \in 1 .. Len(q) /\ (j - 1) + 1 = j
        BY <2>1
      <4>2. w[j] = q[j - 1]
        BY <2>1, <4>1
      <4> QED
        BY <3>1, <4>1, <4>2
    <3> QED
      BY <3>2, <3>3 DEF Quells
  <2> QED
    BY <1>2, <2>3, <2>4, <2>5
<1> QED
  BY <1>1, <1>2

\* A window that quells a note leaves it off.
LEMMA PlayedOff ==
  ASSUME ~Vst3, held \subseteq Notes, tails \subseteq Notes, NEW w \in Seq(Events \union {Choke}),
         NEW n \in Notes, (n \notin held /\ ~HasOn(w, n)) \/ Quells(w, n)
  PROVE  n \notin Played(w).held
<1> PICK f : /\ After(f, Before, w, Len(w)) /\ Played(w) = f[Len(w)]
             /\ \A i \in 0 .. Len(w) : f[i] \in Player
  BY PlayedIs
<1>0. Len(w) \in Nat /\ 0 \in 0 .. Len(w)
  OBVIOUS
<1>1. CASE n \notin held /\ ~HasOn(w, n)
  <2>1. f[0] = Before /\ Before.held = held
    BY DEF After, Before
  <2>2. \A j \in 0 + 1 .. Len(w) : w[j] # On(n)
    BY <1>1 DEF HasOn
  <2> QED
    BY <1>0, <1>1, <2>1, <2>2, StaysOff
<1>2. CASE Quells(w, n)
  <2>1. PICK i \in 1 .. Len(w) : w[i] \in {Off(n), Choke} /\ \A j \in i + 1 .. Len(w) : w[j] # On(n)
    BY <1>2 DEF Quells
  <2>2. i \in 0 .. Len(w) /\ i - 1 \in 0 .. Len(w) /\ w[i] \in Events \union {Choke}
    BY <1>0
  <2> PICK e \in Events \union {Choke} : e = w[i]
    BY <2>2
  <2> PICK p \in Player : p = f[i - 1]
    BY <2>2
  <2>3. f[i] = classify_event(p, e)
    BY DEF After
  <2>4. n \notin classify_event(p, e).held
    <3>1. CASE e = Off(n)
      <4>1. e.kind = "off" /\ e.key = n
        BY <3>1 DEF Off
      <4> QED
        BY <4>1, OneEvent
    <3>2. CASE e = Choke
      <4>1. e.kind = "choke"
        BY <3>2 DEF Choke
      <4> QED
        BY <4>1, OneEvent
    <3> QED
      BY <2>1, <3>1, <3>2
  <2> QED
    BY <2>1, <2>2, <2>3, <2>4, StaysOff
<1> QED
  BY <1>1, <1>2

\* One event more that does not switch the note on.
LEMMA AppendOther ==
  ASSUME NEW q \in Seq(Events), NEW e \in Events, NEW n, e # On(n)
  PROVE  /\ ~HasOn(q, n) => ~HasOn(Append(q, e), n)
         /\ Quells(q, n) => Quells(Append(q, e), n)
         /\ e = Off(n) => Quells(Append(q, e), n)
<1> PICK w : w = Append(q, e)
  OBVIOUS
<1>1. Len(w) = Len(q) + 1 /\ Len(q) \in Nat /\ w[Len(q) + 1] = e
        /\ \A j \in 1 .. Len(q) : w[j] = q[j]
  OBVIOUS
<1>2. \A j \in 1 .. Len(w) : j \in 1 .. Len(q) \/ j = Len(q) + 1
  BY <1>1
<1>3. ~HasOn(q, n) => ~HasOn(w, n)
  BY <1>1, <1>2, Zenon DEF HasOn
<1>4. ASSUME Quells(q, n) PROVE Quells(w, n)
  <2>1. PICK i \in 1 .. Len(q) : q[i] \in {Off(n), Choke} /\ \A j \in i + 1 .. Len(q) : q[j] # On(n)
    BY <1>4 DEF Quells
  <2>2. i \in 1 .. Len(w) /\ w[i] \in {Off(n), Choke}
    BY <1>1, <2>1
  <2>3. \A j \in i + 1 .. Len(w) : w[j] # On(n)
    BY <1>1, <2>1
  <2> QED
    BY <2>2, <2>3 DEF Quells
<1>5. ASSUME e = Off(n) PROVE Quells(w, n)
  <2>1. Len(q) + 1 \in 1 .. Len(w) /\ \A j \in (Len(q) + 1) + 1 .. Len(w) : w[j] # On(n)
    BY <1>1
  <2> QED
    BY <2>1, <1>1, <1>5 DEF Quells
<1> QED
  BY <1>3, <1>4, <1>5

\* Steps that move nothing.
LEMMA EndingKept ==
  ASSUME NEW n, Ending(n), UNCHANGED <<held, flush, submitted, input, Processed, AllOf>>
  PROVE  Ending(n)'
BY Zenon DEF Ending, NoMore

LEMMA NoteEventsQ ==
  ASSUME NEW m \in Notes
  PROVE  EInv /\ Others /\ Quelled /\ (NoteOn(m) \/ NoteOff(m)) => Quelled'
<1> SUFFICES ASSUME EInv, Others, Quelled, NoteOn(m) \/ NoteOff(m), ~Vst3, deaths' = 0,
                    NEW n \in up' \ overtaken'
             PROVE  Ending(n)'
  BY DEF Quelled
<1>1. UNCHANGED <<backlog, flush, submitted, input, child, last, held, deaths, overtaken,
                  Processed>>
  BY DEF NoteOn, NoteOff, queue, region, childVars, plugin, respawn, history, Processed
<1>2. AllOf \in Seq(Events)
  BY Queue DEF EInv
<1>3. PICK e \in Events : incoming' = Append(incoming, e) /\ e # On(n)
                            /\ (n \in up \ overtaken \/ e = Off(n))
  <2>1. CASE NoteOn(m)
    <3>1. m # n /\ n \in up
      BY <2>1 DEF NoteOn, Others
    <3>2. On(m) # On(n) /\ On(m) \in Events
      BY <3>1 DEF On, Events
    <3> QED
      BY <2>1, <3>1, <3>2, <1>1 DEF NoteOn
  <2>2. CASE NoteOff(m)
    <3>1. Off(m) # On(n) /\ Off(m) \in Events
      BY DEF On, Off, Events
    <3> QED
      BY <2>2, <3>1, <1>1 DEF NoteOff
  <2> QED
    BY <2>1, <2>2
<1>4. AllOf' = Append(AllOf, e)
  <2>1. incoming \in Seq(Events) /\ backlog \in Seq(Events)
    BY DEF EInv, Typed
  <2>2. backlog \o Append(incoming, e) = Append(backlog \o incoming, e)
    BY <2>1
  <2> QED
    BY <2>2, <1>1, <1>3, Zenon DEF AllOf
<1>5. /\ ~HasOn(AllOf, n) => ~HasOn(AllOf', n)
      /\ Quells(AllOf, n) => Quells(AllOf', n)
      /\ e = Off(n) => Quells(AllOf', n)
  BY <1>2, <1>3, <1>4, AppendOther
<1>6. CASE e = Off(n)
  BY <1>5, <1>6, Zenon DEF Ending
<1>7. CASE n \in up \ overtaken
  <2>1. Ending(n)
    BY <1>1, <1>7 DEF Quelled
  <2> QED
    BY <2>1, <1>1, <1>5, Zenon DEF Ending, NoMore
<1> QED
  BY <1>3, <1>6, <1>7

LEMMA ProcessQ == EInv /\ Others /\ Quelled /\ Process => Quelled'
<1> SUFFICES ASSUME EInv, Others, Quelled, Process, ~Vst3, deaths' = 0,
                    NEW n \in up' \ overtaken'
             PROVE  Ending(n)'
  BY DEF Quelled
<1>1. UNCHANGED <<up, overtaken, backlog, incoming, flush, submitted, input, deaths, AllOf>>
  BY DEF Process, engine, queue, region, respawn, AllOf
<1>2. last \in Nat /\ submitted \in Nat /\ last < submitted /\ Processed = last
        /\ Processed' = last + 1
  <2>1. last \in Nat /\ submitted \in Nat
    BY DEF EInv, Typed
  <2>2. child = "poll" /\ last < submitted /\ child' = "write" /\ last' = last
    BY <2>1, ProcessIs DEF NextSeq
  <2> QED
    BY <2>1, <2>2 DEF Processed
<1>3. Ending(n)
  BY <1>1 DEF Quelled
<1>4. n \in Notes /\ held \subseteq Notes /\ tails \subseteq Notes
  BY <1>1 DEF Others
<1> PICK w : w = input[slot_index(last + 1)]
  OBVIOUS
<1>5. w \in Seq(Events \union {Choke}) /\ held' \subseteq Played(w).held
  <2>1. slot_index(last + 1) \in SlotIds
    BY <1>2, SlotType DEF SlotIds
  <2> QED
    BY <2>1, ProcessPlays DEF EInv, Typed, NextSeq
<1>6. ASSUME (n \notin held /\ ~HasOn(w, n)) \/ Quells(w, n) PROVE n \notin held'
  BY <1>4, <1>5, <1>6, PlayedOff
<1>7. CASE n \notin held /\ NoMore(n, Processed)
  <2>1. last + 1 \in last + 1 .. submitted
            /\ \A k \in (last + 1) + 1 .. submitted : k \in last + 1 .. submitted
    BY <1>2
  <2>2. ~HasOn(w, n) /\ ~HasOn(AllOf, n)
          /\ \A k \in (last + 1) + 1 .. submitted : ~HasOn(input[slot_index(k)], n)
    BY <2>1, <1>2, <1>7, Zenon DEF NoMore
  <2>3. n \notin held'
    BY <2>2, <1>6, <1>7
  <2> QED
    BY <2>2, <2>3, <1>1, <1>2, Zenon DEF Ending, NoMore, slot_index
<1>8. ASSUME NEW k \in Processed + 1 .. submitted, Quells(input[slot_index(k)], n), NoMore(n, k)
      PROVE  Ending(n)'
  <2>1. CASE k = last + 1
    <3>1. n \notin held'
      BY <2>1, <1>6, <1>8
    <3> QED
      BY <3>1, <2>1, <1>1, <1>2, <1>8, Zenon DEF Ending, NoMore, slot_index
  <2>2. CASE k # last + 1
    <3>1. k \in (last + 1) + 1 .. submitted
      BY <2>2, <1>2
    <3> QED
      BY <3>1, <1>1, <1>2, <1>8, Zenon DEF Ending, NoMore, slot_index
  <2> QED
    BY <2>1, <2>2
<1>9. CASE (flush /\ ~HasOn(AllOf, n)) \/ Quells(AllOf, n)
  BY <1>1, <1>9, Zenon DEF Ending
<1> QED
  BY <1>3, <1>7, <1>8, <1>9, Zenon DEF Ending

LEMMA OtherStepsQ ==
  EInv /\ Others /\ Quelled
    /\ (Drain \/ Read \/ Revalidate \/ Count \/ Write \/ Tag \/ CountRespawn \/ UNCHANGED vars)
    => Quelled'
<1> SUFFICES ASSUME Quelled, ~Vst3, deaths' = 0, NEW n \in up' \ overtaken',
                    Drain \/ Read \/ Revalidate \/ Count \/ Write \/ Tag \/ CountRespawn
                      \/ UNCHANGED vars
             PROVE  Ending(n)'
  BY DEF Quelled
<1>1. UNCHANGED <<up, overtaken, backlog, incoming, flush, submitted, input, deaths, held>>
  BY DEF Drain, Read, Revalidate, Count, Write, Tag, CountRespawn, vars, engine, queue, region,
         plugin, respawn, history
<1>2. UNCHANGED Processed
  BY DEF Drain, Read, Revalidate, Count, Write, Tag, CountRespawn, vars, childVars, Processed
<1>3. UNCHANGED AllOf
  BY <1>1 DEF AllOf
<1>4. Ending(n)
  BY <1>1 DEF Quelled
<1> QED
  BY <1>1, <1>2, <1>3, <1>4, EndingKept

LEMMA DeathQ == EInv /\ Others /\ Quelled /\ (Die \/ Respawn) => Quelled'
<1> SUFFICES ASSUME EInv, Die \/ Respawn, deaths' = 0 PROVE FALSE
  BY DEF Quelled
<1>1. deaths \in Nat
  BY DEF EInv, Typed
<1> QED
  BY <1>1 DEF EInv, Places, Die, Respawn

\* What is dropped is behind what is kept.
LEMMA AllHalves ==
  ASSUME Typed
  PROVE  /\ AllOf \in Seq(Events) /\ Len(KeptOf) \in Nat /\ Len(KeptOf) <= Len(AllOf)
         /\ KeptOf = SubSeq(AllOf, 1, Len(KeptOf))
<1>1. AllOf \in Seq(Events)
  BY Queue
<1>2. /\ KeptOf \in Seq(Events) /\ Len(KeptOf) <= Len(AllOf)
      /\ KeptOf = SubSeq(AllOf, 1, Len(KeptOf))
  BY <1>1, FirstIs, Bounds DEF KeptOf, Kept
<1> QED
  BY <1>1, <1>2

LEMMA KeysAre ==
  ASSUME NEW q \in Seq(Events), NEW n \in Notes
  PROVE  /\ n \notin Keys(q, "on") => ~HasOn(q, n)
         /\ (\E i \in 1 .. Len(q) : q[i] = Off(n)) => n \in Keys(q, "off")
<1>1. DOMAIN q = 1 .. Len(q)
  OBVIOUS
<1>2. On(n).kind = "on" /\ On(n).key = n /\ Off(n).kind = "off" /\ Off(n).key = n
  BY DEF On, Off
<1> QED
  BY <1>1, <1>2, Zenon DEF Keys, HasOn

\* A choke is asked for if what is dropped would have released the note.
LEMMA DroppedAsks ==
  ASSUME Typed, NEW n \in Notes, Quells(DroppedOf, n),
         n \notin Keys(DroppedOf, "off") \cap Keys(AllOf, "on")
  PROVE  ChokeOf /\ ~HasOn(AllOf, n)
<1>1. DroppedOf \in Seq(Events) /\ AllOf \in Seq(Events)
  BY Queue
<1>2. PICK i \in 1 .. Len(DroppedOf) : DroppedOf[i] \in {Off(n), Choke}
  BY DEF Quells
<1>3. DroppedOf[i] = Off(n)
  BY <1>1, <1>2, EventsAreNotes
<1>4. n \in Keys(DroppedOf, "off")
  BY <1>1, <1>3, KeysAre
<1>5. ~HasOn(AllOf, n)
  BY <1>1, <1>4, KeysAre
<1>6. ChokeOf
  BY <1>4 DEF ChokeOf, AsksForChoke
<1> QED
  BY <1>5, <1>6

\* What the queue held of a note is in the new window, in the queue, or in the flag.
LEMMA QueueGoes ==
  ASSUME Typed, NEW n \in Notes
  PROVE  /\ ~HasOn(AllOf, n) =>
              /\ ~HasOn(KeptOf, n) /\ ~HasOn(WindowOf, n)
              /\ ~HasOn(SubSeq(KeptOf, FreshOf + 1, Len(KeptOf)), n)
              /\ ChokeOf => Quells(WindowOf, n)
         /\ Quells(KeptOf, n) =>
              \/ Quells(SubSeq(KeptOf, FreshOf + 1, Len(KeptOf)), n)
              \/ Quells(WindowOf, n) /\ ~HasOn(SubSeq(KeptOf, FreshOf + 1, Len(KeptOf)), n)
<1> PICK kept, fresh, window : kept = KeptOf /\ fresh = FreshOf /\ window = WindowOf
  OBVIOUS
<1> PICK front, rest : front = SubSeq(kept, 1, fresh) /\ rest = SubSeq(kept, fresh + 1, Len(kept))
  OBVIOUS
<1>1. kept \in Seq(Events) /\ fresh \in Nat /\ fresh <= Len(kept)
        /\ window = Choked \o front /\ Choked \in {<<>>, <<Choke>>}
  BY Queue, WindowOfIs DEF Choked
<1>2. front \in Seq(Events)
  BY <1>1
<1>3. ASSUME ~HasOn(AllOf, n)
      PROVE  /\ ~HasOn(kept, n) /\ ~HasOn(window, n) /\ ~HasOn(rest, n)
             /\ ChokeOf => Quells(window, n)
  <2>1. ~HasOn(kept, n)
    BY <1>3, AllHalves, HasOnFront
  <2>2. ~HasOn(front, n) /\ ~HasOn(rest, n)
    BY <1>1, <2>1, HasOnFront
  <2>3. HasOn(Choked \o front, n) <=> HasOn(front, n)
    BY <1>1, <1>2, ChokeHasNoOn, Zenon
  <2>5. ~HasOn(window, n)
    BY <1>1, <2>2, <2>3
  <2>4. ASSUME ChokeOf PROVE Quells(window, n)
    BY <1>1, <1>2, <2>2, <2>4, ChokeQuells DEF Choked
  <2> QED
    BY <2>1, <2>2, <2>5, <2>4
<1>4. ASSUME Quells(kept, n)
      PROVE  Quells(rest, n) \/ (Quells(window, n) /\ ~HasOn(rest, n))
  <2>1. Quells(rest, n) \/ (Quells(front, n) /\ ~HasOn(rest, n))
    BY <1>1, <1>4, QuellsHalves
  <2>2. Quells(front, n) => Quells(window, n)
    BY <1>1, <1>2, ChokeHasNoOn
  <2> QED
    BY <2>1, <2>2
<1> QED
  BY <1>3, <1>4

LEMMA SubmitQ == EInv /\ Others /\ Quelled /\ Submit => Quelled'
<1> SUFFICES ASSUME EInv, Others, Quelled, Submit, ~Vst3, deaths' = 0,
                    NEW n \in up' \ overtaken'
             PROVE  Ending(n)'
  BY DEF Quelled
<1>0. Typed /\ Places
  BY DEF EInv
<1>1. UNCHANGED <<up, deaths, held, child, last, done, Processed>> /\ incoming' = <<>>
  BY DEF Submit, childVars, plugin, Processed
<1>2. overtaken' = overtaken \union (Keys(DroppedOf, "off") \cap Keys(AllOf, "on"))
  BY Zenon DEF Submit, DroppedOf, KeptOf, AllOf
<1>3. n \in Notes /\ n \in up \ overtaken /\ n \notin Keys(DroppedOf, "off") \cap Keys(AllOf, "on")
  BY <1>1, <1>2 DEF Others
<1>4. Ending(n)
  BY <1>1, <1>3 DEF Quelled
<1> PICK rest : rest = SubSeq(KeptOf, FreshOf + 1, Len(KeptOf))
  OBVIOUS
<1>5. KeptOf \in Seq(Events) /\ rest \in Seq(Events)
  <2>1. KeptOf \in Seq(Events) /\ FreshOf \in Nat
    BY <1>0, Queue, WindowOfIs
  <2> QED
    BY <2>1, RestType
<1>6. \/ /\ slot_free(submitted + 1) /\ submitted' = submitted + 1
         /\ input' = [input EXCEPT ![slot_index(submitted + 1)] = WindowOf]
         /\ backlog' = rest
      \/ backlog' = KeptOf /\ flush' = ChokeOf /\ UNCHANGED <<submitted, input>>
  BY SubmitIs, Zenon
<1>7. AllOf' = backlog'
  <2>1. backlog' \in Seq(Events)
    BY <1>5, <1>6
  <2>2. backlog' \o <<>> = backlog'
    BY <2>1
  <2> QED
    BY <2>2, <1>1, Zenon DEF AllOf
<1>8. submitted \in Nat /\ Processed \in Nat /\ Processed <= submitted /\ last <= Processed
        /\ done = last /\ last \in Nat
  BY <1>0, <1>1 DEF Typed, Places, Processed
<1>9. /\ ~HasOn(AllOf, n) =>
           /\ ~HasOn(KeptOf, n) /\ ~HasOn(WindowOf, n) /\ ~HasOn(rest, n)
           /\ ChokeOf => Quells(WindowOf, n)
      /\ Quells(KeptOf, n) => Quells(rest, n) \/ (Quells(WindowOf, n) /\ ~HasOn(rest, n))
  BY <1>0, <1>3, QueueGoes
\* What is queued and quells either is kept and quells or asks for a choke.
<1>10. Quells(AllOf, n) => Quells(KeptOf, n) \/ (ChokeOf /\ ~HasOn(AllOf, n))
  <2> SUFFICES ASSUME Quells(AllOf, n), ~Quells(KeptOf, n) PROVE ChokeOf /\ ~HasOn(AllOf, n)
    OBVIOUS
  <2>1. Quells(DroppedOf, n)
    BY <1>0, AllHalves, QuellsHalves DEF DroppedOf
  <2> QED
    BY <2>1, <1>0, <1>3, DroppedAsks
<1>11. flush => ChokeOf
  BY DEF ChokeOf
<1>12. CASE backlog' = KeptOf /\ flush' = ChokeOf /\ UNCHANGED <<submitted, input>>
  <2>1. CASE ~HasOn(AllOf, n) /\ ChokeOf
    BY <2>1, <1>7, <1>9, <1>12, Zenon DEF Ending
  <2>2. CASE Quells(KeptOf, n)
    BY <2>2, <1>7, <1>12, Zenon DEF Ending
  <2>3. CASE n \notin held /\ NoMore(n, Processed)
    <3>1. ~HasOn(KeptOf, n)
      BY <2>3, <1>9 DEF NoMore
    <3> QED
      BY <3>1, <2>3, <1>1, <1>7, <1>12, Zenon DEF Ending, NoMore
  <2>4. ASSUME NEW k \in Processed + 1 .. submitted, Quells(input[slot_index(k)], n), NoMore(n, k)
        PROVE  Ending(n)'
    <3>1. ~HasOn(KeptOf, n)
      BY <2>4, <1>9 DEF NoMore
    <3> QED
      BY <3>1, <2>4, <1>1, <1>7, <1>12, Zenon DEF Ending, NoMore
  <2> QED
    BY <2>1, <2>2, <2>3, <2>4, <1>4, <1>10, <1>11, Zenon DEF Ending
<1>13. CASE /\ slot_free(submitted + 1) /\ submitted' = submitted + 1
            /\ input' = [input EXCEPT ![slot_index(submitted + 1)] = WindowOf]
            /\ backlog' = rest
  <2>1. submitted + 1 <= done + Slots
    BY <1>8, <1>13, Bounds DEF slot_free
  <2>2. \A k \in Processed + 1 .. submitted : input'[slot_index(k)] = input[slot_index(k)]
    <3> TAKE k \in Processed + 1 .. submitted
    <3>1. k \in Nat /\ submitted + 1 \in Nat /\ k < submitted + 1 /\ submitted + 1 < k + Slots
      BY <1>8, <2>1, Bounds
    <3>2. slot_index(k) # slot_index(submitted + 1)
      BY <3>1, SameSlot, Bounds
    <3>3. slot_index(k) \in SlotIds /\ slot_index(submitted + 1) \in SlotIds
      BY <3>1, SlotType DEF SlotIds
    <3> QED
      BY <3>2, <3>3, <1>13, <1>0 DEF Typed
  <2>3. input'[slot_index(submitted + 1)] = WindowOf
    <3>1. slot_index(submitted + 1) \in SlotIds
      BY <1>8, SlotType DEF SlotIds
    <3> QED
      BY <3>1, <1>13, <1>0 DEF Typed
  <2>4. ASSUME NEW k \in Processed .. submitted, NoMore(n, k)
        PROVE  ~HasOn(AllOf', n)
                 /\ \A m \in k + 1 .. submitted + 1 : ~HasOn(input'[slot_index(m)], n)
    <3>1. ~HasOn(rest, n) /\ ~HasOn(WindowOf, n)
      BY <2>4, <1>9 DEF NoMore
    <3>2. ASSUME NEW m \in k + 1 .. submitted + 1 PROVE ~HasOn(input'[slot_index(m)], n)
      <4>1. CASE m = submitted + 1
        BY <4>1, <3>1, <2>3
      <4>2. CASE m # submitted + 1
        <5>1. m \in k + 1 .. submitted /\ m \in Processed + 1 .. submitted
          BY <4>2, <1>8
        <5> QED
          BY <5>1, <2>2, <2>4 DEF NoMore
      <4> QED
        BY <4>1, <4>2
    <3> QED
      BY <3>1, <3>2, <1>7, <1>13
  <2>5. CASE n \notin held /\ NoMore(n, Processed)
    <3>1. Processed \in Processed .. submitted
      BY <1>8
    <3> QED
      BY <3>1, <2>4, <2>5, <1>1, <1>13, Zenon DEF Ending, NoMore, slot_index
  <2>6. ASSUME NEW k \in Processed + 1 .. submitted, Quells(input[slot_index(k)], n), NoMore(n, k)
        PROVE  Ending(n)'
    <3>1. k \in Processed .. submitted /\ k \in Processed + 1 .. submitted + 1
      BY <1>8
    <3>2. Quells(input'[slot_index(k)], n)
      BY <2>2, <2>6
    <3> QED
      BY <3>1, <3>2, <2>4, <2>6, <1>1, <1>13, Zenon DEF Ending, NoMore, slot_index
  \* The new window is the last one.
  <2>7. ASSUME Quells(WindowOf, n), ~HasOn(rest, n) PROVE Ending(n)'
    <3>1. submitted + 1 \in Processed + 1 .. submitted + 1
            /\ \A m \in (submitted + 1) + 1 .. submitted + 1 : FALSE
      BY <1>8
    <3>2. Quells(input'[slot_index(submitted + 1)], n) /\ ~HasOn(AllOf', n)
      BY <2>3, <2>7, <1>7, <1>13
    <3> QED
      BY <3>1, <3>2, <1>1, <1>13, Zenon DEF Ending, NoMore, slot_index
  <2>8. CASE ~HasOn(AllOf, n) /\ ChokeOf
    BY <2>7, <2>8, <1>9
  <2>9. CASE Quells(KeptOf, n)
    <3>1. CASE Quells(rest, n)
      BY <3>1, <1>7, <1>13, Zenon DEF Ending
    <3> QED
      BY <3>1, <2>7, <2>9, <1>9
  <2> QED
    BY <2>5, <2>6, <2>8, <2>9, <1>4, <1>10, <1>11, Zenon DEF Ending
<1> QED
  BY <1>6, <1>12, <1>13

LEMMA StepQ == EInv /\ Others /\ Quelled /\ [Next]_vars => Quelled'
BY NoteEventsQ, SubmitQ, ProcessQ, OtherStepsQ, DeathQ DEF Next, HostStep, ChildStep

\* A released note is on its way to be released, or was overtaken: its off, or a choke behind
\* its last on, is in the backlog, in a window, or asked for by the sticky flag.
THEOREM InductiveQ == Spec => [](EInv /\ Others /\ Quelled)
<1>1. Init => EInv /\ Others /\ Quelled
  <2>1. Init => Quelled
    BY DEF Init, Quelled
  <2> QED
    BY <2>1, InitE, InitO
<1>2. EInv /\ Others /\ Quelled /\ [Next]_vars => EInv' /\ Others' /\ Quelled'
  BY StepE, StepO, StepQ
<1> QED
  BY <1>1, <1>2, PTL DEF Spec

\* A note whose NoteOff found the backlog full does not stay held by a CLAP plugin, unless
\* its NoteOn was waiting in the same backlog (the sticky flag of EventBackingRing).
THEOREM ChokesSurvive == Spec => []ChokeProtects
<1>1. EInv /\ Others /\ Quelled => ChokeProtects
  <2> SUFFICES ASSUME EInv, Others, Quelled, ~Vst3, deaths = 0, Settled,
                      NEW n \in held \cap up, n \notin overtaken
               PROVE  FALSE
    BY DEF ChokeProtects
  <2>1. Ending(n)
    BY DEF Quelled
  <2>2. Processed = submitted /\ submitted \in Nat /\ ~flush /\ AllOf = <<>>
    <3>1. <<>> \o <<>> = <<>>
      OBVIOUS
    <3> QED
      BY <3>1 DEF Settled, Processed, AllOf, EInv, Typed
  <2>3. ~Quells(AllOf, n)
    <3>1. \A i : ~(i \in 1 .. Len(<<>>))
      OBVIOUS
    <3> QED
      BY <2>2, <3>1, Zenon DEF Quells
  <2>4. \A k : ~(k \in Processed + 1 .. submitted)
    BY <2>2
  <2> QED
    BY <2>1, <2>2, <2>3, <2>4, Zenon DEF Ending
<1> QED
  BY <1>1, InductiveQ, PTL

(***************************************************************************)
(* The voice table.                                                        *)
(***************************************************************************)

\* The note ends, in a list of what the child reports.
EndIn(q, n) == \E i \in 1 .. Len(q) : q[i] \in {Ended(n), Ended(All)}

\* The note's own end is in a list of what the child reports.
HasEnd(q, n) == \E i \in 1 .. Len(q) : q[i] = Ended(n)

\* The note is switched on and no choke is behind that.
Sounds(q, n) ==
    \E i \in 1 .. Len(q) : q[i] = On(n) /\ \A j \in i + 1 .. Len(q) : q[j] # Choke

\* What the plugin has of a note, or has reported of it.
Lasting(p, n) == n \in p.held \union p.tails \/ EndIn(p.out, n)

\* The same, when the report is of this note alone.
Keeping(p, n) == n \in p.held \union p.tails \/ HasEnd(p.out, n)

LEMMA SetToSeqAll ==
  ASSUME NEW S, IsFiniteSet(S), NEW e \in S
  PROVE  \E i \in 1 .. Len(SetToSeq(S)) : SetToSeq(S)[i] = e
<1> DEFINE n == Cardinality(S)
           One(f) == f \in [1 .. n -> S] /\ IsInjective(f)
<1>1. n \in Nat /\ ExistsBijection(1 .. n, S)
  BY FS_CardinalityType
<1>2. \E f : One(f)
  BY <1>1 DEF ExistsBijection, Bijection, Injection
<1>3. \E f \in [1 .. n -> S] : IsInjective(f)
  BY <1>2
<1> PICK g : g = SetToSeq(S)
  OBVIOUS
<1>4. g \in [1 .. n -> S] /\ IsInjective(g)
  BY <1>3, Zenon DEF SetToSeq
<1> HIDE DEF n
<1>5. IsFiniteSet(1 .. n) /\ Cardinality(1 .. n) = Cardinality(S)
  BY <1>1, FS_Interval DEF n
<1>6. g \in Injection(1 .. n, S)
  BY <1>4 DEF Injection
<1>7. g \in Surjection(1 .. n, S)
  BY <1>5, <1>6, FS_Injection
<1>8. \E i \in 1 .. n : g[i] = e
  BY <1>7 DEF Surjection
<1>9. Len(g) = n
  BY <1>1, <1>4
<1> QED
  BY <1>8, <1>9

LEMMA EndsOfAll ==
  ASSUME NEW S, S \subseteq Notes, NEW n \in S
  PROVE  HasEnd(SetToSeq({Ended(m) : m \in S}), n)
<1> DEFINE T == {Ended(m) : m \in S}
<1>1. IsFiniteSet(S)
  BY Bounds, FS_Subset
<1>2. IsFiniteSet(T)
  <2> DEFINE f == [m \in S |-> Ended(m)]
  <2>1. f \in Surjection(S, T)
    BY DEF Surjection
  <2> QED
    BY <1>1, <2>1, FS_Surjection
<1>3. Ended(n) \in T
  OBVIOUS
<1> HIDE DEF T
<1>4. HasEnd(SetToSeq(T), n)
  BY <1>2, <1>3, SetToSeqAll DEF HasEnd
<1> QED
  BY <1>4 DEF T

\* An end stays in a list that grows at either side.
LEMMA EndInParts ==
  ASSUME NEW X, NEW p \in Seq(X), NEW q \in Seq(X), NEW n
  PROVE  EndIn(p \o q, n) <=> EndIn(p, n) \/ EndIn(q, n)
<1> PICK r : r = p \o q
  OBVIOUS
<1>1. /\ Len(p) \in Nat /\ Len(q) \in Nat /\ Len(r) = Len(p) + Len(q)
      /\ \A i \in 1 .. Len(p) : r[i] = p[i]
      /\ \A i \in 1 .. Len(q) : r[Len(p) + i] = q[i]
  OBVIOUS
<1>2. EndIn(p, n) => EndIn(r, n)
  <2>1. \A i \in 1 .. Len(p) : i \in 1 .. Len(r)
    BY <1>1
  <2> QED
    BY <1>1, <2>1, Zenon DEF EndIn
<1>3. EndIn(q, n) => EndIn(r, n)
  <2>1. \A i \in 1 .. Len(q) : Len(p) + i \in 1 .. Len(r)
    BY <1>1
  <2> QED
    BY <1>1, <2>1, Zenon DEF EndIn
<1>4. ASSUME EndIn(r, n) PROVE EndIn(p, n) \/ EndIn(q, n)
  <2>1. PICK i \in 1 .. Len(r) : r[i] \in {Ended(n), Ended(All)}
    BY <1>4 DEF EndIn
  <2>2. CASE i <= Len(p)
    BY <2>1, <2>2, <1>1 DEF EndIn
  <2>3. CASE i > Len(p)
    <3>1. i - Len(p) \in 1 .. Len(q) /\ Len(p) + (i - Len(p)) = i
      BY <2>3, <1>1
    <3>2. q[i - Len(p)] = r[i]
      BY <3>1, <1>1
    <3> QED
      BY <2>1, <3>1, <3>2 DEF EndIn
  <2> QED
    BY <2>2, <2>3, <1>1
<1> QED
  BY <1>2, <1>3, <1>4

LEMMA HasEndParts ==
  ASSUME NEW X, NEW p \in Seq(X), NEW q \in Seq(X), NEW n, HasEnd(p, n) \/ HasEnd(q, n)
  PROVE  HasEnd(p \o q, n)
<1> PICK r : r = p \o q
  OBVIOUS
<1>1. /\ Len(p) \in Nat /\ Len(q) \in Nat /\ Len(r) = Len(p) + Len(q)
      /\ \A i \in 1 .. Len(p) : r[i] = p[i] /\ i \in 1 .. Len(r)
      /\ \A i \in 1 .. Len(q) : r[Len(p) + i] = q[i] /\ Len(p) + i \in 1 .. Len(r)
  OBVIOUS
<1> QED
  BY <1>1, Zenon DEF HasEnd

LEMMA KeyOfEnd == ASSUME NEW X, NEW q \in Seq(X), NEW n, HasEnd(q, n) PROVE n \in Keys(q, "end")
<1>1. Ended(n).kind = "end" /\ Ended(n).key = n /\ DOMAIN q = 1 .. Len(q)
  BY DEF Ended
<1> QED
  BY <1>1 DEF HasEnd, Keys

LEMMA KeyOfOn == ASSUME NEW X, NEW q \in Seq(X), NEW n, Sounds(q, n) PROVE n \in Keys(q, "on")
<1>1. On(n).kind = "on" /\ On(n).key = n /\ DOMAIN q = 1 .. Len(q)
  BY DEF On
<1> QED
  BY <1>1 DEF Sounds, Keys

LEMMA EndInHalves ==
  ASSUME NEW X, NEW q \in Seq(X), NEW m \in Nat, m <= Len(q), NEW n, EndIn(q, n)
  PROVE  EndIn(SubSeq(q, 1, m), n) \/ EndIn(SubSeq(q, m + 1, Len(q)), n)
<1> PICK a, b : a = SubSeq(q, 1, m) /\ b = SubSeq(q, m + 1, Len(q))
  OBVIOUS
<1>1. a \in Seq(X) /\ b \in Seq(X)
  OBVIOUS
<1>2. q = a \o b
  BY Halves
<1>3. \A p \in Seq(X), r \in Seq(X) : EndIn(p \o r, n) => EndIn(p, n) \/ EndIn(r, n)
  BY EndInParts
<1> QED
  BY <1>1, <1>2, <1>3

LEMMA EndInOne == ASSUME NEW e, NEW n, e \in {Ended(n), Ended(All)} PROVE EndIn(<<e>>, n)
BY DEF EndIn

LEMMA EndInLast ==
  ASSUME NEW q \in Seq(Ends), NEW e \in Ends, NEW n
  PROVE  /\ EndIn(q, n) => EndIn(Append(q, e), n)
         /\ e \in {Ended(n), Ended(All)} => EndIn(Append(q, e), n)
<1>1. Append(q, e) = q \o <<e>> /\ <<e>> \in Seq(Ends)
  OBVIOUS
<1>2. EndIn(q \o <<e>>, n) <=> EndIn(q, n) \/ EndIn(<<e>>, n)
  BY <1>1, EndInParts, Zenon
<1>3. ASSUME e \in {Ended(n), Ended(All)} PROVE EndIn(<<e>>, n)
  BY <1>3, EndInOne
<1>4. PICK r : r = Append(q, e)
  OBVIOUS
<1>5. EndIn(r, n) <=> EndIn(q, n) \/ EndIn(<<e>>, n)
  BY <1>1, <1>2, <1>4
<1> QED
  BY <1>3, <1>4, <1>5

\* No event makes the plugin forget a note without a word.
LEMMA OneLasts ==
  ASSUME NEW p \in Player, NEW e \in Events \union {Choke}, NEW n \in Notes, Lasting(p, n)
  PROVE  Lasting(classify_event(p, e), n)
<1> PICK q : q = classify_event(p, e)
  OBVIOUS
<1>0. p.held \subseteq Notes /\ p.tails \subseteq Notes /\ p.out \in Seq(Ends) /\ Vst3 \in BOOLEAN
        /\ p = [held |-> p.held, tails |-> p.tails, out |-> p.out]
  BY EventsAssumption DEF Player
<1>1. CASE e.kind = "on"
  <2>1. q = [p EXCEPT !.held = p.held \union {e.key}]
    BY <1>1 DEF classify_event
  <2>2. q = [held |-> p.held \union {e.key}, tails |-> p.tails, out |-> p.out]
    BY <1>0, <2>1, Zenon
  <2>3. q.held = p.held \union {e.key} /\ q.tails = p.tails /\ q.out = p.out
    BY <2>2
  <2> QED
    BY <2>3 DEF Lasting
<1>2. CASE Vst3 /\ e.kind # "on"
  <2>1. q = [p EXCEPT !.held = p.held \ {vst3_channel_pitch(e.key)},
                      !.out = Append(p.out, Ended(e.key))]
    BY <1>2 DEF classify_event
  <2>2. q = [held |-> p.held \ {vst3_channel_pitch(e.key)}, tails |-> p.tails,
             out |-> Append(p.out, Ended(e.key))]
    BY <1>0, <2>1
  <2>3. q.held = p.held \ {vst3_channel_pitch(e.key)} /\ q.tails = p.tails
          /\ q.out = Append(p.out, Ended(e.key))
    BY <2>2
  <2>4. Ended(e.key) \in Ends
    BY <1>2, EventKinds DEF On, Off, Choke, Ends
  <2>5. CASE EndIn(p.out, n) \/ e.key \in {n, All}
    <3>1. EndIn(q.out, n)
      BY <1>0, <2>3, <2>4, <2>5, EndInLast
    <3> QED
      BY <3>1 DEF Lasting
  <2>6. CASE ~EndIn(p.out, n) /\ e.key \notin {n, All}
    <3>1. vst3_channel_pitch(e.key) # n
      BY <2>6 DEF vst3_channel_pitch
    <3> QED
      BY <3>1, <2>3, <2>6 DEF Lasting
  <2> QED
    BY <2>5, <2>6
<1>3. CASE ~Vst3 /\ e.kind = "off"
  <2>1. q = [p EXCEPT !.held = p.held \ {e.key},
                      !.tails = IF e.key \in p.held THEN p.tails \union {e.key} ELSE p.tails]
    BY <1>3 DEF classify_event
  <2>2. q = [held |-> p.held \ {e.key},
             tails |-> IF e.key \in p.held THEN p.tails \union {e.key} ELSE p.tails,
             out |-> p.out]
    BY <1>0, <2>1
  <2>3. /\ q.held = p.held \ {e.key} /\ q.out = p.out
        /\ q.tails = IF e.key \in p.held THEN p.tails \union {e.key} ELSE p.tails
    BY <2>2
  <2> QED
    BY <2>3 DEF Lasting
<1>4. CASE ~Vst3 /\ e.kind = "choke"
  <2> PICK ends : ends = SetToSeq({Ended(m) : m \in p.held \cup p.tails})
    OBVIOUS
  <2>1. q = [p EXCEPT !.held = {}, !.tails = {}, !.out = p.out \o ends]
    BY <1>4 DEF classify_event
  <2>2. ends \in Seq(Ends) /\ (n \in p.held \union p.tails => EndIn(ends, n))
    BY <1>0, EndsOfFinite, EndsOfAll DEF HasEnd, EndIn
  <2>3. q = [held |-> {}, tails |-> {}, out |-> p.out \o ends]
    BY <1>0, <2>1
  <2>4. q.out = p.out \o ends
    BY <2>3
  <2>5. EndIn(q.out, n)
    BY <1>0, <2>2, <2>4, EndInParts DEF Lasting
  <2> QED
    BY <2>5 DEF Lasting
<1>5. e.kind \in {"on", "off", "choke"}
  BY EventKinds DEF On, Off, Choke
<1> QED
  BY <1>0, <1>1, <1>2, <1>3, <1>4, <1>5

\* Nothing but a choke ends a note without reporting it.
LEMMA OneKeeps ==
  ASSUME NEW p \in Player, NEW e \in Events \union {Choke}, NEW n \in Notes, Keeping(p, n),
         e # Choke
  PROVE  Keeping(classify_event(p, e), n)
<1> PICK q : q = classify_event(p, e)
  OBVIOUS
<1>0. p.held \subseteq Notes /\ p.tails \subseteq Notes /\ p.out \in Seq(Ends) /\ Vst3 \in BOOLEAN
        /\ p = [held |-> p.held, tails |-> p.tails, out |-> p.out]
  BY EventsAssumption DEF Player
<1>1. CASE e.kind = "on"
  <2>1. q = [p EXCEPT !.held = p.held \union {e.key}]
    BY <1>1 DEF classify_event
  <2>2. q = [held |-> p.held \union {e.key}, tails |-> p.tails, out |-> p.out]
    BY <1>0, <2>1, Zenon
  <2>3. q.held = p.held \union {e.key} /\ q.tails = p.tails /\ q.out = p.out
    BY <2>2
  <2> QED
    BY <2>3 DEF Keeping
<1>2. CASE e.kind # "on"
  <2>1. PICK m \in Notes : e = Off(m)
    BY <1>2, EventKinds DEF On
  <2>2. e.key = m /\ e.kind = "off"
    BY <2>1 DEF Off
  <2>3. CASE ~Vst3
    <3>1. q = [p EXCEPT !.held = p.held \ {m},
                        !.tails = IF m \in p.held THEN p.tails \union {m} ELSE p.tails]
      BY <2>2, <2>3 DEF classify_event
    <3>2. q = [held |-> p.held \ {m},
               tails |-> IF m \in p.held THEN p.tails \union {m} ELSE p.tails,
               out |-> p.out]
      BY <1>0, <3>1
    <3>3. /\ q.held = p.held \ {m} /\ q.out = p.out
          /\ q.tails = IF m \in p.held THEN p.tails \union {m} ELSE p.tails
      BY <3>2
    <3> QED
      BY <3>3 DEF Keeping
  <2>4. CASE Vst3
    <3>1. m # All /\ vst3_channel_pitch(e.key) = m
      BY <2>2, EventsAssumption DEF vst3_channel_pitch
    <3>2. q = [p EXCEPT !.held = p.held \ {m}, !.out = Append(p.out, Ended(m))]
      BY <2>2, <2>4, <3>1 DEF classify_event
    <3>3. q = [held |-> p.held \ {m}, tails |-> p.tails, out |-> Append(p.out, Ended(m))]
      BY <1>0, <3>2
    <3>4. q.held = p.held \ {m} /\ q.tails = p.tails /\ q.out = Append(p.out, Ended(m))
      BY <3>3
    <3>5. (HasEnd(p.out, n) \/ m = n) => HasEnd(q.out, n)
      <4>1. /\ Len(q.out) = Len(p.out) + 1 /\ Len(p.out) \in Nat
            /\ q.out[Len(p.out) + 1] = Ended(m)
            /\ \A i \in 1 .. Len(p.out) : q.out[i] = p.out[i]
        BY <1>0, <3>4
      <4>2. HasEnd(p.out, n) => HasEnd(q.out, n)
        <5>1. \A i \in 1 .. Len(p.out) : i \in 1 .. Len(q.out)
          BY <4>1
        <5> QED
          BY <5>1, <4>1, Zenon DEF HasEnd
      <4>3. Len(p.out) + 1 \in 1 .. Len(q.out)
        BY <4>1
      <4> QED
        BY <4>1, <4>2, <4>3, Zenon DEF HasEnd
    <3> QED
      BY <3>4, <3>5 DEF Keeping
  <2> QED
    BY <2>3, <2>4, EventsAssumption
<1> QED
  BY <1>1, <1>2

\* What lasts at one place of a window lasts to its end.
LEMMA LastsOn ==
  ASSUME NEW w \in Seq(Events \union {Choke}), NEW f, NEW p, After(f, p, w, Len(w)),
         \A i \in 0 .. Len(w) : f[i] \in Player, NEW n \in Notes, Lasting(f[0], n)
  PROVE  Lasting(f[Len(w)], n)
<1> DEFINE S == {i \in Nat : i <= Len(w) => Lasting(f[i], n)}
<1>1. 0 \in S
  OBVIOUS
<1>2. ASSUME NEW i \in Nat, i \in S PROVE i + 1 \in S
  <2> SUFFICES ASSUME i + 1 <= Len(w) PROVE Lasting(f[i + 1], n)
    OBVIOUS
  <2>1. i + 1 \in 1 .. Len(w) /\ (i + 1) - 1 = i /\ f[i] \in Player /\ Lasting(f[i], n)
          /\ w[i + 1] \in Events \union {Choke}
    BY <1>2
  <2>2. f[i + 1] = classify_event(f[i], w[i + 1])
    BY <2>1 DEF After
  <2> QED
    BY <2>1, <2>2, OneLasts
<1> HIDE DEF S
<1>3. Nat \subseteq S
  BY <1>1, <1>2, ByInduction
<1> QED
  BY <1>3 DEF S

LEMMA KeepsOn ==
  ASSUME NEW w \in Seq(Events \union {Choke}), NEW f, NEW p, After(f, p, w, Len(w)),
         \A i \in 0 .. Len(w) : f[i] \in Player, NEW n \in Notes, NEW m \in 0 .. Len(w),
         Keeping(f[m], n), \A j \in m + 1 .. Len(w) : w[j] # Choke
  PROVE  Keeping(f[Len(w)], n)
<1> DEFINE S == {i \in Nat : m <= i /\ i <= Len(w) => Keeping(f[i], n)}
<1>1. 0 \in S
  OBVIOUS
<1>2. ASSUME NEW i \in Nat, i \in S PROVE i + 1 \in S
  <2> SUFFICES ASSUME m <= i + 1, i + 1 <= Len(w), m # i + 1 PROVE Keeping(f[i + 1], n)
    OBVIOUS
  <2>1. i + 1 \in 1 .. Len(w) /\ (i + 1) - 1 = i /\ f[i] \in Player /\ Keeping(f[i], n)
          /\ w[i + 1] \in Events \union {Choke} /\ w[i + 1] # Choke
    BY <1>2
  <2>2. f[i + 1] = classify_event(f[i], w[i + 1])
    BY <2>1 DEF After
  <2> QED
    BY <2>1, <2>2, OneKeeps
<1> HIDE DEF S
<1>3. Nat \subseteq S
  BY <1>1, <1>2, ByInduction
<1> QED
  BY <1>3 DEF S

\* A note the plugin has is one it has after the window, or one it reports.
LEMMA PlayedLasts ==
  ASSUME held \subseteq Notes, tails \subseteq Notes, NEW w \in Seq(Events \union {Choke}),
         NEW n \in held \union tails
  PROVE  Lasting(Played(w), n)
<1> PICK f : /\ After(f, Before, w, Len(w)) /\ Played(w) = f[Len(w)]
             /\ \A i \in 0 .. Len(w) : f[i] \in Player
  BY PlayedIs
<1>1. f[0] = Before
  BY DEF After
<1>2. Lasting(f[0], n)
  BY <1>1 DEF Lasting, Before
<1> QED
  BY <1>2, LastsOn

\* A note that a window switches on sounds, or its end is reported.
LEMMA PlayedOn ==
  ASSUME held \subseteq Notes, tails \subseteq Notes, NEW w \in Seq(Events \union {Choke}),
         NEW n \in Notes, Sounds(w, n)
  PROVE  Keeping(Played(w), n)
<1> PICK f : /\ After(f, Before, w, Len(w)) /\ Played(w) = f[Len(w)]
             /\ \A i \in 0 .. Len(w) : f[i] \in Player
  BY PlayedIs
<1>1. PICK i \in 1 .. Len(w) : w[i] = On(n) /\ \A j \in i + 1 .. Len(w) : w[j] # Choke
  BY DEF Sounds
<1>2. i \in 0 .. Len(w) /\ i - 1 \in 0 .. Len(w) /\ w[i] \in Events \union {Choke}
  OBVIOUS
<1>3. f[i] = classify_event(f[i - 1], w[i])
  BY DEF After
<1>4. On(n).kind = "on" /\ On(n).key = n
  BY DEF On
<1>5. n \in f[i].held
  BY <1>1, <1>2, <1>3, <1>4, OneEvent
<1>6. Keeping(f[i], n)
  BY <1>5 DEF Keeping
<1> QED
  BY <1>1, <1>2, <1>6, KeepsOn

\* A note is switched on at most once in a list.
Sole(q, n) == \A i, j \in 1 .. Len(q) : q[i] = On(n) /\ q[j] = On(n) => i = j

\* Each note is played once, so it is counted once, and not while its on is still queued.
Once(n) ==
    /\ voices[n] <= 1 /\ Sole(AllOf, n)
    /\ voices[n] > 0 \/ n \in counting \/ n \notin down => ~HasOn(AllOf, n)
    /\ n \notin down => voices[n] = 0 /\ n \notin counting
    /\ n \in counting => voices[n] = 0 /\ host # "idle"

Voices == \A n \in Notes : Once(n)

\* The host's reading has not come to block k.
Behind(k) ==
    /\ \A i \in SlotIds : tag[i] < k
    /\ host \in {"read", "check"} => next < k

\* The note is in a window that the child has still to take.
Waits(n, k) ==
    /\ k \in Processed + 1 .. submitted /\ done < k /\ Behind(k)
    /\ Sounds(input[slot_index(k)], n)

\* The plugin has the note, and its end will be reported where the host has not read.
Rings(n) == n \in held \union tails /\ Behind(last + 1)

Overwritten(k) == child = "tag" /\ slot_index(last + 1) = slot_index(k)
BeingRead(k) == host = "check" /\ next = k

\* The note's end is in the output window of block k, which the host will find intact.
Written(n, k) ==
    /\ EndIn(output[slot_index(k)], n) /\ ~BeingRead(k)
    /\ \/ k = last + 1 /\ child = "tag"
       \/ k <= last /\ tag[slot_index(k)] = k /\ ~Overwritten(k)

\* The note's end is on its way to the host.
Told(n) ==
    /\ Behind(last + 1)
    /\ \/ cursor <= last /\ child = "write" /\ EndIn(made, n)
       \/ cursor <= last /\ EndIn(spill, n)
       \/ \E k \in cursor + 1 .. last + 1 : Written(n, k)

\* The host will find a recycled slot and forget all voices.
Gap == \E k \in cursor + 1 .. last : tag[slot_index(k)] > k \/ (Overwritten(k) /\ ~BeingRead(k))

\* A voice that is counted has a note behind it, or will be forgotten.
Followed(n) ==
    \/ \E k \in cursor .. submitted : Waits(n, k)
    \/ Rings(n) /\ cursor <= Processed
    \/ Told(n) \/ lost \/ Gap

\* So has one that is about to be counted.
Counted(n) == Waits(n, submitted) \/ (Rings(n) /\ Processed = submitted)

\* The child that the host knows of is the one that runs, and no window was torn.
Life == news = "none" /\ child # "dead" /\ ~torn

Follows ==
    Life => \A n \in Notes \ brief :
              (voices[n] > 0 => Followed(n)) /\ (n \in counting => Counted(n))

LEMMA SoleParts ==
  ASSUME NEW X, NEW q \in Seq(X), NEW m \in Nat, m <= Len(q), NEW n, Sole(q, n)
  PROVE  /\ Sole(SubSeq(q, 1, m), n) /\ Sole(SubSeq(q, m + 1, Len(q)), n)
         /\ HasOn(SubSeq(q, 1, m), n) => ~HasOn(SubSeq(q, m + 1, Len(q)), n)
<1> PICK a, b : a = SubSeq(q, 1, m) /\ b = SubSeq(q, m + 1, Len(q))
  OBVIOUS
<1>1. Len(a) = m /\ \A j \in 1 .. m : a[j] = q[j] /\ j \in 1 .. Len(q)
  OBVIOUS
<1>2. Len(b) = Len(q) - m /\ \A j \in 1 .. Len(q) - m : b[j] = q[j + m] /\ j + m \in 1 .. Len(q)
  OBVIOUS
<1>3. Len(q) \in Nat
  OBVIOUS
<1>4. Sole(a, n)
  BY <1>1, Zenon DEF Sole
<1>5. Sole(b, n)
  <2> SUFFICES ASSUME NEW i \in 1 .. Len(b), NEW j \in 1 .. Len(b), b[i] = On(n), b[j] = On(n)
               PROVE  i = j
    BY DEF Sole
  <2>1. i + m = j + m
    BY <1>2 DEF Sole
  <2> QED
    BY <2>1
<1>6. ASSUME HasOn(a, n), HasOn(b, n) PROVE FALSE
  <2>1. PICK i \in 1 .. Len(a), j \in 1 .. Len(b) : a[i] = On(n) /\ b[j] = On(n)
    BY <1>6 DEF HasOn
  <2>2. i \in 1 .. m /\ j \in 1 .. Len(q) - m
    BY <2>1, <1>1, <1>2
  <2>3. i = j + m
    BY <2>1, <2>2, <1>1, <1>2 DEF Sole
  <2> QED
    BY <2>2, <2>3
<1> QED
  BY <1>4, <1>5, <1>6

LEMMA InitV == Init => Voices /\ Follows
<1> SUFFICES ASSUME Init PROVE Voices /\ Follows
  OBVIOUS
<1>1. AllOf = <<>> /\ \A i : ~(i \in 1 .. Len(<<>>))
  BY DEF Init, AllOf
<1>2. ASSUME NEW n \in Notes PROVE Once(n) /\ voices[n] = 0 /\ n \notin counting
  <2>1. Sole(AllOf, n) /\ ~HasOn(AllOf, n)
    BY <1>1, Zenon DEF Sole, HasOn
  <2>2. voices[n] = 0 /\ n \notin counting
    BY DEF Init, NoVoices
  <2> QED
    BY <2>1, <2>2 DEF Once
<1>3. Voices
  BY <1>2 DEF Voices
<1>4. Follows
  BY <1>2 DEF Follows
<1> QED
  BY <1>3, <1>4

\* Steps that neither move an event nor count a voice.
LEMMA OnceKept ==
  ASSUME Others, Others', NEW n \in Notes, Once(n), UNCHANGED <<down, AllOf>>,
         voices'[n] <= voices[n], counting' \subseteq counting, host' # "idle" \/ host' = host
  PROVE  Once(n)'
<1>1. voices[n] \in Nat /\ voices'[n] \in Nat
  BY DEF Others
<1>2. Sole(AllOf, n)' /\ (HasOn(AllOf, n)' <=> HasOn(AllOf, n))
  BY Zenon DEF Once, Sole, HasOn, On
<1> QED
  BY <1>1, <1>2 DEF Once

LEMMA NoteEventsV ==
  ASSUME NEW m \in Notes
  PROVE  EInv /\ Others /\ Voices /\ (NoteOn(m) \/ NoteOff(m)) => Voices'
<1> SUFFICES ASSUME EInv, Others, Voices, NoteOn(m) \/ NoteOff(m), NEW n \in Notes PROVE Once(n)'
  BY DEF Voices
<1>1. UNCHANGED <<backlog, voices, counting, host>> /\ down \subseteq down'
  BY DEF NoteOn, NoteOff, queue, hostVars
<1>2. AllOf \in Seq(Events) /\ Once(n)
  BY Queue DEF EInv, Voices
<1>3. PICK e \in Events : /\ incoming' = Append(incoming, e)
                          /\ e # On(n) \/ (e = On(n) /\ n \notin down /\ n \in down')
  <2>1. CASE NoteOn(m)
    <3>1. On(m) \in Events /\ (m # n => On(m) # On(n))
      BY DEF On, Events
    <3> QED
      BY <2>1, <3>1 DEF NoteOn
  <2>2. CASE NoteOff(m)
    <3>1. Off(m) # On(n) /\ Off(m) \in Events
      BY DEF On, Off, Events
    <3> QED
      BY <2>2, <3>1 DEF NoteOff
  <2> QED
    BY <2>1, <2>2
<1> PICK q : q = AllOf
  OBVIOUS
<1>4. AllOf' = Append(q, e)
  <2>1. incoming \in Seq(Events) /\ backlog \in Seq(Events)
    BY DEF EInv, Typed
  <2>2. backlog \o Append(incoming, e) = Append(backlog \o incoming, e)
    BY <2>1
  <2> QED
    BY <2>2, <1>1, <1>3, Zenon DEF AllOf
<1> PICK r : r = Append(q, e)
  OBVIOUS
<1>5. /\ Len(r) = Len(q) + 1 /\ Len(q) \in Nat /\ r[Len(q) + 1] = e
      /\ \A j \in 1 .. Len(q) : r[j] = q[j]
  BY <1>2
<1>6. CASE e # On(n)
  <2>1. \A i \in 1 .. Len(r) : r[i] = On(n) => i \in 1 .. Len(q) /\ q[i] = On(n)
    BY <1>5, <1>6
  <2>2. Sole(r, n) /\ (~HasOn(q, n) => ~HasOn(r, n))
    BY <1>2, <2>1, Zenon DEF Once, Sole, HasOn
  <2>3. Sole(AllOf, n)' /\ (~HasOn(AllOf, n) => ~HasOn(AllOf, n)')
    BY <2>2, <1>4, Zenon DEF Sole, HasOn, On
  <2>4. n \notin down' => n \notin down
    BY <1>1
  <2> QED
    BY <2>3, <2>4, <1>1, <1>2 DEF Once
<1>7. CASE e = On(n) /\ n \notin down /\ n \in down'
  <2>1. voices[n] = 0 /\ n \notin counting /\ ~HasOn(q, n)
    BY <1>2, <1>7 DEF Once
  <2>2. \A i \in 1 .. Len(r) : r[i] = On(n) => i = Len(q) + 1
    BY <1>5, <2>1 DEF HasOn
  <2>3. Sole(r, n)
    BY <2>2, Zenon DEF Sole
  <2>4. Sole(AllOf, n)'
    BY <2>3, <1>4, Zenon DEF Sole, On
  <2> QED
    BY <2>1, <2>4, <1>1, <1>7 DEF Once
<1> QED
  BY <1>3, <1>6, <1>7

\* Submit, what it does to the table.
LEMMA SubmitCounts ==
  ASSUME Submit
  PROVE  /\ \/ news = "told" /\ voices' = NoVoices /\ news' = "none"
            \/ news # "told" /\ UNCHANGED <<voices, news>>
         /\ \/ /\ slot_free(submitted + 1) /\ submitted' = submitted + 1
               /\ input' = [input EXCEPT ![slot_index(submitted + 1)] = WindowOf]
               /\ backlog' = SubSeq(KeptOf, FreshOf + 1, Len(KeptOf))
               /\ counting' = Keys(WindowOf, "on")
            \/ /\ backlog' = KeptOf /\ counting' = {} /\ UNCHANGED <<submitted, input>>
BY Zenon DEF Submit, VoicesAfterRespawn, FreshOf, WindowOf, ChokeOf, DroppedOf, KeptOf, AllOf

\* What a key among the ons or offs of a window means.
LEMMA KeysOfWindow ==
  ASSUME NEW w \in Seq(Events \union {Choke}), NEW n \in Notes
  PROVE  /\ n \in Keys(w, "on") <=> HasOn(w, n)
         /\ n \in Keys(w, "off") <=> \E j \in 1 .. Len(w) : w[j] = Off(n)
<1>1. DOMAIN w = 1 .. Len(w) /\ \A j \in 1 .. Len(w) : w[j] \in Events \union {Choke}
  OBVIOUS
<1>2. \A e \in Events \union {Choke} : /\ e.kind = "on" /\ e.key = n <=> e = On(n)
                                       /\ e.kind = "off" /\ e.key = n <=> e = Off(n)
  BY DEF Events, On, Off, Choke
<1> QED
  BY <1>1, <1>2, Zenon DEF Keys, HasOn

\* The notes of a window are those of the front of the queue, which the rest of it has not.
LEMMA WindowTakes ==
  ASSUME Typed, NEW n \in Notes, Sole(AllOf, n)
  PROVE  LET rest == SubSeq(KeptOf, FreshOf + 1, Len(KeptOf))
         IN  /\ Sole(KeptOf, n) /\ Sole(rest, n)
             /\ HasOn(KeptOf, n) \/ HasOn(WindowOf, n) \/ HasOn(rest, n) => HasOn(AllOf, n)
             /\ HasOn(WindowOf, n) => ~HasOn(rest, n)
<1> PICK kept, front, rest : /\ kept = KeptOf /\ front = SubSeq(kept, 1, FreshOf)
                             /\ rest = SubSeq(kept, FreshOf + 1, Len(kept))
  OBVIOUS
<1>1. kept \in Seq(Events) /\ FreshOf \in Nat /\ FreshOf <= Len(kept)
        /\ WindowOf = Choked \o front /\ Choked \in {<<>>, <<Choke>>}
  BY Queue, WindowOfIs DEF Choked
<1>2. front \in Seq(Events)
  BY <1>1
<1>3. Sole(kept, n) /\ (HasOn(kept, n) => HasOn(AllOf, n))
  BY AllHalves, SoleParts, HasOnFront
<1>4. Sole(rest, n) /\ (HasOn(front, n) => ~HasOn(rest, n))
  BY <1>1, <1>3, SoleParts
<1>5. (HasOn(front, n) => HasOn(kept, n)) /\ (HasOn(rest, n) => HasOn(kept, n))
  BY <1>1, HasOnFront
<1>6. HasOn(Choked \o front, n) <=> HasOn(front, n)
  BY <1>1, <1>2, ChokeHasNoOn, Zenon
<1>7. HasOn(WindowOf, n) <=> HasOn(front, n)
  BY <1>1, <1>6
<1> QED
  BY <1>3, <1>4, <1>5, <1>7

LEMMA SubmitV == EInv /\ Others /\ Voices /\ Submit => Voices'
<1> SUFFICES ASSUME EInv, Others, Voices, Submit, NEW n \in Notes PROVE Once(n)'
  BY DEF Voices
<1>0. Typed /\ Once(n) /\ Others'
  BY SubmitO DEF EInv, Voices
<1>1. incoming' = <<>> /\ host' = "drain" /\ UNCHANGED down
  BY SubmitIs
<1> PICK rest : rest = SubSeq(KeptOf, FreshOf + 1, Len(KeptOf))
  OBVIOUS
<1>2. /\ \/ voices' = NoVoices \/ voices' = voices
      /\ \/ backlog' = rest /\ counting' = Keys(WindowOf, "on")
         \/ backlog' = KeptOf /\ counting' = {}
  BY SubmitCounts, Zenon
<1>3. /\ Sole(KeptOf, n) /\ Sole(rest, n)
      /\ HasOn(KeptOf, n) \/ HasOn(WindowOf, n) \/ HasOn(rest, n) => HasOn(AllOf, n)
      /\ HasOn(WindowOf, n) => ~HasOn(rest, n)
  BY <1>0, WindowTakes DEF Once
<1>4. AllOf' = backlog'
  <2>1. backlog' \in Seq(Events)
    BY SubmitTyped DEF Typed
  <2>2. backlog' \o <<>> = backlog'
    BY <2>1
  <2> QED
    BY <2>2, <1>1, Zenon DEF AllOf
<1>5. n \in Keys(WindowOf, "on") <=> HasOn(WindowOf, n)
  BY <1>0, WindowOfIs, KeysOfWindow
<1>6. voices[n] \in Nat /\ voices'[n] \in Nat /\ voices'[n] <= voices[n]
  BY <1>0, <1>2 DEF Others, NoVoices
<1>7. Sole(AllOf, n)' /\ (HasOn(AllOf, n)' => HasOn(AllOf, n))
        /\ (n \in counting' => HasOn(AllOf, n) /\ ~HasOn(AllOf, n)')
  <2>1. CASE backlog' = rest /\ counting' = Keys(WindowOf, "on")
    <3>1. AllOf' = rest
      BY <2>1, <1>4
    <3>2. Sole(AllOf, n)' /\ (HasOn(AllOf, n)' <=> HasOn(rest, n))
      BY <3>1, <1>3, Zenon DEF Sole, HasOn, On
    <3> QED
      BY <2>1, <3>2, <1>3, <1>5
  <2>2. CASE backlog' = KeptOf /\ counting' = {}
    <3>1. AllOf' = KeptOf
      BY <2>2, <1>4
    <3>2. Sole(AllOf, n)' /\ (HasOn(AllOf, n)' <=> HasOn(KeptOf, n))
      BY <3>1, <1>3, Zenon DEF Sole, HasOn, On
    <3> QED
      BY <2>2, <3>2, <1>3
  <2> QED
    BY <2>1, <2>2, <1>2
<1>8. n \in counting' => voices'[n] = 0 /\ n \in down
  BY <1>0, <1>6, <1>7 DEF Once
<1>9. (voices'[n] > 0 \/ n \notin down') => ~HasOn(AllOf, n)
  BY <1>0, <1>1, <1>6 DEF Once
<1>10. n \notin down' => voices'[n] = 0
  BY <1>0, <1>1, <1>6 DEF Once
<1> QED
  BY <1>0, <1>1, <1>6, <1>7, <1>8, <1>9, <1>10 DEF Once

\* The drain takes voices away, and the count adds those it was to count.
LEMMA HostV == EInv /\ Others /\ Voices /\ (Drain \/ Read \/ Revalidate \/ Count) => Voices'
<1> SUFFICES ASSUME EInv, Others, Voices, Drain \/ Read \/ Revalidate \/ Count, NEW n \in Notes
             PROVE  Once(n)'
  BY DEF Voices
<1>0. Once(n) /\ Others' /\ voices[n] \in Nat /\ n \in Notes
  BY HostO DEF Voices, Others
<1>1. UNCHANGED <<down, AllOf>>
  BY DEF Drain, Read, Revalidate, Count, engine, queue, AllOf
<1>2. CASE Drain \/ Read \/ Revalidate
  <2>1. counting' = counting /\ host' # "idle"
    BY <1>2 DEF Drain, Read, Revalidate, Done, Recover
  <2>2. voices' = voices \/ voices' = NoVoices \/ \E ends : voices' = Without(voices, ends)
    BY <1>2, Zenon DEF Drain, Read, Revalidate, Done, Recover, VoicesAfterGap
  <2>3. voices'[n] <= voices[n]
    <3>1. ASSUME NEW ends, voices' = Without(voices, ends) PROVE voices'[n] <= voices[n]
      <4>1. voices'[n] = IF All \in ends \/ (n \in ends /\ voices[n] = 0) THEN 0
                         ELSE IF n \in ends THEN voices[n] - 1 ELSE voices[n]
        BY <3>1 DEF Without
      <4> QED
        BY <4>1, <1>0
    <3> QED
      BY <3>1, <2>2, <1>0 DEF NoVoices
  <2> QED
    BY <1>0, <1>1, <2>1, <2>3, OnceKept
<1>3. CASE Count
  <2>1. counting' = {} /\ host # "idle" /\ host' = "idle"
    BY <1>3 DEF Count
  <2>2. voices'[n] = (IF lost THEN 0 ELSE voices[n]) + (IF n \in counting THEN 1 ELSE 0)
    BY <1>3 DEF Count
  <2>3. Sole(AllOf, n)' /\ (HasOn(AllOf, n)' <=> HasOn(AllOf, n))
    BY <1>0, <1>1, Zenon DEF Once, Sole, HasOn, On
  <2>4. voices'[n] \in Nat /\ voices'[n] <= 1
          /\ (voices'[n] > 0 => voices[n] > 0 \/ n \in counting)
    BY <2>2, <1>0 DEF Once
  <2> QED
    BY <1>0, <1>1, <2>1, <2>3, <2>4 DEF Once
<1> QED
  BY <1>2, <1>3

LEMMA StepV == EInv /\ Others /\ Voices /\ [Next]_vars => Voices'
<1> SUFFICES ASSUME EInv, Others, Voices, [Next]_vars PROVE Voices'
  OBVIOUS
<1>1. CASE ChildStep \/ Die \/ Respawn \/ CountRespawn \/ UNCHANGED vars
  <2>1. UNCHANGED <<down, AllOf, voices, counting, host>>
    BY <1>1 DEF ChildStep, Process, Write, Tag, Die, Respawn, CountRespawn, vars, engine, queue,
                hostVars, AllOf
  <2>2. Others'
    BY StepO
  <2>3. \A n \in Notes : Once(n) /\ voices'[n] <= voices[n]
    BY <2>1 DEF Voices, Others
  <2> QED
    BY <2>1, <2>2, <2>3, OnceKept DEF Voices
<1> QED
  BY <1>1, NoteEventsV, SubmitV, HostV DEF Next, HostStep

\* The child is behind what the host has submitted, in numbers.
LEMMA Numbered ==
  ASSUME EInv
  PROVE  /\ submitted \in Nat /\ cursor \in Nat /\ cursor <= submitted /\ last \in Nat
            /\ done \in Nat
         /\ done <= submitted /\ Processed \in Nat /\ Processed <= submitted /\ last <= Processed
         /\ next = cursor + 1 /\ \A i \in SlotIds : tag[i] \in Nat /\ tag[i] <= submitted
BY DEF EInv, Typed, Places, Processed, next

\* Steps that change nothing Followed speaks of, and do not begin to read.
LEMMA FollowedKept ==
  ASSUME NEW n, Followed(n), host' \notin {"read", "check"} \/ host' = host,
         UNCHANGED <<cursor, submitted, done, tag, input, output, held, tails, last, child, made,
                     spill, lost>>
  PROVE  Followed(n)'
<1>1. UNCHANGED <<Processed, next>>
  BY DEF Processed, next
<1>2. \A k : Behind(k) => Behind(k)'
  BY <1>1, Zenon DEF Behind
<1>3. \A k : (BeingRead(k)' => BeingRead(k)) /\ (Overwritten(k)' <=> Overwritten(k))
  BY <1>1, Zenon DEF BeingRead, Overwritten, slot_index
<1>4. \A k : Waits(n, k) => Waits(n, k)'
  BY <1>1, <1>2, Zenon DEF Waits, Sounds, slot_index, On, Choke
<1>5. Rings(n) => Rings(n)'
  BY <1>2, Zenon DEF Rings
<1>6. \A k : Written(n, k) => Written(n, k)'
  BY <1>3, Zenon DEF Written, EndIn, Ended, slot_index
<1>7. Told(n) => Told(n)'
  BY <1>2, <1>6, Zenon DEF Told, EndIn, Ended
<1>8. Gap => Gap'
  BY <1>3, Zenon DEF Gap, slot_index
<1> QED
  BY <1>1, <1>4, <1>5, <1>7, <1>8, Zenon DEF Followed

LEMMA CountedKept ==
  ASSUME NEW n, Counted(n), host' \notin {"read", "check"} \/ host' = host \/ host = "read",
         next' = next \/ host' \notin {"read", "check"},
         UNCHANGED <<submitted, done, tag, input, held, tails, last, child>>
  PROVE  Counted(n)'
<1>1. UNCHANGED Processed
  BY DEF Processed
<1>2. \A k : Behind(k) => Behind(k)'
  BY Zenon DEF Behind
<1>3. \A k : Waits(n, k) => Waits(n, k)'
  BY <1>1, <1>2, Zenon DEF Waits, Sounds, slot_index, On, Choke
<1>4. Rings(n) => Rings(n)'
  BY <1>2, Zenon DEF Rings
<1> QED
  BY <1>1, <1>3, <1>4, Zenon DEF Counted

\* A new block takes no slot a counted note waits in, and leaves its own notes sounding.
LEMMA SubmitF == EInv /\ Others /\ Voices /\ Follows /\ Submit => Follows'
<1> SUFFICES ASSUME EInv, Others, Voices, Follows, Submit, Life', NEW n \in Notes \ brief'
             PROVE  (voices'[n] > 0 => Followed(n)') /\ (n \in counting' => Counted(n)')
  BY DEF Follows
<1>0. Typed /\ Places
  BY DEF EInv
<1>1. /\ UNCHANGED <<cursor, done, tag, output, held, tails, last, child, made, spill, lost,
                     Processed, brief, torn>>
      /\ host = "idle" /\ host' = "drain"
  BY DEF Submit, childVars, plugin, Processed
<1>2. submitted \in Nat /\ cursor \in Nat /\ cursor <= submitted /\ done \in Nat
          /\ Processed \in Nat
        /\ done <= submitted /\ Processed <= submitted
  BY Numbered
<1>3. \A k : Behind(k) => Behind(k)'
  BY <1>1, Zenon DEF Behind
<1>4. \/ /\ slot_free(submitted + 1) /\ submitted' = submitted + 1
         /\ input' = [input EXCEPT ![slot_index(submitted + 1)] = WindowOf]
         /\ counting' = Keys(WindowOf, "on")
      \/ counting' = {} /\ UNCHANGED <<submitted, input>>
  BY SubmitCounts, Zenon
<1>5. ASSUME voices'[n] > 0 PROVE Followed(n)'
  <2>1. news = "none" /\ voices[n] > 0
    <3>1. \/ news = "told" /\ voices' = NoVoices
          \/ UNCHANGED <<voices, news>>
      BY SubmitCounts, Zenon
    <3> QED
      BY <3>1, <1>5 DEF NoVoices, Life
  <2>2. Followed(n)
    <3>1. Life /\ n \in Notes \ brief
      BY <2>1, <1>1 DEF Life
    <3> QED
      BY <3>1, <2>1 DEF Follows
  <2>3. CASE slot_free(submitted + 1) /\ submitted' = submitted + 1
              /\ input' = [input EXCEPT ![slot_index(submitted + 1)] = WindowOf]
    <3>1. ASSUME NEW k \in cursor .. submitted, Waits(n, k) PROVE Waits(n, k)'
      <4>1. submitted + 1 <= done + Slots /\ done < k /\ k \in Processed + 1 .. submitted
        BY <2>3, <3>1, <1>2, Bounds DEF slot_free, Waits
      <4>2. k \in Nat /\ submitted + 1 \in Nat /\ k < submitted + 1 /\ submitted + 1 < k + Slots
        BY <4>1, <1>2, Bounds
      <4>3. slot_index(k) # slot_index(submitted + 1)
        BY <4>2, SameSlot, Bounds
      <4>4. slot_index(k) \in SlotIds /\ slot_index(submitted + 1) \in SlotIds
        BY <4>2, SlotType DEF SlotIds
      <4>5. input'[slot_index(k)] = input[slot_index(k)]
        BY <4>3, <4>4, <2>3, <1>0 DEF Typed
      <4>6. k \in Processed + 1 .. submitted'
        BY <4>1, <2>3, <1>2
      <4>7. Behind(k)' /\ Sounds(input[slot_index(k)], n)
        BY <3>1, <1>3 DEF Waits
      <4>8. Sounds(input[slot_index(k)], n)'
        BY <4>5, <4>7, Zenon DEF Sounds, slot_index, On, Choke
      <4> QED
        BY <4>1, <4>6, <4>7, <4>8, <1>1, Zenon DEF Waits
    <3>2. \A k \in cursor .. submitted : k \in cursor .. submitted'
      BY <2>3, <1>2
    <3>3. Rings(n) => Rings(n)'
      BY <1>1, <1>3, Zenon DEF Rings
    <3>4. \A k : ~BeingRead(k)' /\ (Overwritten(k)' <=> Overwritten(k))
      BY <1>1, Zenon DEF BeingRead, Overwritten, slot_index
    <3>5. \A k : Written(n, k) => Written(n, k)'
      BY <1>1, <3>4, Zenon DEF Written, EndIn, Ended, slot_index
    <3>6. Told(n) => Told(n)'
      BY <1>1, <1>3, <3>5, Zenon DEF Told, EndIn, Ended
    <3>7. Gap => Gap'
      BY <1>1, <3>4, Zenon DEF Gap, slot_index
    <3> QED
      BY <2>2, <3>1, <3>2, <3>3, <3>6, <3>7, <1>1, Zenon DEF Followed
  <2>4. CASE UNCHANGED <<submitted, input>>
    BY <2>2, <2>4, <1>1, FollowedKept
  <2> QED
    BY <2>3, <2>4, <1>4
<1>6. ASSUME n \in counting' PROVE Counted(n)'
  <2>1. /\ slot_free(submitted + 1) /\ submitted' = submitted + 1 /\ n \in Keys(WindowOf, "on")
        /\ input' = [input EXCEPT ![slot_index(submitted + 1)] = WindowOf]
    BY <1>4, <1>6
  <2>2. WindowOf \in Seq(Events \union {Choke}) /\ WindowOf = Choked \o SubSeq(KeptOf, 1, FreshOf)
          /\ Choked \in {<<>>, <<Choke>>} /\ SubSeq(KeptOf, 1, FreshOf) \in Seq(Events)
    BY <1>0, WindowOfIs, Queue DEF Choked
  <2> PICK w : w = WindowOf
    OBVIOUS
  <2>3. Sounds(w, n)
    <3>1. HasOn(w, n)
      BY <2>1, <2>2, KeysOfWindow
    <3>2. PICK i \in 1 .. Len(w) : w[i] = On(n)
      BY <3>1 DEF HasOn
    <3>3. ASSUME NEW j \in i + 1 .. Len(w) PROVE w[j] # Choke
      <4>1. j \in 2 .. Len(w) /\ j \in 1 .. Len(w)
        OBVIOUS
      <4>2. w[j] \in Events
        <5> PICK front \in Seq(Events) : w = Choked \o front
          BY <2>2
        <5>1. CASE Choked = <<>>
          BY <5>1, <4>1
        <5>2. CASE Choked = <<Choke>>
          <6>1. Len(w) = Len(front) + 1 /\ Len(front) \in Nat
            BY <5>2
          <6>2. w[j] = front[j - 1] /\ j - 1 \in 1 .. Len(front)
            BY <5>2, <4>1, <6>1
          <6> QED
            BY <6>2
        <5> QED
          BY <5>1, <5>2, <2>2
      <4> QED
        BY <4>2, EventsAreNotes
    <3> QED
      BY <3>2, <3>3 DEF Sounds
  <2>4. input'[slot_index(submitted')] = w
    <3>1. slot_index(submitted + 1) \in SlotIds
      BY <1>2, SlotType DEF SlotIds
    <3> QED
      BY <3>1, <2>1, <1>0 DEF Typed
  <2>5. submitted' \in Processed + 1 .. submitted' /\ done < submitted'
    BY <2>1, <1>2
  <2>6. Behind(submitted)'
    <3>1. \A i \in SlotIds : tag[i] < submitted'
      BY <2>1, Numbered
    <3> QED
      BY <3>1, <1>1 DEF Behind
  <2>7. Sounds(input[slot_index(submitted)], n)'
    BY <2>3, <2>4, Zenon DEF Sounds, slot_index, On, Choke
  <2>8. Waits(n, submitted)'
    BY <2>5, <2>6, <2>7, <1>1, Zenon DEF Waits
  <2> QED
    BY <2>8 DEF Counted
<1> QED
  BY <1>5, <1>6

\* The drain finds nothing, or a recycled slot, or a window in front of all that is to come.
LEMMA DrainF == EInv /\ Others /\ Voices /\ Follows /\ Drain => Follows'
<1> SUFFICES ASSUME EInv, Others, Follows, Drain, Life', NEW n \in Notes \ brief'
             PROVE  (voices'[n] > 0 => Followed(n)') /\ (n \in counting' => Counted(n)')
  BY DEF Follows
<1>1. UNCHANGED <<submitted, counting, done, tag, input, output, lost, held, tails, last, child,
                  made, spill, brief, torn, news>>
  BY DEF Drain, region, childVars, plugin, respawn, history
<1>2. (voices[n] > 0 => Followed(n)) /\ (n \in counting => Counted(n))
  BY <1>1 DEF Follows, Life
<1>3. host = "drain" /\ \/ host' = "count" /\ voices' = voices /\ cursor' = cursor
                        \/ host' = "count" /\ voices' = NoVoices
                        \/ /\ host' = "read" /\ UNCHANGED <<voices, cursor>>
                           /\ tag[slot_index(next)] = next
  BY Zenon DEF Drain, Done, Recover, VoicesAfterGap
<1>4. CASE host' = "count" /\ voices' = voices /\ cursor' = cursor
  BY <1>1, <1>2, <1>4, FollowedKept, CountedKept
<1>5. CASE host' = "count" /\ voices' = NoVoices
  BY <1>1, <1>2, <1>5, CountedKept DEF NoVoices
<1>6. CASE host' = "read" /\ UNCHANGED <<voices, cursor>> /\ tag[slot_index(next)] = next
  <2>1. UNCHANGED <<Processed, next>>
    BY <1>1, <1>6 DEF Processed, next
  <2>2. slot_index(next) \in SlotIds
    <3>1. next \in Nat
      BY Numbered
    <3> QED
      BY <3>1, SlotType DEF SlotIds
  <2>3. \A k : Behind(k) => Behind(k)'
    BY <1>1, <1>6, <2>1, <2>2 DEF Behind
  <2>4. \A k : ~BeingRead(k)' /\ (Overwritten(k)' <=> Overwritten(k))
    BY <1>1, <1>6, Zenon DEF BeingRead, Overwritten, slot_index
  <2>5. \A k : Waits(n, k) => Waits(n, k)'
    BY <1>1, <2>1, <2>3, Zenon DEF Waits, Sounds, slot_index, On, Choke
  <2>6. Rings(n) => Rings(n)'
    BY <1>1, <2>3, Zenon DEF Rings
  <2>7. \A k : Written(n, k) => Written(n, k)'
    BY <1>1, <2>4, Zenon DEF Written, EndIn, Ended, slot_index
  <2>8. Told(n) => Told(n)'
    BY <1>1, <1>6, <2>3, <2>7, Zenon DEF Told, EndIn, Ended
  <2>9. Gap => Gap'
    BY <1>1, <1>6, <2>4, Zenon DEF Gap, slot_index
  <2>10. Followed(n) => Followed(n)'
    BY <1>1, <1>6, <2>1, <2>5, <2>6, <2>8, <2>9, Zenon DEF Followed
  <2>11. Counted(n) => Counted(n)'
    BY <1>1, <2>1, <2>5, <2>6, Zenon DEF Counted
  <2> QED
    BY <1>1, <1>2, <1>6, <2>10, <2>11
<1> QED
  BY <1>3, <1>4, <1>5, <1>6

\* What an end in the window does to a voice that is counted once.
LEMMA EndTakes ==
  ASSUME NEW q \in Seq(Ends), NEW n \in Notes, EndIn(q, n), NEW table \in [Notes -> Nat],
         table[n] <= 1
  PROVE  Without(table, Keys(q, "end"))[n] = 0
<1>1. DOMAIN q = 1 .. Len(q)
  OBVIOUS
<1>2. n \in Keys(q, "end") \/ All \in Keys(q, "end")
  <2>1. PICK i \in 1 .. Len(q) : q[i] = Ended(n) \/ q[i] = Ended(All)
    BY DEF EndIn
  <2>2. q[i].kind = "end" /\ q[i].key \in {n, All}
    BY <2>1 DEF Ended
  <2>3. i \in {j \in DOMAIN q : q[j].kind = "end"}
    BY <1>1, <2>2
  <2>4. q[i].key \in Keys(q, "end")
    BY <2>3, Zenon DEF Keys
  <2> QED
    BY <2>2, <2>4
<1> PICK ends : ends = Keys(q, "end")
  OBVIOUS
<1>3. Without(table, ends)[n] = IF All \in ends \/ (n \in ends /\ table[n] = 0) THEN 0
                                ELSE IF n \in ends THEN table[n] - 1 ELSE table[n]
  BY DEF Without
<1>4. table[n] \in Nat
  OBVIOUS
<1> QED
  BY <1>2, <1>3, <1>4

\* A voice that survives the reading of a window has no end in it.
LEMMA ReadF == EInv /\ Others /\ Voices /\ Follows /\ Read => Follows'
<1> SUFFICES ASSUME EInv, Others, Voices, Follows, Read, Life', NEW n \in Notes \ brief'
             PROVE  (voices'[n] > 0 => Followed(n)') /\ (n \in counting' => Counted(n)')
  BY DEF Follows
<1>1. UNCHANGED <<submitted, cursor, counting, done, tag, input, output, lost, held, tails, last,
                  child, made, spill, brief, news, Processed, next>>
  BY DEF Read, region, childVars, plugin, respawn, Processed, next
<1>10. ~torn /\ (child # "tag" \/ slot_index(last + 1) # slot_index(next))
  BY Numbered DEF Read, Life, Others
<1>2. (voices[n] > 0 => Followed(n)) /\ (n \in counting => Counted(n))
  BY <1>1, <1>10 DEF Follows, Life
<1>3. host = "read" /\ host' = "check"
        /\ voices' = Without(voices, Keys(output[slot_index(next)], "end"))
  BY DEF Read
<1>4. \A k : Behind(k) => Behind(k)'
  BY <1>1, <1>3, Zenon DEF Behind
<1>5. \A k : Waits(n, k) => Waits(n, k)'
  BY <1>1, <1>4, Zenon DEF Waits, Sounds, slot_index, On, Choke
<1>6. Rings(n) => Rings(n)'
  BY <1>1, <1>4, Zenon DEF Rings
<1>7. Counted(n) => Counted(n)'
  BY <1>1, <1>5, <1>6, Zenon DEF Counted
<1>8. ASSUME voices'[n] > 0 PROVE voices[n] > 0 /\ ~EndIn(output[slot_index(next)], n)
  <2>1. output[slot_index(next)] \in Seq(Ends)
    <3>1. next \in Nat
      BY Numbered
    <3> QED
      BY <3>1, SlotType DEF SlotIds, Others
  <2>2. voices \in [Notes -> Nat] /\ voices[n] \in Nat /\ voices[n] <= 1 /\ n \in Notes
    BY DEF Others, Voices, Once
  <2>3. ~EndIn(output[slot_index(next)], n)
    BY <1>3, <1>8, <2>1, <2>2, EndTakes
  <2>4. voices[n] # 0
    <3> PICK ends : ends = Keys(output[slot_index(next)], "end")
      OBVIOUS
    <3>1. voices'[n] = IF All \in ends \/ (n \in ends /\ voices[n] = 0) THEN 0
                       ELSE IF n \in ends THEN voices[n] - 1 ELSE voices[n]
      BY <1>3, <2>2 DEF Without
    <3> QED
      BY <3>1, <1>8, <2>2
  <2> QED
    BY <2>2, <2>3, <2>4
<1>9. ASSUME voices'[n] > 0 PROVE Followed(n)'
  <2>1. Followed(n)
    BY <1>2, <1>8, <1>9
  <2>2. \A k : Written(n, k) => Written(n, k)'
    <3> SUFFICES ASSUME NEW k, Written(n, k) PROVE Written(n, k)'
      OBVIOUS
    <3>1. k # next
      BY <1>8, <1>9 DEF Written
    <3>2. ~BeingRead(k)' /\ (Overwritten(k)' <=> Overwritten(k))
      BY <3>1, <1>1, Zenon DEF BeingRead, Overwritten, slot_index
    <3> QED
      BY <3>2, <1>1, Zenon DEF Written, EndIn, Ended, slot_index
  <2>3. Told(n) => Told(n)'
    BY <1>1, <1>4, <2>2, Zenon DEF Told, EndIn, Ended
  <2>4. Gap => Gap'
    <3> SUFFICES ASSUME NEW k \in cursor + 1 .. last,
                        tag[slot_index(k)] > k \/ (Overwritten(k) /\ ~BeingRead(k))
                 PROVE  tag[slot_index(k)] > k \/ (Overwritten(k)' /\ ~BeingRead(k)')
      BY <1>1, Zenon DEF Gap, slot_index
    <3>1. Overwritten(k) => k # next
      BY <1>10, Zenon DEF Overwritten
    <3> QED
      BY <3>1, <1>1, Zenon DEF BeingRead, Overwritten, slot_index
  <2> QED
    BY <2>1, <2>3, <2>4, <1>1, <1>5, <1>6, Zenon DEF Followed
<1> QED
  BY <1>1, <1>2, <1>7, <1>9

\* A window that is still there held no end of a voice that is counted; one that is not makes
\* the host forget all voices.
LEMMA RevalidateF == EInv /\ Others /\ Voices /\ Follows /\ Revalidate => Follows'
<1> SUFFICES ASSUME EInv, Others, Follows, Revalidate, Life', NEW n \in Notes \ brief'
             PROVE  (voices'[n] > 0 => Followed(n)') /\ (n \in counting' => Counted(n)')
  BY DEF Follows
<1>1. UNCHANGED <<submitted, counting, done, tag, input, output, lost, held, tails, last, child,
                  made, spill, brief, torn, news, Processed>>
  BY DEF Revalidate, region, childVars, plugin, respawn, history, Processed
<1>2. (voices[n] > 0 => Followed(n)) /\ (n \in counting => Counted(n))
  BY <1>1 DEF Follows, Life
<1>3. host = "check" /\ \/ /\ tag[slot_index(next)] = next /\ host' = "drain" /\ cursor' = next
                           /\ UNCHANGED voices
                        \/ host' = "count" /\ voices' = NoVoices
  BY Zenon DEF Revalidate, StillThere, Recover, VoicesAfterGap
<1>4. n \in counting' => Counted(n)'
  <2>1. host' \notin {"read", "check"}
    BY <1>3
  <2> QED
    BY <1>1, <1>2, <2>1, CountedKept
<1>5. CASE host' = "count" /\ voices' = NoVoices
  BY <1>4, <1>5 DEF NoVoices
<1>6. CASE tag[slot_index(next)] = next /\ host' = "drain" /\ cursor' = next /\ UNCHANGED voices
  <2>0. /\ submitted \in Nat /\ cursor \in Nat /\ last \in Nat /\ next = cursor + 1
        /\ Processed \in Nat /\ last <= Processed
    BY Numbered
  <2>1. \A k : (Behind(k) => Behind(k)') /\ (Behind(k) => next < k)
    BY <1>1, <1>3, <1>6, Zenon DEF Behind
  <2>2. \A k : ~BeingRead(k)' /\ (Overwritten(k)' <=> Overwritten(k))
    BY <1>1, <1>6, Zenon DEF BeingRead, Overwritten, slot_index
  <2>3. \A k : BeingRead(k) <=> k = next
    BY <1>3, Zenon DEF BeingRead
  <2>4. ASSUME NEW k \in cursor .. submitted, Waits(n, k)
        PROVE  Waits(n, k)' /\ k \in cursor' .. submitted'
    <3>1. Waits(n, k)'
      BY <2>4, <1>1, <2>1, Zenon DEF Waits, Sounds, slot_index, On, Choke
    <3>2. next < k
      BY <2>1, <2>4 DEF Waits
    <3> QED
      BY <3>1, <3>2, <2>0, <1>1, <1>6
  <2>5. ASSUME Behind(last + 1) PROVE Behind(last + 1)' /\ cursor' <= last
    <3>1. next < last + 1
      BY <2>1, <2>5
    <3>2. Behind(last + 1)'
      BY <2>1, <2>5, <1>1, Zenon
    <3> QED
      BY <3>1, <3>2, <2>0, <1>6
  <2>6. Rings(n) => Rings(n)' /\ cursor' <= Processed'
    <3>1. ASSUME Rings(n) PROVE Rings(n)' /\ cursor' <= last
      BY <3>1, <2>5, <1>1 DEF Rings
    <3> QED
      BY <3>1, <2>0, <1>1, <1>6
  <2>7. \A k : Written(n, k) => Written(n, k)' /\ k # next
    BY <1>1, <2>2, <2>3, Zenon DEF Written, EndIn, Ended, slot_index
  <2>8. \A k \in cursor + 1 .. last + 1 : k # next => k \in cursor' + 1 .. last' + 1
    BY <2>0, <1>1, <1>6
  <2>9. Told(n) => Told(n)'
    <3> SUFFICES ASSUME Told(n) PROVE Told(n)'
      OBVIOUS
    <3>1. Behind(last + 1)' /\ cursor' <= last
      BY <2>5 DEF Told
    <3>2. CASE child = "write" /\ EndIn(made, n)
      BY <3>1, <3>2, <1>1, Zenon DEF Told, EndIn, Ended
    <3>3. CASE EndIn(spill, n)
      BY <3>1, <3>3, <1>1, Zenon DEF Told, EndIn, Ended
    <3>4. CASE \E k \in cursor + 1 .. last + 1 : Written(n, k)
      BY <3>1, <3>4, <2>7, <2>8, Zenon DEF Told
    <3> QED
      BY <3>2, <3>3, <3>4 DEF Told
  <2>10. Gap => Gap'
    <3> SUFFICES ASSUME NEW k \in cursor + 1 .. last,
                        tag[slot_index(k)] > k \/ (Overwritten(k) /\ ~BeingRead(k))
                 PROVE  Gap'
      BY DEF Gap
    <3>1. k # next
      BY <2>0, <2>3, <1>6
    <3>2. k \in cursor' + 1 .. last'
      BY <3>1, <2>0, <1>1, <1>6
    <3> QED
      BY <3>2, <1>1, <2>2, Zenon DEF Gap, slot_index
  <2>11. Followed(n) => Followed(n)'
    BY <2>4, <2>6, <2>9, <2>10, <1>1, Zenon DEF Followed
  <2> QED
    BY <2>11, <1>2, <1>4, <1>6
<1> QED
  BY <1>3, <1>5, <1>6

\* A NoteOn is counted when its note waits in the block just submitted or rings already.
LEMMA CountF == EInv /\ Others /\ Voices /\ Follows /\ Count => Follows'
<1> SUFFICES ASSUME EInv, Others, Follows, Count, Life', NEW n \in Notes \ brief'
             PROVE  (voices'[n] > 0 => Followed(n)') /\ (n \in counting' => Counted(n)')
  BY DEF Follows
<1>1. /\ UNCHANGED <<submitted, cursor, done, tag, input, output, held, tails, last, child, made,
                     spill, brief, torn, news, Processed, next>>
      /\ host' = "idle" /\ counting' = {}
  BY DEF Count, childVars, plugin, respawn, history, Processed, next
<1>2. (voices[n] > 0 => Followed(n)) /\ (n \in counting => Counted(n)) /\ voices[n] \in Nat
  BY <1>1 DEF Follows, Life, Others
<1>3. voices'[n] = (IF lost THEN 0 ELSE voices[n]) + (IF n \in counting THEN 1 ELSE 0)
  BY DEF Count
<1>4. cursor \in Nat /\ submitted \in Nat /\ cursor <= submitted
  BY Numbered
<1>5. \A k : Behind(k) => Behind(k)'
  BY <1>1, Zenon DEF Behind
<1>6. \A k : ~BeingRead(k)' /\ (Overwritten(k)' <=> Overwritten(k))
  BY <1>1, Zenon DEF BeingRead, Overwritten, slot_index
<1>7. \A k : Waits(n, k) => Waits(n, k)'
  BY <1>1, <1>5, Zenon DEF Waits, Sounds, slot_index, On, Choke
<1>8. Rings(n) => Rings(n)'
  BY <1>1, <1>5, Zenon DEF Rings
<1>9. \A k : Written(n, k) => Written(n, k)'
  BY <1>1, <1>6, Zenon DEF Written, EndIn, Ended, slot_index
<1>10. Told(n) => Told(n)'
  BY <1>1, <1>5, <1>9, Zenon DEF Told, EndIn, Ended
<1>11. Gap => Gap'
  BY <1>1, <1>6, Zenon DEF Gap, slot_index
<1>12. CASE n \in counting
  <2>1. submitted \in cursor .. submitted /\ (Processed = submitted => cursor <= Processed)
    BY <1>4
  <2>2. Followed(n)'
    BY <2>1, <1>1, <1>2, <1>7, <1>8, <1>12, Zenon DEF Followed, Counted
  <2> QED
    BY <2>2, <1>1
<1>13. CASE n \notin counting
  <2>1. voices'[n] > 0 => voices[n] > 0 /\ ~lost
    BY <1>2, <1>3, <1>13
  <2>2. Followed(n) /\ ~lost => Followed(n)'
    BY <1>1, <1>7, <1>8, <1>10, <1>11, Zenon DEF Followed
  <2> QED
    BY <2>1, <2>2, <1>1, <1>2
<1> QED
  BY <1>12, <1>13

\* A note in the window that is played sounds unless it is brief; one the plugin had is
\* kept or reported.
LEMMA ProcessF == EInv /\ Others /\ Voices /\ Follows /\ Process => Follows'
<1> SUFFICES ASSUME EInv, Others, Follows, Process, Life', NEW n \in Notes \ brief'
             PROVE  (voices'[n] > 0 => Followed(n)') /\ (n \in counting' => Counted(n)')
  BY DEF Follows
<1>1. UNCHANGED <<submitted, cursor, host, counting, voices, done, tag, input, output, lost, spill,
                  torn, news, next>>
  BY DEF Process, hostVars, region, respawn, next
<1>2. /\ child = "poll" /\ child' = "write" /\ last' = last /\ last < submitted
      /\ Processed = last /\ Processed' = last + 1 /\ last \in Nat /\ submitted \in Nat
      /\ cursor \in Nat
  <2>1. last \in Nat /\ submitted \in Nat /\ cursor \in Nat
    BY Numbered
  <2>2. child = "poll" /\ last < submitted /\ child' = "write" /\ last' = last
    BY <2>1, ProcessIs DEF NextSeq
  <2> QED
    BY <2>1, <2>2 DEF Processed
<1>3. (voices[n] > 0 => Followed(n)) /\ (n \in counting => Counted(n))
  <2>1. brief \subseteq brief'
    BY ProcessPlays
  <2> QED
    BY <2>1, <1>1, <1>2 DEF Follows, Life
<1>4. \A k : Behind(k) => Behind(k)'
  BY <1>1, Zenon DEF Behind
<1>15. Behind(last + 1) => Behind(last + 1)'
  BY <1>2, <1>4, Zenon
<1> PICK w, p : w = input[slot_index(last + 1)] /\ p = Played(w)
  OBVIOUS
<1>5. held \subseteq Notes /\ tails \subseteq Notes /\ w \in Seq(Events \union {Choke})
  <2>1. slot_index(last + 1) \in SlotIds
    BY <1>2, SlotType DEF SlotIds
  <2> QED
    BY <2>1 DEF EInv, Typed, Others
<1>6. p \in Player
  BY <1>5, PlayedType
<1>7. PICK quiet \in SUBSET (p.held \union p.tails) :
         /\ held' = p.held \ quiet /\ tails' = p.tails \ quiet
         /\ made' = p.out \o SetToSeq({Ended(m) : m \in quiet})
         /\ brief' = brief \union (Keys(w, "on") \cap Keys(made', "end"))
  <2>1. NextSeq = last + 1
    BY DEF NextSeq
  <2> QED
    BY <2>1, ProcessPlays, Zenon
<1>16. quiet \subseteq Notes /\ p.out \in Seq(Ends) /\ p.held \subseteq Notes
         /\ p.tails \subseteq Notes
  BY <1>6 DEF Player
<1> PICK ends : ends = SetToSeq({Ended(m) : m \in quiet})
  OBVIOUS
<1>17. ends \in Seq(Ends) /\ made' = p.out \o ends
  BY <1>7, <1>16, EndsOfFinite
<1>8. Sounds(w, n) => n \in held' \union tails'
  <2> SUFFICES ASSUME Sounds(w, n), n \notin held' \union tails' PROVE FALSE
    OBVIOUS
  <2>1. Keeping(p, n)
    BY <1>5, PlayedOn
  <2>2. n \in quiet \/ HasEnd(p.out, n)
    BY <2>1, <1>7 DEF Keeping
  <2>3. n \in quiet => HasEnd(ends, n)
    BY <1>16, EndsOfAll
  <2>4. HasEnd(p.out \o ends, n)
    BY <1>16, <1>17, <2>2, <2>3, HasEndParts
  <2>5. n \in Keys(made', "end")
    <3>1. p.out \o ends \in Seq(Ends)
      BY <1>16, <1>17
    <3> QED
      BY <3>1, <2>4, <1>17, KeyOfEnd
  <2>6. n \in Keys(w, "on")
    BY <1>5, KeyOfOn
  <2> QED
    BY <2>5, <2>6, <1>7
<1>9. n \in held \union tails => n \in held' \union tails' \/ EndIn(made', n)
  <2> SUFFICES ASSUME n \in held \union tails, n \notin held' \union tails' PROVE EndIn(made', n)
    OBVIOUS
  <2>3. Lasting(p, n)
    BY <1>5, PlayedLasts
  <2>4. n \in quiet \/ EndIn(p.out, n)
    BY <2>3, <1>7 DEF Lasting
  <2>5. n \in quiet => EndIn(ends, n)
    BY <1>16, EndsOfAll DEF HasEnd, EndIn
  <2>6. EndIn(p.out \o ends, n)
    BY <1>16, <1>17, <2>4, <2>5, EndInParts
  <2> QED
    BY <2>6, <1>17
<1>10. ASSUME NEW k \in Processed + 1 .. submitted, Waits(n, k)
       PROVE  Waits(n, k)' \/ (k = last + 1 /\ Rings(n)')
  <2>1. CASE k = last + 1
    <3>1. Behind(last + 1) /\ Sounds(w, n)
      BY <1>10, <2>1 DEF Waits
    <3>2. n \in held' \union tails' /\ Behind(last + 1)'
      BY <3>1, <1>8, <1>15
    <3> QED
      BY <2>1, <3>2 DEF Rings
  <2>2. CASE k # last + 1
    <3>1. k \in Processed' + 1 .. submitted'
      BY <2>2, <1>1, <1>2
    <3>2. Behind(k)' /\ done < k /\ Sounds(input[slot_index(k)], n)
      BY <1>10, <1>4 DEF Waits
    <3> QED
      BY <3>1, <3>2, <1>1, Zenon DEF Waits, Sounds, slot_index, On, Choke
  <2> QED
    BY <2>1, <2>2
<1>11. ASSUME Rings(n) PROVE Behind(last + 1)' /\ (Rings(n)' \/ EndIn(made, n)')
  <2>1. Behind(last + 1)'
    BY <1>11, <1>15 DEF Rings
  <2>2. n \in held' \union tails' \/ EndIn(made', n)
    BY <1>9, <1>11 DEF Rings
  <2>3. n \in held' \union tails' => Rings(n)'
    BY <2>1, Zenon DEF Rings
  <2>4. EndIn(made', n) => EndIn(made, n)'
    BY Zenon DEF EndIn, Ended
  <2> QED
    BY <2>1, <2>2, <2>3, <2>4
<1>12. \A k : BeingRead(k)' <=> BeingRead(k)
  BY <1>1, Zenon DEF BeingRead
<1>13. ASSUME Followed(n) PROVE Followed(n)'
  <2>1. CASE \E k \in cursor .. submitted : Waits(n, k)
    <3>1. PICK k \in cursor .. submitted : Waits(n, k)
      BY <2>1
    <3>2. k \in Processed + 1 .. submitted
      BY <3>1 DEF Waits
    <3>3. CASE Waits(n, k)'
      BY <3>1, <3>3, <1>1, Zenon DEF Followed
    <3>4. CASE k = last + 1 /\ Rings(n)'
      <4>1. cursor' <= Processed'
        BY <3>1, <3>4, <1>1, <1>2
      <4> QED
        BY <4>1, <3>4, Zenon DEF Followed
    <3> QED
      BY <3>1, <3>2, <3>3, <3>4, <1>10
  <2>2. CASE Rings(n) /\ cursor <= Processed
    <3>1. cursor' <= Processed' /\ cursor' <= last' /\ child' = "write"
      BY <2>2, <1>1, <1>2
    <3>2. CASE Rings(n)'
      BY <3>1, <3>2, Zenon DEF Followed
    <3>3. CASE EndIn(made, n)'
      <4>1. Told(n)'
        BY <3>1, <3>3, <2>2, <1>11, Zenon DEF Told
      <4> QED
        BY <4>1, Zenon DEF Followed
    <3> QED
      BY <2>2, <3>2, <3>3, <1>11
  <2>3. CASE Told(n)
    <3>1. Behind(last + 1)'
      BY <2>3, <1>15 DEF Told
    <3>2. CASE cursor <= last /\ EndIn(spill, n)
      <4>1. EndIn(spill, n)'
        BY <3>2, <1>1, Zenon DEF EndIn, Ended
      <4>2. Told(n)'
        BY <3>1, <3>2, <4>1, <1>1, <1>2, Zenon DEF Told
      <4> QED
        BY <4>2, Zenon DEF Followed
    <3>3. ASSUME NEW k \in cursor + 1 .. last + 1, Written(n, k) PROVE Followed(n)'
      <4>1. Written(n, k)'
        <5>1. EndIn(output[slot_index(k)], n)' /\ ~BeingRead(k)'
          BY <3>3, <1>1, <1>12, Zenon DEF Written, EndIn, Ended, slot_index
        <5>2. k <= last /\ tag[slot_index(k)] = k
          BY <3>3, <1>2 DEF Written
        <5>3. k <= last' /\ tag'[slot_index(k)] = k
          BY <5>2, <1>1, <1>2
        <5>4. ~Overwritten(k)'
          BY <1>2 DEF Overwritten
        <5> QED
          BY <5>1, <5>3, <5>4, Zenon DEF Written, slot_index
      <4>2. Told(n)'
        BY <4>1, <3>1, <3>3, <1>1, <1>2, Zenon DEF Told
      <4> QED
        BY <4>2, Zenon DEF Followed
    <3> QED
      BY <2>3, <3>2, <3>3, <1>2 DEF Told
  <2>4. CASE lost
    BY <2>4, <1>1, Zenon DEF Followed
  <2>5. CASE Gap
    <3>1. Gap'
      <4>1. PICK k \in cursor + 1 .. last : tag[slot_index(k)] > k \/ Overwritten(k)
        BY <2>5 DEF Gap
      <4>2. ~Overwritten(k)
        BY <1>2 DEF Overwritten
      <4> QED
        BY <4>1, <4>2, <1>1, <1>2, Zenon DEF Gap, slot_index
    <3> QED
      BY <3>1, Zenon DEF Followed
  <2> QED
    BY <1>13, <2>1, <2>2, <2>3, <2>4, <2>5, Zenon DEF Followed
<1>14. ASSUME Counted(n) PROVE Counted(n)'
  <2>1. Waits(n, submitted) /\ submitted \in Processed + 1 .. submitted
    BY <1>14, <1>2 DEF Counted
  <2>2. Waits(n, submitted)' \/ (submitted = last + 1 /\ Rings(n)')
    <3>2. PICK k : k = submitted
      OBVIOUS
    <3>3. Waits(n, k)' \/ (k = last + 1 /\ Rings(n)')
      BY <2>1, <3>2, <1>10
    <3> QED
      BY <3>2, <3>3, <1>1
  <2>3. submitted = last + 1 => Processed' = submitted'
    BY <1>1, <1>2
  <2> QED
    BY <2>2, <2>3, <1>1, Zenon DEF Counted
<1> QED
  BY <1>1, <1>3, <1>13, <1>14

\* An end is written, or spilled, or told as lost; what it overwrites is a gap.
LEMMA WriteF == EInv /\ Others /\ Voices /\ Follows /\ Write => Follows'
<1> SUFFICES ASSUME EInv, Others, Follows, Write, Life', NEW n \in Notes \ brief'
             PROVE  (voices'[n] > 0 => Followed(n)') /\ (n \in counting' => Counted(n)')
  BY DEF Follows
<1>1. /\ UNCHANGED <<submitted, cursor, host, counting, voices, done, tag, input, held, tails,
                     brief, torn, news, next, last, Processed>>
      /\ child = "write" /\ child' = "tag"
  BY DEF Write, hostVars, plugin, respawn, history, next, Processed
<1>2. (voices[n] > 0 => Followed(n)) /\ (n \in counting => Counted(n))
  BY <1>1 DEF Follows, Life
<1>3. last \in Nat /\ cursor \in Nat
  BY Numbered
<1>4. \A k : Behind(k) => Behind(k)'
  BY <1>1, Zenon DEF Behind
<1>5. \A k : Waits(n, k) => Waits(n, k)'
  BY <1>1, <1>4, Zenon DEF Waits, Sounds, slot_index, On, Choke
<1>6. Rings(n) => Rings(n)'
  BY <1>1, <1>4, Zenon DEF Rings
<1>7. \A k : BeingRead(k)' <=> BeingRead(k)
  BY <1>1, Zenon DEF BeingRead
<1> PICK all : all = spill \o made
  OBVIOUS
<1> PICK kept : kept = First(all, Window + Spill)
  OBVIOUS
<1>8. /\ output' = [output EXCEPT ![slot_index(last + 1)] = First(all, Window)]
      /\ spill' = SubSeq(kept, Window + 1, Len(kept))
      /\ lost' = (lost \/ TellsLoss(Len(all)))
  BY Zenon DEF Write
<1>9. slot_index(last + 1) \in SlotIds /\ output \in [SlotIds -> Seq(Ends)]
        /\ spill \in Seq(Ends) /\ made \in Seq(Ends) /\ all \in Seq(Ends)
  <2>1. slot_index(last + 1) \in SlotIds
    BY <1>3, SlotType DEF SlotIds
  <2> QED
    BY <2>1 DEF Others
<1>10. ASSUME EndIn(made, n) \/ EndIn(spill, n)
       PROVE  EndIn(First(all, Window), n) \/ EndIn(spill', n) \/ lost'
  <2>1. EndIn(all, n)
    BY <1>9, <1>10, EndInParts
  <2>2. CASE Len(all) > Window + Spill
    BY <2>2, <1>8 DEF TellsLoss
  <2>3. CASE Len(all) <= Window + Spill
    <3>0. Window \in Nat /\ Window + Spill \in Nat /\ Len(all) \in Nat
      BY <1>9, Bounds
    <3>1. kept = all
      BY <2>3, <3>0, <1>9, FirstIs
    <3>2. CASE Len(all) <= Window
      <4>1. First(all, Window) = all
        BY <3>0, <3>2, <1>9, FirstIs
      <4> QED
        BY <4>1, <2>1
    <3>3. CASE Len(all) > Window
      <4>1. First(all, Window) = SubSeq(all, 1, Window)
        BY <3>0, <3>3, <1>9, FirstIs
      <4>2. EndIn(SubSeq(all, 1, Window), n) \/ EndIn(SubSeq(all, Window + 1, Len(all)), n)
        <5>1. Window \in Nat /\ Window <= Len(all)
          BY <3>0, <3>3
        <5> QED
          BY <5>1, <2>1, <1>9, EndInHalves
      <4> QED
        BY <4>1, <4>2, <3>1, <1>8
    <3> QED
      BY <3>0, <3>2, <3>3
  <2>4. Len(all) \in Nat
    BY <1>9
  <2> QED
    BY <2>2, <2>3, <2>4, Bounds
<1>11. ASSUME Behind(last + 1), cursor <= last, EndIn(made, n) \/ EndIn(spill, n)
       PROVE  Told(n)' \/ lost'
  <2>1. Behind(last + 1)' /\ last' = last /\ cursor' = cursor
    BY <1>1, <1>4, <1>11
  <2>2. CASE EndIn(spill', n)
    <3>1. EndIn(spill, n)'
      BY <2>2, Zenon DEF EndIn, Ended
    <3> QED
      BY <2>1, <3>1, <1>11, Zenon DEF Told
  <2>3. CASE EndIn(First(all, Window), n)
    <3>1. output'[slot_index(last + 1)] = First(all, Window)
      BY <1>8, <1>9
    <3>2. EndIn(output[slot_index(last + 1)], n)'
      BY <2>1, <2>3, <3>1, Zenon DEF EndIn, Ended, slot_index
    <3>3. ~BeingRead(last + 1)
      <4>1. next \in Nat
        BY Numbered
      <4> QED
        BY <4>1, <1>3, <1>11 DEF Behind, BeingRead
    <3>4. Written(n, last + 1)'
      BY <2>1, <3>2, <3>3, <1>1, <1>7, Zenon DEF Written
    <3>5. last + 1 \in cursor + 1 .. last + 1
      BY <1>3, <1>11
    <3> QED
      BY <2>1, <3>4, <3>5, Zenon DEF Told
  <2> QED
    BY <2>2, <2>3, <1>10, <1>11
<1>12. ASSUME NEW k \in cursor + 1 .. last + 1, Written(n, k), Behind(last + 1)
       PROVE  Told(n)' \/ Gap'
  <2>1. k <= last /\ tag[slot_index(k)] = k /\ ~BeingRead(k) /\ EndIn(output[slot_index(k)], n)
    BY <1>1, <1>12 DEF Written
  <2>2. CASE slot_index(k) = slot_index(last + 1)
    <3>1. Overwritten(k)' /\ ~BeingRead(k)'
      BY <2>1, <2>2, <1>1, <1>7, Zenon DEF Overwritten, slot_index
    <3>2. k \in cursor' + 1 .. last'
      BY <2>1, <1>1, <1>3, <1>12
    <3> QED
      BY <3>1, <3>2, Zenon DEF Gap
  <2>3. CASE slot_index(k) # slot_index(last + 1)
    <3>1. slot_index(k) \in SlotIds
      BY <1>3, SlotType DEF SlotIds
    <3>2. output'[slot_index(k)] = output[slot_index(k)]
      BY <2>3, <3>1, <1>8, <1>9
    <3>3. EndIn(output[slot_index(k)], n)'
      BY <2>1, <3>2, Zenon DEF EndIn, Ended, slot_index
    <3>4. ~Overwritten(k)'
      BY <2>3, <1>1, Zenon DEF Overwritten, slot_index
    <3>5. Written(n, k)'
      BY <2>1, <3>3, <3>4, <1>1, <1>7, Zenon DEF Written, slot_index
    <3> QED
      BY <3>5, <1>1, <1>4, <1>12, Zenon DEF Told
  <2> QED
    BY <2>2, <2>3
<1>13. ASSUME Followed(n) PROVE Followed(n)'
  <2>1. CASE (\E k \in cursor .. submitted : Waits(n, k)) \/ (Rings(n) /\ cursor <= Processed)
    BY <2>1, <1>1, <1>5, <1>6, Zenon DEF Followed
  <2>2. CASE Told(n)
    BY <2>2, <1>11, <1>12, Zenon DEF Told, Followed
  <2>3. CASE lost
    BY <2>3, <1>8, Zenon DEF Followed
  <2>4. CASE Gap
    <3>1. PICK k \in cursor + 1 .. last : tag[slot_index(k)] > k
      BY <2>4, <1>1 DEF Gap, Overwritten
    <3> QED
      BY <3>1, <1>1, Zenon DEF Gap, Followed, slot_index
  <2> QED
    BY <1>13, <2>1, <2>2, <2>3, <2>4, Zenon DEF Followed
<1>14. Counted(n) => Counted(n)'
  BY <1>1, <1>5, <1>6, Zenon DEF Counted
<1> QED
  BY <1>1, <1>2, <1>13, <1>14

\* A tag finishes a window; the block it replaces is recycled.
LEMMA TagF == EInv /\ Others /\ Voices /\ Follows /\ Tag => Follows'
<1> SUFFICES ASSUME EInv, Others, Follows, Tag, Life', NEW n \in Notes \ brief'
             PROVE  (voices'[n] > 0 => Followed(n)') /\ (n \in counting' => Counted(n)')
  BY DEF Follows
<1>1. /\ UNCHANGED <<submitted, cursor, host, counting, voices, input, output, lost, held, tails,
                     made, spill, brief, torn, news, next>>
      /\ child = "tag" /\ child' = "poll" /\ done' = last + 1 /\ last' = last + 1
      /\ tag' = [tag EXCEPT ![slot_index(last + 1)] = last + 1]
  BY DEF Tag, hostVars, plugin, respawn, history, next
<1>2. (voices[n] > 0 => Followed(n)) /\ (n \in counting => Counted(n))
  BY <1>1 DEF Follows, Life
<1>3. last \in Nat /\ cursor \in Nat /\ submitted \in Nat /\ next \in Nat /\ Processed = last + 1
        /\ Processed' = Processed
  BY <1>1, Numbered DEF Processed
<1>4. slot_index(last + 1) \in SlotIds /\ \A i \in SlotIds :
        tag'[i] = IF i = slot_index(last + 1) THEN last + 1 ELSE tag[i]
  <2>1. slot_index(last + 1) \in SlotIds
    BY <1>3, SlotType DEF SlotIds
  <2> QED
    BY <2>1, <1>1 DEF EInv, Typed
<1>5. ASSUME NEW k \in Nat, Behind(k), last + 1 < k PROVE Behind(k)'
  BY <1>1, <1>4, <1>5 DEF Behind
<1>6. ASSUME Behind(last + 1) PROVE Behind(last + 1)'
  <2>1. \A i \in SlotIds : tag'[i] < last' + 1
    <3> TAKE i \in SlotIds
    <3>1. tag[i] < last + 1 /\ tag[i] \in Nat
      BY <1>6, Numbered DEF Behind
    <3> QED
      BY <3>1, <1>1, <1>3, <1>4
  <2>2. host \in {"read", "check"} => next < last' + 1
    BY <1>1, <1>3, <1>6 DEF Behind
  <2> QED
    BY <2>1, <2>2, <1>1 DEF Behind
<1>7. ASSUME NEW k, Waits(n, k) PROVE Waits(n, k)'
  <2>1. k \in Processed + 1 .. submitted /\ k \in Nat /\ last + 1 < k /\ Behind(k)
    BY <1>3, <1>7 DEF Waits
  <2>2. Sounds(input[slot_index(k)], n)'
    BY <1>1, <1>7, Zenon DEF Waits, Sounds, slot_index, On, Choke
  <2> QED
    BY <2>1, <2>2, <1>1, <1>3, <1>5, Zenon DEF Waits
<1>8. Rings(n) => Rings(n)'
  BY <1>1, <1>6, Zenon DEF Rings
<1>9. \A k : (BeingRead(k)' <=> BeingRead(k)) /\ ~Overwritten(k)'
  <2>1. \A k : BeingRead(k)' <=> BeingRead(k)
    BY <1>1, Zenon DEF BeingRead
  <2> QED
    BY <2>1, <1>1 DEF Overwritten
<1>10. ASSUME NEW k \in cursor + 1 .. last + 1, Written(n, k)
       PROVE  Written(n, k)' /\ k \in cursor' + 1 .. last' + 1
  <2>1. EndIn(output[slot_index(k)], n)' /\ ~BeingRead(k)'
    BY <1>1, <1>9, <1>10, Zenon DEF Written, EndIn, Ended, slot_index
  <2>2. k \in Nat /\ k <= last' /\ k \in cursor' + 1 .. last' + 1
    BY <1>1, <1>3
  <2>3. tag'[slot_index(k)] = k
    <3>1. slot_index(k) \in SlotIds
      BY <2>2, SlotType DEF SlotIds
    <3>2. CASE k = last + 1
      BY <3>1, <3>2, <1>4
    <3>3. CASE k # last + 1
      <4>1. tag[slot_index(k)] = k /\ slot_index(k) # slot_index(last + 1)
        BY <3>3, <1>1, <1>10 DEF Written, Overwritten
      <4> QED
        BY <4>1, <3>1, <1>4
    <3> QED
      BY <3>2, <3>3
  <2> QED
    BY <2>1, <2>2, <2>3, <1>9, Zenon DEF Written, slot_index
<1>11. ASSUME Told(n) PROVE Told(n)'
  <2>1. Behind(last + 1)'
    BY <1>6, <1>11 DEF Told
  <2>2. CASE cursor <= last /\ EndIn(spill, n)
    <3>1. cursor' <= last' /\ EndIn(spill, n)'
      <4>1. EndIn(spill, n)'
        BY <2>2, <1>1, Zenon DEF EndIn, Ended
      <4> QED
        BY <4>1, <2>2, <1>1, <1>3
    <3> QED
      BY <2>1, <3>1, Zenon DEF Told
  <2>3. CASE \E k \in cursor + 1 .. last + 1 : Written(n, k)
    BY <2>1, <2>3, <1>10, Zenon DEF Told
  <2> QED
    BY <2>2, <2>3, <1>1, <1>11 DEF Told
<1>12. ASSUME Gap PROVE Gap'
  <2>1. PICK k \in cursor + 1 .. last : tag[slot_index(k)] > k \/ Overwritten(k)
    BY <1>12 DEF Gap
  <2>2. k \in Nat /\ k \in cursor' + 1 .. last' /\ slot_index(k) \in SlotIds
    <3>1. k \in Nat /\ k \in cursor' + 1 .. last'
      BY <1>1, <1>3
    <3> QED
      BY <3>1, SlotType DEF SlotIds
  <2>3. tag'[slot_index(k)] > k
    <3>1. CASE slot_index(k) = slot_index(last + 1)
      BY <3>1, <2>2, <1>3, <1>4
    <3>2. CASE slot_index(k) # slot_index(last + 1)
      BY <3>2, <2>1, <2>2, <1>4 DEF Overwritten
    <3> QED
      BY <3>1, <3>2
  <2> QED
    BY <2>2, <2>3, Zenon DEF Gap, slot_index
<1>13. Followed(n) => Followed(n)'
  BY <1>1, <1>3, <1>7, <1>8, <1>11, <1>12, Zenon DEF Followed
<1>14. Counted(n) => Counted(n)'
  BY <1>1, <1>3, <1>7, <1>8, Zenon DEF Counted
<1> QED
  BY <1>1, <1>2, <1>13, <1>14

\* A death ends the life that Follows speaks of, until the host has heard of the respawn.
LEMMA OtherStepsF ==
  ASSUME Follows,
         (\E m \in Notes : NoteOn(m) \/ NoteOff(m)) \/ Die \/ Respawn \/ CountRespawn
           \/ UNCHANGED vars
  PROVE  Follows'
<1>1. CASE (\E m \in Notes : NoteOn(m) \/ NoteOff(m)) \/ UNCHANGED vars
  <2>1. UNCHANGED <<submitted, cursor, host, counting, voices, done, tag, input, output, lost, held,
                    tails, last, child, made, spill, brief, torn, news, next>>
    BY <1>1 DEF NoteOn, NoteOff, vars, hostVars, region, childVars, plugin, respawn, history, next
  <2> SUFFICES ASSUME Life', NEW n \in Notes \ brief'
               PROVE  (voices'[n] > 0 => Followed(n)') /\ (n \in counting' => Counted(n)')
    BY DEF Follows
  <2>2. (voices[n] > 0 => Followed(n)) /\ (n \in counting => Counted(n))
    BY <2>1 DEF Follows, Life
  <2> QED
    BY <2>1, <2>2, FollowedKept, CountedKept
<1>2. CASE Die \/ Respawn \/ CountRespawn
  <2>1. ~Life'
    BY <1>2 DEF Die, Respawn, CountRespawn, Life
  <2> QED
    BY <2>1 DEF Follows
<1> QED
  BY <1>1, <1>2

LEMMA StepF == EInv /\ Others /\ Voices /\ Follows /\ [Next]_vars => Follows'
BY SubmitF, DrainF, ReadF, RevalidateF, CountF, ProcessF, WriteF, TagF, OtherStepsF
   DEF Next, HostStep, ChildStep

\* A counted voice has a note behind it that is on its way to the plugin, sounds there, or whose
\* end is on its way back; or the host is about to forget all voices.
THEOREM InductiveV == Spec => [](EInv /\ Others /\ Voices /\ Follows)
<1>1. Init => EInv /\ Others /\ Voices /\ Follows
  BY InitE, InitO, InitV
<1>2. EInv /\ Others /\ Voices /\ Follows /\ [Next]_vars
        => EInv' /\ Others' /\ Voices' /\ Follows'
  BY StepE, StepO, StepV, StepF
<1> QED
  BY <1>1, <1>2, PTL DEF Spec

\* The voice table does not leak: once all is delivered, reported and read, no voice is counted
\* whose note has ended, unless it began and ended in one block. The exceptions are runs in which
\* the host read a window between its rewriting and its tagging.
THEOREM VoicesEnd == Spec => []NoLeak
<1>1. EInv /\ Others /\ Voices /\ Follows => NoLeak
  <2> SUFFICES ASSUME EInv, Follows, Settled, ~torn, NEW n \in Leaked, n \notin brief PROVE FALSE
    BY DEF NoLeak
  <2>1. n \in Notes /\ voices[n] > 0 /\ n \notin held \union tails
    BY DEF Leaked
  <2>2. /\ child = "poll" /\ last = submitted /\ cursor = submitted /\ spill = <<>> /\ ~lost
        /\ news = "none" /\ submitted \in Nat /\ Processed = last
    BY Numbered DEF Settled, Processed
  <2>3. Followed(n)
    BY <2>1, <2>2 DEF Follows, Life
  <2>4. \A k : ~Waits(n, k)
    BY <2>2 DEF Waits
  <2>5. ~Rings(n)
    BY <2>1 DEF Rings
  <2>6. ~Told(n)
    <3>1. ~EndIn(spill, n)
      <4>1. \A i : ~(i \in 1 .. Len(<<>>))
        OBVIOUS
      <4> QED
        BY <4>1, <2>2, Zenon DEF EndIn
    <3>2. \A k \in cursor + 1 .. last + 1 : ~Written(n, k)
      BY <2>2 DEF Written
    <3> QED
      BY <3>1, <3>2, <2>2 DEF Told
  <2>7. ~Gap
    BY <2>2 DEF Gap
  <2> QED
    BY <2>2, <2>3, <2>4, <2>5, <2>6, <2>7, Zenon DEF Followed
<1> QED
  BY <1>1, InductiveV, PTL

(***************************************************************************)
(* Sums.                                                                   *)
(***************************************************************************)

\* g[i] is the sum of the first i values of f, for i up to n.
Adds(f, g, n) == g[0] = 0 /\ \A i \in 1 .. n : g[i] = g[i - 1] + f[i]

IsSum(f, g) == g = [i \in Nat |-> IF i = 0 THEN 0 ELSE g[i - 1] + f[i]]

LEMMA SumsExist ==
  ASSUME NEW f, NEW n \in Nat
  PROVE  \E g : Adds(f, g, n)
<1> DEFINE S == {k \in Nat : \E g : Adds(f, g, k)}
<1>1. 0 \in S
  <2>1. Adds(f, [i \in {0} |-> 0], 0)
    BY DEF Adds
  <2> QED
    BY <2>1
<1>2. ASSUME NEW k \in Nat, k \in S PROVE k + 1 \in S
  <2>1. PICK g : Adds(f, g, k)
    BY <1>2
  <2> DEFINE h == [i \in 0 .. k + 1 |-> IF i = k + 1 THEN g[k] + f[k + 1] ELSE g[i]]
  <2>2. Adds(f, h, k + 1)
    <3>1. h[0] = 0
      BY <2>1 DEF Adds
    <3>2. ASSUME NEW i \in 1 .. k + 1 PROVE h[i] = h[i - 1] + f[i]
      <4>1. CASE i = k + 1
        <5>1. i - 1 = k /\ k \in 0 .. k + 1 /\ k # k + 1 /\ i \in 0 .. k + 1
          BY <4>1
        <5> QED
          BY <4>1, <5>1
      <4>2. CASE i # k + 1
        <5>1. i \in 1 .. k /\ i - 1 \in 0 .. k + 1 /\ i - 1 # k + 1 /\ i \in 0 .. k + 1
          BY <4>2
        <5>2. h[i] = g[i] /\ h[i - 1] = g[i - 1]
          BY <4>2, <5>1
        <5> QED
          BY <5>1, <5>2, <2>1 DEF Adds
      <4> QED
        BY <4>1, <4>2
    <3> HIDE DEF h
    <3> QED
      BY <3>1, <3>2 DEF Adds
  <2> QED
    BY <2>2
<1> HIDE DEF S
<1>3. Nat \subseteq S
  BY <1>1, <1>2, ByInduction
<1> QED
  BY <1>3 DEF S

LEMMA SumsAreUnique ==
  ASSUME NEW f, NEW g, NEW h, NEW n \in Nat, Adds(f, g, n), NEW m \in Nat, Adds(f, h, m), n <= m
  PROVE  g[n] = h[n]
<1> DEFINE S == {i \in Nat : i <= n => g[i] = h[i]}
<1>1. 0 \in S
  BY DEF Adds
<1>2. ASSUME NEW i \in Nat, i \in S PROVE i + 1 \in S
  <2> SUFFICES ASSUME i + 1 <= n PROVE g[i + 1] = h[i + 1]
    OBVIOUS
  <2>1. i + 1 \in 1 .. n /\ i + 1 \in 1 .. m /\ (i + 1) - 1 = i /\ g[i] = h[i]
    BY <1>2
  <2> QED
    BY <2>1 DEF Adds
<1> HIDE DEF S
<1>3. Nat \subseteq S
  BY <1>1, <1>2, ByInduction
<1> QED
  BY <1>3 DEF S

LEMMA SumsAgree ==
  ASSUME NEW f, NEW g, NEW h, NEW n \in Nat, Adds(f, g, n), Adds(f, h, n + 1)
  PROVE  g[n] = h[n]
<1>1. n + 1 \in Nat /\ n <= n + 1
  OBVIOUS
<1> QED
  BY <1>1, SumsAreUnique

LEMMA TotalIs ==
  ASSUME NEW f
  PROVE  Total(f, 0) = 0 /\ \A n \in Nat : Total(f, n + 1) = Total(f, n) + f[n + 1]
<1> DEFINE s == [n \in Nat |-> (CHOOSE g : Adds(f, g, n))[n]]
           sum == CHOOSE g : IsSum(f, g)
<1>1. ASSUME NEW n \in Nat PROVE Adds(f, CHOOSE g : Adds(f, g, n), n)
  BY SumsExist
<1>2. s[0] = 0
  BY <1>1, 0 \in Nat DEF Adds
<1>3. ASSUME NEW n \in Nat PROVE s[n + 1] = s[n] + f[n + 1]
  <2> PICK g : g = CHOOSE x : Adds(f, x, n)
    OBVIOUS
  <2> PICK h : h = CHOOSE x : Adds(f, x, n + 1)
    OBVIOUS
  <2>1. Adds(f, g, n) /\ Adds(f, h, n + 1) /\ n + 1 \in Nat /\ n <= n + 1
    BY <1>1
  <2>2. s[n] = g[n] /\ s[n + 1] = h[n + 1]
    OBVIOUS
  <2> HIDE DEF s, sum
  <2>3. g[n] = h[n]
    BY <2>1, SumsAgree
  <2>4. n + 1 \in 1 .. n + 1 /\ (n + 1) - 1 = n
    OBVIOUS
  <2>5. h[n + 1] = h[(n + 1) - 1] + f[n + 1]
    BY <2>1, <2>4 DEF Adds
  <2> QED
    BY <2>2, <2>3, <2>4, <2>5
<1>4. IsSum(f, s)
  <2>1. ASSUME NEW i \in Nat PROVE s[i] = IF i = 0 THEN 0 ELSE s[i - 1] + f[i]
    <3>1. CASE i = 0
      BY <1>2, <3>1
    <3>2. CASE i # 0
      <4>1. i - 1 \in Nat /\ (i - 1) + 1 = i
        BY <3>2
      <4> HIDE DEF s
      <4>2. s[(i - 1) + 1] = s[i - 1] + f[(i - 1) + 1]
        BY <1>3, <4>1
      <4> QED
        BY <3>2, <4>1, <4>2
    <3> QED
      BY <3>1, <3>2
  <2>3. s = [i \in Nat |-> s[i]]
    OBVIOUS
  <2> HIDE DEF s
  <2>2. s = [i \in Nat |-> IF i = 0 THEN 0 ELSE s[i - 1] + f[i]]
    BY <2>1, <2>3
  <2> QED
    BY <2>2 DEF IsSum
<1> HIDE DEF s
<1>5. IsSum(f, sum)
  BY <1>4
<1>6. \A n : Total(f, n) = sum[n]
  BY DEF Total, IsSum
<1> HIDE DEF sum
<1>7. sum = [i \in Nat |-> IF i = 0 THEN 0 ELSE sum[i - 1] + f[i]]
  BY <1>5 DEF IsSum
<1>8. sum[0] = 0
  BY <1>7, 0 \in Nat
<1>9. ASSUME NEW n \in Nat PROVE sum[n + 1] = sum[n] + f[n + 1]
  <2>1. n + 1 \in Nat /\ n + 1 # 0 /\ (n + 1) - 1 = n
    OBVIOUS
  <2> QED
    BY <1>7, <2>1
<1> QED
  BY <1>6, <1>8, <1>9

LEMMA TotalOne ==
  ASSUME NEW f, NEW n \in Nat
  PROVE  Total(f, n + 1) = Total(f, n) + f[n + 1]
BY TotalIs

LEMMA TotalNat ==
  ASSUME NEW f, NEW n \in Nat, \A i \in 1 .. n : f[i] \in Nat
  PROVE  Total(f, n) \in Nat
<1> DEFINE S == {k \in Nat : k <= n => Total(f, k) \in Nat}
<1>1. 0 \in S
  BY TotalIs
<1>2. ASSUME NEW k \in Nat, k \in S PROVE k + 1 \in S
  <2> SUFFICES ASSUME k + 1 <= n PROVE Total(f, k + 1) \in Nat
    OBVIOUS
  <2>1. k + 1 \in 1 .. n /\ Total(f, k) \in Nat
    BY <1>2
  <2>2. f[k + 1] \in Nat
    BY <2>1
  <2>3. Total(f, k + 1) = Total(f, k) + f[k + 1]
    BY TotalOne
  <2> QED
    BY <2>1, <2>2, <2>3
<1> HIDE DEF S
<1>3. Nat \subseteq S
  BY <1>1, <1>2, ByInduction
<1> QED
  BY <1>3 DEF S

LEMMA TotalSame ==
  ASSUME NEW f, NEW g, NEW n \in Nat, \A i \in 1 .. n : f[i] = g[i]
  PROVE  Total(f, n) = Total(g, n)
<1> DEFINE S == {k \in Nat : k <= n => Total(f, k) = Total(g, k)}
<1>1. 0 \in S
  BY TotalIs
<1>2. ASSUME NEW k \in Nat, k \in S PROVE k + 1 \in S
  <2> SUFFICES ASSUME k + 1 <= n PROVE Total(f, k + 1) = Total(g, k + 1)
    OBVIOUS
  <2>1. k + 1 \in 1 .. n /\ Total(f, k) = Total(g, k)
    BY <1>2
  <2>2. f[k + 1] = g[k + 1]
    BY <2>1
  <2>3. Total(f, k + 1) = Total(f, k) + f[k + 1] /\ Total(g, k + 1) = Total(g, k) + g[k + 1]
    BY TotalOne
  <2> QED
    BY <2>1, <2>2, <2>3
<1> HIDE DEF S
<1>3. Nat \subseteq S
  BY <1>1, <1>2, ByInduction
<1> QED
  BY <1>3 DEF S

\* f and g together are h.
LEMMA TotalPlus ==
  ASSUME NEW f, NEW g, NEW h, NEW n \in Nat,
         \A i \in 1 .. n : f[i] \in Nat /\ g[i] \in Nat /\ h[i] = f[i] + g[i]
  PROVE  Total(h, n) = Total(f, n) + Total(g, n)
<1> DEFINE S == {k \in Nat : k <= n => Total(h, k) = Total(f, k) + Total(g, k)
                                        /\ Total(f, k) \in Nat /\ Total(g, k) \in Nat}
<1>1. 0 \in S
  BY TotalIs
<1>2. ASSUME NEW k \in Nat, k \in S PROVE k + 1 \in S
  <2> SUFFICES ASSUME k + 1 <= n
               PROVE  Total(h, k + 1) = Total(f, k + 1) + Total(g, k + 1)
                        /\ Total(f, k + 1) \in Nat /\ Total(g, k + 1) \in Nat
    OBVIOUS
  <2>1. k + 1 \in 1 .. n /\ Total(h, k) = Total(f, k) + Total(g, k)
          /\ Total(f, k) \in Nat /\ Total(g, k) \in Nat
    BY <1>2
  <2>2. f[k + 1] \in Nat /\ g[k + 1] \in Nat /\ h[k + 1] = f[k + 1] + g[k + 1]
    BY <2>1
  <2>3. Total(f, k + 1) = Total(f, k) + f[k + 1] /\ Total(g, k + 1) = Total(g, k) + g[k + 1]
          /\ Total(h, k + 1) = Total(h, k) + h[k + 1]
    BY TotalOne
  <2> QED
    BY <2>1, <2>2, <2>3
<1> HIDE DEF S
<1>3. Nat \subseteq S
  BY <1>1, <1>2, ByInduction
<1> QED
  BY <1>3 DEF S

Times(a, b) == a * b

\* Products and sums by name, so that the provers take them as they are.
IsPlus(z, x, y) == z = x + y

LEMMA PlusIsPlus == \A x, y : IsPlus(x + y, x, y)
BY DEF IsPlus

LEMMA TimesNat ==
  ASSUME NEW d \in Nat, NEW x \in Nat
  PROVE  Times(d, x) \in Nat
BY DEF Times

LEMMA TimesOne ==
  ASSUME NEW d \in Nat
  PROVE  Times(d, 0) = 0 /\ Times(d, 1) = d /\ Times(0, d) = 0 /\ Times(1, d) = d
BY DEF Times

LEMMA Distributes ==
  ASSUME NEW d \in Nat, NEW x \in Nat, NEW y \in Nat, NEW z, IsPlus(z, x, y)
  PROVE  /\ IsPlus(Times(d, z), Times(d, x), Times(d, y))
         /\ IsPlus(Times(z, d), Times(x, d), Times(y, d))
BY DEF Times, IsPlus

LEMMA TotalTimes ==
  ASSUME NEW d \in Nat, NEW f, NEW g, NEW n \in Nat,
         \A i \in 1 .. n : f[i] \in Nat /\ g[i] = Times(d, f[i])
  PROVE  Total(g, n) = Times(d, Total(f, n))
<1> DEFINE S == {k \in Nat : k <= n => Total(g, k) = Times(d, Total(f, k)) /\ Total(f, k) \in Nat}
<1>1. 0 \in S
  BY TotalIs, TimesOne
<1>2. ASSUME NEW k \in Nat, k \in S PROVE k + 1 \in S
  <2> SUFFICES ASSUME k + 1 <= n
               PROVE  Total(g, k + 1) = Times(d, Total(f, k + 1)) /\ Total(f, k + 1) \in Nat
    OBVIOUS
  <2>1. k + 1 \in 1 .. n /\ Total(g, k) = Times(d, Total(f, k)) /\ Total(f, k) \in Nat
    BY <1>2
  <2>2. f[k + 1] \in Nat /\ g[k + 1] = Times(d, f[k + 1])
    BY <2>1
  <2>3. Total(f, k + 1) = Total(f, k) + f[k + 1] /\ Total(g, k + 1) = Total(g, k) + g[k + 1]
    BY TotalOne
  <2>4. Times(d, Total(f, k) + f[k + 1]) = Times(d, Total(f, k)) + Times(d, f[k + 1])
    <3> PICK x, y : x = Total(f, k) /\ y = f[k + 1]
      OBVIOUS
    <3>1. x \in Nat /\ y \in Nat /\ IsPlus(x + y, x, y)
      BY <2>1, <2>2, PlusIsPlus
    <3>2. IsPlus(Times(d, x + y), Times(d, x), Times(d, y))
      BY <3>1, Distributes
    <3> QED
      BY <3>2 DEF IsPlus
  <2> QED
    BY <2>1, <2>2, <2>3, <2>4
<1> HIDE DEF S
<1>3. Nat \subseteq S
  BY <1>1, <1>2, ByInduction
<1> QED
  BY <1>3 DEF S

\* Only one place counts.
OnlyAt(f, j, v, n) == \A i \in 1 .. n : f[i] = IF i = j THEN v ELSE 0

LEMMA TotalAt ==
  ASSUME NEW f, NEW j, NEW v \in Nat, NEW n \in Nat, OnlyAt(f, j, v, n)
  PROVE  (j \in 1 .. n => Total(f, n) = v) /\ (j \notin 1 .. n => Total(f, n) = 0)
<1> DEFINE S == {k \in Nat : k <= n => Total(f, k) = IF j \in 1 .. k THEN v ELSE 0}
<1>1. 0 \in S
  BY TotalIs
<1>2. ASSUME NEW k \in Nat, k \in S PROVE k + 1 \in S
  <2> SUFFICES ASSUME k + 1 <= n
               PROVE  Total(f, k + 1) = IF j \in 1 .. k + 1 THEN v ELSE 0
    OBVIOUS
  <2>1. k + 1 \in 1 .. n /\ Total(f, k) = IF j \in 1 .. k THEN v ELSE 0
    BY <1>2
  <2>2. f[k + 1] = IF k + 1 = j THEN v ELSE 0
    BY <2>1 DEF OnlyAt
  <2>3. Total(f, k + 1) = Total(f, k) + f[k + 1]
    BY TotalOne
  <2>4. j \in 1 .. k + 1 <=> j \in 1 .. k \/ j = k + 1
    OBVIOUS
  <2>5. k + 1 \notin 1 .. k
    OBVIOUS
  <2> QED
    BY <2>1, <2>2, <2>3, <2>4, <2>5
<1> HIDE DEF S
<1>3. Nat \subseteq S
  BY <1>1, <1>2, ByInduction
<1> QED
  BY <1>3 DEF S

(***************************************************************************)
(* The paths from a stage to hw.                                           *)
(***************************************************************************)

LEMMA StageNumbers ==
  /\ LastStage \in Nat /\ LastStage >= 1 /\ Inserts \in Nat /\ Inserts >= 1 /\ Inserts <= LastStage
  /\ SumStages \subseteq Stages /\ AuxStages \subseteq Stages /\ SumStages \cap AuxStages = {}
  /\ Stages \subseteq Nat /\ Buffers \subseteq Nat /\ Sources \subseteq Buffers
  /\ Master \in Sources /\ Master \in Buffers /\ Master \notin Stages /\ Stages \subseteq Buffers
BY MixerAssumption DEF LastStage, Stages, SumStages, AuxStages, Buffers, Sources, Master

CopyRule(c, out, tap) ==
    c = [s \in Buffers |->
           IF s = Master THEN 1
           ELSE c[out[s]] + Total([t \in Stages |-> IF t \in tap[s] THEN c[t] ELSE 0], LastStage)]

CopiesOf(out, tap) == CHOOSE c : CopyRule(c, out, tap)

\* Stages are routed and sent to later ones only.
Forward(out, tap) ==
    \A s \in Stages : /\ out[s] \in {Master} \union {t \in SumStages : t > s}
                      /\ tap[s] \subseteq {t \in AuxStages : t > s}

LEMMA CopiesIs == Copies = CopiesOf(targets, taps)
BY DEF Copies, CopiesOf, CopyRule

ViaTaps(c, tap, s) == Total([t \in Stages |-> IF t \in tap[s] THEN c[t] ELSE 0], LastStage)

\* The rule holds for the last k stages.
RuleFrom(c, out, tap, k) ==
    /\ c \in [Buffers -> Nat] /\ c[Master] = 1
    /\ \A s \in Stages : s > LastStage - k => c[s] = c[out[s]] + ViaTaps(c, tap, s)

LEMMA ViaTapsSame ==
  ASSUME NEW c, NEW d, NEW tap, NEW s \in Stages, \A t \in Stages : t \in tap[s] => c[t] = d[t]
  PROVE  ViaTaps(c, tap, s) = ViaTaps(d, tap, s)
<1> DEFINE f == [t \in Stages |-> IF t \in tap[s] THEN c[t] ELSE 0]
           g == [t \in Stages |-> IF t \in tap[s] THEN d[t] ELSE 0]
<1>1. f = g
  OBVIOUS
<1> QED
  BY <1>1 DEF ViaTaps

LEMMA ViaTapsNat ==
  ASSUME NEW c, NEW tap, NEW s \in Stages, \A t \in Stages : t \in tap[s] => c[t] \in Nat
  PROVE  ViaTaps(c, tap, s) \in Nat
<1> DEFINE f == [t \in Stages |-> IF t \in tap[s] THEN c[t] ELSE 0]
<1>1. \A i \in 1 .. LastStage : f[i] \in Nat
  BY DEF Stages
<1> HIDE DEF f
<1>2. Total(f, LastStage) \in Nat
  BY <1>1, TotalNat, StageNumbers
<1> QED
  BY <1>2 DEF ViaTaps, f

LEMMA RuleStep ==
  ASSUME NEW out, NEW tap, Forward(out, tap), NEW k \in Nat, k < LastStage,
         NEW c, RuleFrom(c, out, tap, k)
  PROVE  \E d : RuleFrom(d, out, tap, k + 1)
<1> DEFINE r == LastStage - k
           d == [c EXCEPT ![r] = c[out[r]] + ViaTaps(c, tap, r)]
<1>1. r \in Stages /\ r # Master /\ r \in Nat /\ r \in Buffers
  BY StageNumbers DEF Stages, Master, Buffers
<1>2. \A s \in Stages : /\ out[s] \in Buffers /\ (out[s] = Master \/ out[s] > s)
                        /\ \A t \in Stages : t \in tap[s] => t > s
  BY StageNumbers DEF Forward, Buffers
<1>3. c[out[r]] + ViaTaps(c, tap, r) \in Nat
  <2>1. c[out[r]] \in Nat
    BY <1>1, <1>2 DEF RuleFrom
  <2>2. ViaTaps(c, tap, r) \in Nat
    BY <1>1, ViaTapsNat, StageNumbers DEF RuleFrom
  <2> QED
    BY <2>1, <2>2
<1>4. d \in [Buffers -> Nat] /\ d[Master] = 1
  BY <1>1, <1>3 DEF RuleFrom, Master
<1>5. \A b \in Buffers : b # r => d[b] = c[b]
  BY <1>1 DEF RuleFrom
<1>6. d[r] = c[out[r]] + ViaTaps(c, tap, r)
  BY <1>1 DEF RuleFrom
<1> HIDE DEF d
<1>7. ASSUME NEW s \in Stages, s > LastStage - (k + 1) PROVE d[s] = d[out[s]] + ViaTaps(d, tap, s)
  <2>1. s >= r /\ s \in Nat
    BY <1>7, StageNumbers
  <2>2. d[out[s]] = c[out[s]]
    <3>1. out[s] # r
      BY <1>1, <1>2, <2>1, StageNumbers
    <3> QED
      BY <3>1, <1>2, <1>5
  <2>3. ViaTaps(c, tap, s) = ViaTaps(d, tap, s)
    <3>1. ASSUME NEW t \in Stages, t \in tap[s] PROVE c[t] = d[t]
      <4>1. t > s /\ t \in Nat /\ t \in Buffers
        BY <3>1, <1>2, StageNumbers
      <4> QED
        BY <4>1, <2>1, <1>5, <1>1
    <3> QED
      BY <3>1, ViaTapsSame
  <2>4. CASE s = r
    BY <2>2, <2>3, <2>4, <1>6
  <2>5. CASE s # r
    <3>1. s > LastStage - k
      BY <2>1, <2>5, <1>1
    <3>2. c[s] = c[out[s]] + ViaTaps(c, tap, s)
      BY <3>1 DEF RuleFrom
    <3> QED
      BY <3>2, <2>2, <2>3, <2>5, <1>5, StageNumbers
  <2> QED
    BY <2>4, <2>5
<1> QED
  BY <1>4, <1>7 DEF RuleFrom

LEMMA RuleExists ==
  ASSUME NEW out, NEW tap, Forward(out, tap)
  PROVE  \E c : CopyRule(c, out, tap) /\ c \in [Buffers -> Nat]
<1> DEFINE S == {k \in Nat : k <= LastStage => \E c : RuleFrom(c, out, tap, k)}
<1>1. 0 \in S
  <2> DEFINE c == [s \in Buffers |-> 1]
  <2>1. \A s \in Stages : ~(s > LastStage - 0)
    BY StageNumbers DEF Stages
  <2>2. RuleFrom(c, out, tap, 0)
    BY <2>1, StageNumbers DEF RuleFrom
  <2> QED
    BY <2>2
<1>2. ASSUME NEW k \in Nat, k \in S PROVE k + 1 \in S
  <2> SUFFICES ASSUME k + 1 <= LastStage PROVE \E c : RuleFrom(c, out, tap, k + 1)
    OBVIOUS
  <2>1. k < LastStage /\ k <= LastStage
    BY StageNumbers
  <2>2. PICK c : RuleFrom(c, out, tap, k)
    BY <1>2, <2>1
  <2> QED
    BY <2>1, <2>2, RuleStep
<1> HIDE DEF S
<1>3. Nat \subseteq S
  BY <1>1, <1>2, ByInduction
<1>4. PICK c : RuleFrom(c, out, tap, LastStage)
  BY <1>3, StageNumbers DEF S
<1>5. \A s \in Stages : c[s] = c[out[s]] + ViaTaps(c, tap, s)
  <2>1. \A s \in Stages : s > LastStage - LastStage
    BY StageNumbers DEF Stages
  <2> QED
    BY <1>4, <2>1 DEF RuleFrom
<1>6. \A s \in Buffers : c[s] = IF s = Master THEN 1 ELSE c[out[s]] + ViaTaps(c, tap, s)
  BY <1>4, <1>5 DEF RuleFrom, Buffers
<1>7. c = [s \in Buffers |-> c[s]]
  BY <1>4 DEF RuleFrom
<1>8. c = [s \in Buffers |-> IF s = Master THEN 1 ELSE c[out[s]] + ViaTaps(c, tap, s)]
  BY <1>6, <1>7
<1> QED
  BY <1>4, <1>8 DEF RuleFrom, CopyRule, ViaTaps

LEMMA CopiesRule ==
  ASSUME NEW out, NEW tap, Forward(out, tap)
  PROVE  /\ CopiesOf(out, tap)[Master] = 1
         /\ \A s \in Stages : CopiesOf(out, tap)[s] =
              CopiesOf(out, tap)[out[s]] + ViaTaps(CopiesOf(out, tap), tap, s)
         /\ \A s \in Buffers : CopiesOf(out, tap)[s] \in Nat
<1> PICK c : c = CopiesOf(out, tap)
  OBVIOUS
<1>1. CopyRule(c, out, tap)
  BY RuleExists DEF CopiesOf
<1>2. c = [s \in Buffers |-> IF s = Master THEN 1 ELSE c[out[s]] + ViaTaps(c, tap, s)]
  BY <1>1 DEF CopyRule, ViaTaps
<1>3. c[Master] = 1 /\ \A s \in Stages : c[s] = c[out[s]] + ViaTaps(c, tap, s)
  BY <1>2, StageNumbers
<1> DEFINE S == {k \in Nat : \A s \in Stages : s > LastStage - k => c[s] \in Nat}
<1>4. 0 \in S
  BY StageNumbers DEF Stages
<1>5. ASSUME NEW k \in Nat, k \in S PROVE k + 1 \in S
  <2> SUFFICES ASSUME NEW s \in Stages, s > LastStage - (k + 1) PROVE c[s] \in Nat
    OBVIOUS
  <2>1. s \in Nat /\ \A t \in Stages : t > s => t > LastStage - k
    BY StageNumbers
  <2>2. \A t \in Stages : t > s => c[t] \in Nat
    BY <1>5, <2>1
  <2>3. c[out[s]] \in Nat
    <3>1. out[s] = Master \/ (out[s] \in Stages /\ out[s] > s)
      BY StageNumbers DEF Forward
    <3> QED
      BY <3>1, <1>3, <2>2
  <2>4. ViaTaps(c, tap, s) \in Nat
    <3>1. \A t \in Stages : t \in tap[s] => c[t] \in Nat
      BY <2>2 DEF Forward
    <3> QED
      BY <3>1, ViaTapsNat
  <2> QED
    BY <1>3, <2>3, <2>4
<1> HIDE DEF S
<1>6. Nat \subseteq S
  BY <1>4, <1>5, ByInduction
<1>7. \A s \in Stages : c[s] \in Nat
  <2>1. \A s \in Stages : s > LastStage - LastStage
    BY StageNumbers DEF Stages
  <2> QED
    BY <1>6, <2>1, StageNumbers DEF S
<1> QED
  BY <1>3, <1>7 DEF Buffers

(***************************************************************************)
(* One turn of the loop over the stages.                                   *)
(***************************************************************************)

Signals == [Buffers -> [Sources -> Nat]]

\* What the stages from k on will deliver of source e, if those in m are played.
Carry(b, c, m, k, e) ==
    [s \in Stages |-> IF s >= k /\ s \in m THEN Times(b[s][e], c[s]) ELSE 0]

\* What hw has of source e and what it will still get.
Promised(b, c, m, k, e) == b[Master][e] + Total(Carry(b, c, m, k, e), LastStage)

\* The buffers after the signal of stage k was added where it is fed to.
Added(b, k, fed) == [x \in Buffers |-> IF x \in fed THEN Plus(b[x], b[k]) ELSE b[x]]

LEMMA PlusIs ==
  ASSUME NEW b \in Signals, NEW k \in Stages, NEW fed, NEW e \in Sources, NEW x \in Buffers
  PROVE  /\ Added(b, k, fed) \in Signals
         /\ Added(b, k, fed)[x][e] = IF x \in fed THEN b[x][e] + b[k][e] ELSE b[x][e]
         /\ b[x][e] \in Nat
<1>1. \A y \in Buffers : b[y] \in [Sources -> Nat] /\ \A f \in Sources : b[y][f] \in Nat
  BY DEF Signals
<1>2. k \in Buffers
  BY StageNumbers
<1>3. \A y \in Buffers : Plus(b[y], b[k]) \in [Sources -> Nat]
  BY <1>1, <1>2 DEF Plus
<1>4. Added(b, k, fed) \in Signals
  BY <1>1, <1>3 DEF Added, Signals
<1>5. Added(b, k, fed)[x] = IF x \in fed THEN Plus(b[x], b[k]) ELSE b[x]
  BY DEF Added
<1>6. Plus(b[x], b[k])[e] = b[x][e] + b[k][e]
  BY DEF Plus
<1> QED
  BY <1>1, <1>4, <1>5, <1>6

LEMMA Skipped ==
  ASSUME NEW b, NEW c, NEW m, NEW k \in Stages, k \notin m, NEW e
  PROVE  Promised(b, c, m, k + 1, e) = Promised(b, c, m, k, e)
<1>1. Carry(b, c, m, k + 1, e) = Carry(b, c, m, k, e)
  <2>1. \A s \in Stages : s >= k + 1 /\ s \in m <=> s >= k /\ s \in m
    BY StageNumbers
  <2> QED
    BY <2>1 DEF Carry
<1> QED
  BY <1>1 DEF Promised

LEMMA Passed ==
  ASSUME NEW b \in Signals, NEW c, \A x \in Buffers : c[x] \in Nat, c[Master] = 1,
         NEW m \in SUBSET Stages, NEW k \in m,
         NEW t \in {Master} \union {x \in SumStages : x > k},
         NEW tap \in SUBSET {x \in AuxStages : x > k},
         NEW tapped , tapped[k] = tap,
         c[k] = c[t] + ViaTaps(c, tapped, k),
         ({t} \union tap) \ {Master} \subseteq m,
         NEW e \in Sources
  PROVE  Promised(Added(b, k, {t} \union tap), c, m, k + 1, e) = Promised(b, c, m, k, e)
<1> PICK d : d = b[k][e]
  OBVIOUS
<1> PICK b2 : b2 = Added(b, k, {t} \union tap)
  OBVIOUS
<1>0. k \in Stages /\ k \in Nat /\ k \in Buffers /\ t \in Buffers /\ tap \subseteq Stages
        /\ t \notin tap /\ t # k /\ k \notin tap /\ Master \notin tap
  BY StageNumbers DEF Buffers
<1>1. d \in Nat /\ \A x \in Buffers : b[x][e] \in Nat
        /\ b2[x][e] = IF x \in {t} \union tap THEN b[x][e] + d ELSE b[x][e]
  BY <1>0, PlusIs
<1> DEFINE old == Carry(b, c, m, k, e)
           new == Carry(b2, c, m, k + 1, e)
           gone == [s \in Stages |-> IF s = k THEN Times(d, c[k]) ELSE 0]
           main == [s \in Stages |-> IF s = t THEN Times(d, c[t]) ELSE 0]
           paths == [s \in Stages |-> IF s \in tap THEN c[s] ELSE 0]
           sent == [s \in Stages |-> IF s \in tap THEN Times(d, c[s]) ELSE 0]
           fed == [s \in Stages |-> main[s] + sent[s]]
           all == [s \in Stages |-> old[s] + fed[s]]
<1>2. \A s \in Stages : c[s] \in Nat /\ b[s][e] \in Nat /\ Times(d, c[s]) \in Nat
                          /\ Times(b[s][e], c[s]) \in Nat /\ b2[s][e] \in Nat
                                    /\ Times(b2[s][e], c[s]) \in Nat
                          /\ Times(b[s][e] + d, c[s]) = Times(b[s][e], c[s]) + Times(d, c[s])
  <2>1. ASSUME NEW s \in Stages PROVE s \in Buffers /\ c[s] \in Nat /\ b[s][e] \in Nat
    BY <1>1, StageNumbers
  <2>2. ASSUME NEW s \in Stages PROVE b2[s][e] \in Nat
    <3>1. b2[s][e] = b[s][e] + d \/ b2[s][e] = b[s][e]
      BY <1>1, <2>1, Zenon
    <3> QED
      BY <1>1, <2>1, <3>1
  <2>3. ASSUME NEW s \in Stages
        PROVE  Times(b[s][e] + d, c[s]) = Times(b[s][e], c[s]) + Times(d, c[s])
    <3>1. IsPlus(Times(b[s][e] + d, c[s]), Times(b[s][e], c[s]), Times(d, c[s]))
      BY <1>1, <2>1, PlusIsPlus, Distributes, Zenon
    <3> QED
      BY <3>1 DEF IsPlus
  <2> QED
    BY <1>1, <2>1, <2>2, <2>3, TimesNat
<1>3. Times(d, c[t]) \in Nat /\ Times(d, c[k]) \in Nat /\ Times(d, 0) = 0 /\ c[t] \in Nat
  <2>1. c[t] \in Nat /\ c[k] \in Nat
    BY <1>0
  <2> QED
    BY <1>1, <2>1, TimesNat, TimesOne
<1>4. ASSUME NEW s \in Stages
      PROVE  /\ old[s] \in Nat /\ new[s] \in Nat /\ gone[s] \in Nat /\ main[s] \in Nat
             /\ sent[s] \in Nat /\ fed[s] \in Nat /\ paths[s] \in Nat
             /\ sent[s] = Times(d, paths[s])
  <2>1. old[s] \in Nat /\ new[s] \in Nat
    BY <1>2 DEF Carry
  <2>2. gone[s] \in Nat /\ main[s] \in Nat
    BY <1>3
  <2>3. sent[s] \in Nat /\ paths[s] \in Nat /\ sent[s] = Times(d, paths[s])
    BY <1>2, <1>3
  <2>4. fed[s] \in Nat
    <3> HIDE DEF main, sent
    <3> QED
      BY <2>2, <2>3
  <2> QED
    BY <2>1, <2>2, <2>3, <2>4
<1>5. ASSUME NEW s \in Stages PROVE all[s] = new[s] + gone[s]
  <2>0. s \in Nat /\ s \in Buffers
    BY StageNumbers
  <2>1. CASE s = k
    <3>1. old[s] = Times(d, c[k]) /\ new[s] = 0 /\ main[s] = 0 /\ sent[s] = 0
              /\ gone[s] = Times(d, c[k])
      BY <1>0, <2>0, <2>1 DEF Carry
    <3> QED
      BY <3>1, <1>3
  <2>2. CASE s # k /\ s \in {t} \union tap
    <3>1. s > k /\ s \in m /\ s # Master
      BY <2>2, StageNumbers
    <3>2. new[s] = Times(b[s][e] + d, c[s])
      <4>1. b2[s][e] = b[s][e] + d
        BY <1>1, <2>0, <2>2
      <4>2. s >= k + 1
        BY <3>1, <1>0, <2>0
      <4>3. new[s] = Times(b2[s][e], c[s])
        BY <3>1, <4>2, Zenon DEF Carry
      <4> QED
        BY <4>1, <4>3
    <3>3. old[s] = Times(b[s][e], c[s])
      BY <3>1, <1>0, <2>0 DEF Carry
    <3>4. fed[s] = Times(d, c[s])
      BY <2>2, <1>0, <1>2
    <3>5. gone[s] = 0
      BY <2>2
    <3> QED
      BY <3>2, <3>3, <3>4, <3>5, <1>2
  <2>3. CASE s # k /\ s \notin {t} \union tap
    <3>1. new[s] = old[s]
      <4>1. s >= k + 1 <=> s >= k
        BY <2>0, <2>3, <1>0
      <4>2. b2[s][e] = b[s][e]
        BY <2>0, <2>3, <1>1
      <4> QED
        BY <4>1, <4>2 DEF Carry
    <3>2. fed[s] = 0 /\ gone[s] = 0
      BY <2>3
    <3> QED
      BY <3>1, <3>2, <1>4
  <2> QED
    BY <2>1, <2>2, <2>3
<1>6. Total(all, LastStage) = Total(new, LastStage) + Total(gone, LastStage)
  <2>1. \A i \in 1 .. LastStage : new[i] \in Nat /\ gone[i] \in Nat /\ all[i] = new[i] + gone[i]
    BY <1>4, <1>5 DEF Stages
  <2> HIDE DEF all, new, gone
  <2> QED
    BY <2>1, TotalPlus, StageNumbers
<1>7. Total(all, LastStage) = Total(old, LastStage) + Total(fed, LastStage)
  <2>1. \A i \in 1 .. LastStage : old[i] \in Nat /\ fed[i] \in Nat /\ all[i] = old[i] + fed[i]
    BY <1>4 DEF Stages
  <2> HIDE DEF all, old, fed
  <2> QED
    BY <2>1, TotalPlus, StageNumbers
<1>8. Total(fed, LastStage) = Total(main, LastStage) + Total(sent, LastStage)
  <2>1. \A i \in 1 .. LastStage : main[i] \in Nat /\ sent[i] \in Nat /\ fed[i] = main[i] + sent[i]
    BY <1>4 DEF Stages
  <2> HIDE DEF fed, main, sent
  <2> QED
    BY <2>1, TotalPlus, StageNumbers
<1>9. Total(sent, LastStage) = Times(d, ViaTaps(c, tapped, k))
  <2>1. \A i \in 1 .. LastStage : paths[i] \in Nat /\ sent[i] = Times(d, paths[i])
    BY <1>4 DEF Stages
  <2>2. ViaTaps(c, tapped, k) = Total(paths, LastStage)
    BY DEF ViaTaps
  <2> HIDE DEF paths, sent
  <2> QED
    BY <2>1, <2>2, TotalTimes, StageNumbers, <1>1
<1>10. Total(gone, LastStage) = Times(d, c[k])
  <2>1. OnlyAt(gone, k, Times(d, c[k]), LastStage)
    BY DEF Stages, OnlyAt
  <2>2. k \in 1 .. LastStage
    BY <1>0 DEF Stages
  <2> HIDE DEF gone
  <2>3. LastStage \in Nat /\ Times(d, c[k]) \in Nat
    BY <1>3, StageNumbers
  <2> QED
    BY <2>1, <2>2, <2>3, TotalAt, Zenon
<1>11. Total(main, LastStage) = IF t = Master THEN 0 ELSE Times(d, c[t])
  <2>1. OnlyAt(main, t, Times(d, c[t]), LastStage)
    BY DEF Stages, OnlyAt
  <2>2. t \in 1 .. LastStage <=> t # Master
    BY <1>0, StageNumbers DEF Stages, Buffers
  <2> HIDE DEF main
  <2>3. LastStage \in Nat /\ Times(d, c[t]) \in Nat
    BY <1>3, StageNumbers
  <2> QED
    BY <2>1, <2>2, <2>3, TotalAt, Zenon
<1>12. Total(old, LastStage) \in Nat /\ Total(new, LastStage) \in Nat
  <2>1. \A i \in 1 .. LastStage : old[i] \in Nat /\ new[i] \in Nat
    BY <1>4 DEF Stages
  <2> HIDE DEF old, new
  <2> QED
    BY <2>1, TotalNat, StageNumbers
<1>13. ViaTaps(c, tapped, k) \in Nat
  BY <1>0, <1>2, ViaTapsNat
<1>14. Times(d, c[k]) = Times(d, c[t]) + Times(d, ViaTaps(c, tapped, k))
          /\ Times(d, ViaTaps(c, tapped, k)) \in Nat
  <2>1. Times(d, c[t] + ViaTaps(c, tapped, k)) = Times(d, c[t]) + Times(d, ViaTaps(c, tapped, k))
          /\ Times(d, ViaTaps(c, tapped, k)) \in Nat
    <3> PICK x, y : x = c[t] /\ y = ViaTaps(c, tapped, k)
      OBVIOUS
    <3>1. d \in Nat /\ x \in Nat /\ y \in Nat
      BY <1>1, <1>3, <1>13
    <3>2. IsPlus(Times(d, x + y), Times(d, x), Times(d, y)) /\ Times(d, y) \in Nat
      BY <3>1, PlusIsPlus, Distributes, TimesNat, Zenon
    <3> QED
      BY <3>2 DEF IsPlus
  <2>2. Times(d, c[k]) = Times(d, c[t] + ViaTaps(c, tapped, k))
    OBVIOUS
  <2> QED
    BY <2>1, <2>2
<1>15. b2[Master][e] = b[Master][e] + (IF t = Master THEN Times(d, c[t]) ELSE 0)
  <2>1. Master \in Buffers /\ (Master \in {t} \union tap <=> t = Master)
    BY <1>0, StageNumbers
  <2>2. Times(d, 1) = d /\ b[Master][e] \in Nat
    BY <1>1, <2>1, TimesOne
  <2>3. b2[Master][e] = IF t = Master THEN b[Master][e] + d ELSE b[Master][e]
    BY <1>1, <2>1, Zenon
  <2>4. CASE t = Master
    <3>1. c[t] = 1
      BY <2>4
    <3> QED
      BY <2>2, <2>3, <2>4, <3>1
  <2>5. CASE t # Master
    BY <2>2, <2>3, <2>5
  <2> QED
    BY <2>4, <2>5
<1>16. b[Master][e] \in Nat
  BY <1>1, StageNumbers
<1> HIDE DEF old, new, gone, main, sent, fed, all, paths
<1>17. b2[Master][e] + Total(new, LastStage) = b[Master][e] + Total(old, LastStage)
  BY <1>3, <1>6, <1>7, <1>8, <1>9, <1>10, <1>11, <1>12, <1>14, <1>15, <1>16
<1> QED
  BY <1>17 DEF Promised, old, new

(***************************************************************************)
(* The inductive invariant.                                                *)
(***************************************************************************)

\* A call in progress routes and sends forward only, and has something to do.
RouteOK ==
    \/ route = NoCall
    \/ /\ route \in [pc : {"output", "sends", "activate"}, bus : Stages, output : SUBSET Buffers,
                     on : SUBSET AuxStages, off : SUBSET AuxStages, todo : SUBSET Stages]
       /\ route.output = {}
                 \/ \E t \in {Master} \union Later(SumStages, route.bus) : route.output = {t}
       /\ route.on \union route.off \subseteq Later(AuxStages, route.bus)
       /\ route.pc \in {"sends", "activate"} => route.todo # {}
       /\ route.pc = "sends" => route.todo \subseteq route.on \union route.off

\* What the sessions change.
Controls ==
    /\ active \in [Stages -> BOOLEAN]
    /\ routing \in [Stages -> Buffers] /\ sends \in [Stages -> SUBSET Stages]
    /\ Forward(routing, sends)
    /\ RouteOK
    /\ loads \in [Stages -> Nat] /\ loaded \in 0 .. MaxLoads /\ routes \in 0 .. MaxRoutes
    /\ \A s \in Stages : loads[s] <= loaded
    /\ declared \subseteq Sources /\ undone \subseteq Stages

\* What the callback has.
Signal ==
    /\ flags \in [Stages -> BOOLEAN]
    /\ targets \in [Stages -> Buffers] /\ taps \in [Stages -> SUBSET Stages]
    /\ Forward(targets, taps)
    /\ events \subseteq Sources
    /\ pc \in {"idle", "any", "dry", "flags", "targets", "taps", "mix", "post", "done"}
    /\ at \in Stages
    /\ buf \in Signals /\ stale \subseteq Buffers
    /\ consumed \subseteq Sources

\* The snapshot is taken for a block and dropped after it.
Fresh == pc \in {"idle", "any", "dry"} => NoSnapshot

\* The loop only adds up buffers that were zeroed.
Clean == pc = "post" => stale \cap Zeroed = {}

\* What hw has of a source and what the stages still to come will add are, at
\* every turn of the loop, what the graph owes.
Conserved ==
    pc = "post" /\ Whole =>
        \A e \in Sources : Promised(buf, Copies, Marked, at, e) = IF e \in consumed THEN Copies[e]
                  ELSE 0

Mixer == Controls /\ Signal /\ Fresh /\ Clean /\ Conserved /\ MixedInItsBlock

LEMMA Numbers ==
  /\ 1 \in Stages /\ LastStage \in Stages
  /\ \A s \in Stages : s \in Nat /\ s # Master /\ s \in Buffers
            /\ (s < LastStage => s + 1 \in Stages)
BY StageNumbers DEF Stages

LEMMA MixerTyped == Mixer => MixTypeOK
<1> SUFFICES ASSUME Mixer PROVE MixTypeOK
  OBVIOUS
<1>1. loads \in [Stages -> 0 .. MaxLoads]
  <2>1. \A s \in Stages : loads[s] \in 0 .. MaxLoads
    BY MixerAssumption DEF Mixer, Controls
  <2> QED
    BY <2>1 DEF Mixer, Controls
<1>2. \A s \in Stages :
        /\ routing[s] \in {Master} \union {t \in SumStages : t > s}
        /\ targets[s] \in {Master} \union {t \in SumStages : t > s}
        /\ sends[s] \subseteq {t \in AuxStages : t > s}
        /\ taps[s] \subseteq {t \in AuxStages : t > s}
  BY DEF Mixer, Controls, Signal, Forward
<1>3. route = NoCall \/ route \in [pc : {"output", "sends", "activate"}, bus : Stages,
                                    output : SUBSET Buffers, on : SUBSET AuxStages,
                                    off : SUBSET AuxStages, todo : SUBSET Stages]
  BY DEF Mixer, Controls, RouteOK
<1> QED
  BY <1>1, <1>2, <1>3 DEF Mixer, Controls, Signal, Signals, MixTypeOK

LEMMA Same ==
  ASSUME UNCHANGED snapshot
  PROVE  Copies' = Copies /\ Marked' = Marked /\ (Whole' <=> Whole) /\ (NoSnapshot' <=> NoSnapshot)
<1>1. (Copies = CopiesOf(targets, taps))'
  BY CopiesIs, PTL
<1>2. Copies' = Copies
  BY <1>1, CopiesIs DEF snapshot
<1>3. Marked' = Marked
  BY DEF snapshot, Marked
<1>4. Whole' <=> Whole
  BY DEF snapshot, Whole, Joined, Edges
<1>5. NoSnapshot' <=> NoSnapshot
  BY DEF snapshot, NoSnapshot
<1> QED
  BY <1>2, <1>3, <1>4, <1>5

LEMMA InitMixer == MixInit => Mixer
<1> SUFFICES ASSUME MixInit PROVE Mixer
  OBVIOUS
<1>1. Controls
  <2>1. Forward(routing, sends)
    BY DEF MixInit, Forward
  <2>2. RouteOK
    BY DEF MixInit, RouteOK
  <2> QED
    BY <2>1, <2>2, Numbers, StageNumbers, MixerAssumption DEF MixInit, Controls
<1>2. Signal
  <2>1. Forward(targets, taps)
    BY DEF MixInit, Forward, NoSnapshot
  <2>2. buf \in Signals
    BY DEF MixInit, Signals, Silence
  <2> QED
    BY <2>1, <2>2, Numbers, StageNumbers DEF MixInit, Signal, NoSnapshot
<1> QED
  BY <1>1, <1>2 DEF MixInit, Mixer, Fresh, Clean, Conserved, MixedInItsBlock, Delivered, NoBleed

(***************************************************************************)
(* The sessions.                                                           *)
(***************************************************************************)

\* What the sessions leave alone.
LEMMA SessionKeeps ==
  ASSUME Mixer, UNCHANGED callback, events' \subseteq Sources, Controls'
  PROVE  Mixer'
<1>1. UNCHANGED snapshot /\ pc' = pc /\ at' = at /\ buf' = buf /\ stale' = stale
          /\ consumed' = consumed
  BY DEF callback
<1>2. Copies' = Copies /\ Marked' = Marked /\ (Whole' <=> Whole) /\ (NoSnapshot' <=> NoSnapshot)
  BY <1>1, Same
<1>3. Signal'
  BY <1>1 DEF Mixer, Signal, snapshot
<1>4. Fresh'
  BY <1>1, <1>2 DEF Mixer, Fresh
<1>5. Clean'
  BY <1>1, <1>2 DEF Mixer, Clean, Zeroed
<1>6. Conserved'
  BY <1>1, <1>2 DEF Mixer, Conserved
<1>7. MixedInItsBlock'
  BY <1>1, <1>2 DEF Mixer, MixedInItsBlock, Delivered, NoBleed
<1> QED
  BY <1>3, <1>4, <1>5, <1>6, <1>7 DEF Mixer

LEMMA FirstIn ==
  ASSUME NEW S, S \subseteq Stages, S # {}
  PROVE  FirstOf(S) \in S
<1>1. S \subseteq Nat
  BY StageNumbers
<1>2. \E s \in S : \A t \in S : s <= t
  BY <1>1, Least
<1> QED
  BY <1>2 DEF FirstOf

LEMMA CallRoutes ==
  ASSUME Mixer, NEW s \in Stages, SetBusRouting(s)
  PROVE  Controls'
<1>1. PICK c \in Calls(s) : route' = c
  BY DEF SetBusRouting
<1>2. c.pc = "output" /\ c.bus = s /\ c.on \subseteq Later(AuxStages, s) /\ c.off \subseteq sends[s]
        /\ c.todo = {}
  BY DEF Calls
<1>3. c.output = {} \/ \E t \in {Master} \union Later(SumStages, s) : c.output = {t}
  BY DEF Calls
<1>4. sends[s] \subseteq Later(AuxStages, s)
  BY DEF Mixer, Controls, Forward, Later
<1>5. c.output \in SUBSET Buffers /\ c.on \in SUBSET AuxStages /\ c.off \in SUBSET AuxStages
  BY <1>2, <1>3, <1>4, StageNumbers DEF Later
<1>6. c = [pc |-> c.pc, bus |-> c.bus, output |-> c.output,
           on |-> c.on, off |-> c.off, todo |-> c.todo]
  BY DEF Calls
<1>7. c \in [pc : {"output", "sends", "activate"}, bus : Stages, output : SUBSET Buffers,
             on : SUBSET AuxStages, off : SUBSET AuxStages, todo : SUBSET Stages]
  <2>1. c.pc \in {"output", "sends", "activate"} /\ c.bus \in Stages /\ c.todo \in SUBSET Stages
    BY <1>2
  <2> QED
    BY <1>5, <1>6, <2>1
<1>8. RouteOK'
  BY <1>1, <1>2, <1>3, <1>4, <1>7 DEF RouteOK
<1>9. routes' \in 0 .. MaxRoutes
  BY MixerAssumption DEF SetBusRouting, Mixer, Controls
<1> QED
  BY <1>8, <1>9 DEF SetBusRouting, Mixer, Controls, atomics

LEMMA StoredRoutes ==
  ASSUME NEW c \in [pc : {"sends"}, bus : Stages, output : SUBSET Buffers,
                    on : SUBSET AuxStages, off : SUBSET AuxStages, todo : SUBSET Stages],
         c.output = {} \/ \E t \in {Master} \union Later(SumStages, c.bus) : c.output = {t},
         c.on \union c.off \subseteq Later(AuxStages, c.bus),
         c.todo \subseteq c.on \union c.off,
         route' = Stored(c)
  PROVE  RouteOK'
<1>1. CASE c.todo # {}
  <2>1. route' = c
    BY <1>1 DEF Stored
  <2> QED
    BY <1>1, <2>1 DEF RouteOK
<1>2. CASE c.todo = {}
  <2>1. route' = [c EXCEPT !.pc = "activate", !.todo = Named(c)]
    BY <1>2 DEF Stored
  <2>2. Named(c) \in SUBSET Stages /\ c.bus \in Named(c)
    BY StageNumbers, Numbers DEF Named, Buffers
  <2> QED
    BY <2>1, <2>2 DEF RouteOK
<1> QED
  BY <1>1, <1>2

LEMMA OutputRoutes ==
  ASSUME Mixer, StoreOutput
  PROVE  Controls'
<1> DEFINE c == [route EXCEPT !.pc = "sends", !.todo = route.on \union route.off]
<1>1. /\ route \in [pc : {"output", "sends", "activate"}, bus : Stages, output : SUBSET Buffers,
                     on : SUBSET AuxStages, off : SUBSET AuxStages, todo : SUBSET Stages]
      /\ route.output = {}
                \/ \E t \in {Master} \union Later(SumStages, route.bus) : route.output = {t}
      /\ route.on \union route.off \subseteq Later(AuxStages, route.bus)
  BY DEF StoreOutput, Mixer, Controls, RouteOK, NoCall
<1>2. RouteOK'
  <2>1. c \in [pc : {"sends"}, bus : Stages, output : SUBSET Buffers,
               on : SUBSET AuxStages, off : SUBSET AuxStages, todo : SUBSET Stages]
    BY <1>1, StageNumbers
  <2>2. c.bus = route.bus /\ c.output = route.output /\ c.on = route.on /\ c.off = route.off
          /\ c.todo = route.on \union route.off
    BY <1>1
  <2>3. route' = Stored(c)
    BY DEF StoreOutput
  <2> HIDE DEF c
  <2> QED
    BY <1>1, <2>1, <2>2, <2>3, StoredRoutes
<1>3. routing' \in [Stages -> Buffers] /\ Forward(routing', sends)
  <2>1. CASE route.output = {}
    BY <2>1 DEF StoreOutput, Mixer, Controls
  <2>2. CASE route.output # {}
    <3>1. PICK t \in {Master} \union Later(SumStages, route.bus) : route.output = {t}
      BY <1>1, <2>2
    <3>2. FirstOf(route.output) = t
      <4>1. t \in Nat
        BY StageNumbers DEF Later
      <4>2. \E x \in {t} : \A y \in {t} : x <= y
        BY <4>1
      <4> QED
        BY <3>1, <4>2 DEF FirstOf
    <3>3. routing' = [routing EXCEPT ![route.bus] = t]
      BY <2>2, <3>2 DEF StoreOutput
    <3>4. t \in Buffers /\ t \in {Master} \union {x \in SumStages : x > route.bus}
      BY StageNumbers DEF Later
    <3> QED
      BY <1>1, <3>3, <3>4 DEF Mixer, Controls, Forward
  <2> QED
    BY <2>1, <2>2
<1>4. sends' = sends
  BY DEF StoreOutput
<1>5. Forward(routing, sends)'
  BY <1>3, <1>4
<1> QED
  BY <1>2, <1>3, <1>5 DEF StoreOutput, Mixer, Controls

LEMMA SendRoutes ==
  ASSUME Mixer, StoreSend
  PROVE  Controls'
<1> DEFINE t == FirstOf(route.todo)
           c == [route EXCEPT !.todo = @ \ {t}]
<1>1. /\ route \in [pc : {"output", "sends", "activate"}, bus : Stages, output : SUBSET Buffers,
                     on : SUBSET AuxStages, off : SUBSET AuxStages, todo : SUBSET Stages]
      /\ route.output = {}
                \/ \E x \in {Master} \union Later(SumStages, route.bus) : route.output = {x}
      /\ route.on \union route.off \subseteq Later(AuxStages, route.bus)
      /\ route.todo # {} /\ route.todo \subseteq route.on \union route.off /\ route.pc = "sends"
  BY DEF StoreSend, Mixer, Controls, RouteOK, NoCall
<1>2. t \in route.todo /\ t \in Stages
  BY <1>1, FirstIn
<1> HIDE DEF t
<1>3. RouteOK'
  <2>1. c \in [pc : {"sends"}, bus : Stages, output : SUBSET Buffers,
               on : SUBSET AuxStages, off : SUBSET AuxStages, todo : SUBSET Stages]
    BY <1>1
  <2>2. c.bus = route.bus /\ c.output = route.output /\ c.on = route.on /\ c.off = route.off
          /\ c.todo = route.todo \ {t}
    BY <1>1
  <2>3. route' = Stored(c)
    BY DEF StoreSend, t
  <2> HIDE DEF c
  <2> QED
    BY <1>1, <2>1, <2>2, <2>3, StoredRoutes
<1>4. t \in Later(AuxStages, route.bus)
  BY <1>1, <1>2
<1>5. sends' = [sends EXCEPT ![route.bus] = sends'[route.bus]]
        /\ sends'[route.bus] \subseteq sends[route.bus] \union {t}
  BY <1>1 DEF StoreSend, t, Mixer, Controls
<1>6. sends' \in [Stages -> SUBSET Stages] /\ Forward(routing, sends')
  <2>1. sends'[route.bus] \in SUBSET Stages /\ route.bus \in Stages
    BY <1>1, <1>2, <1>5 DEF Mixer, Controls
  <2>2. sends' \in [Stages -> SUBSET Stages]
    BY <1>5, <2>1 DEF Mixer, Controls
  <2>3. ASSUME NEW s \in Stages PROVE sends'[s] \subseteq {x \in AuxStages : x > s}
    <3>1. CASE s = route.bus
      BY <1>4, <1>5, <3>1 DEF Later, Mixer, Controls, Forward
    <3>2. CASE s # route.bus
      <4>1. sends'[s] = sends[s]
        BY <1>5, <3>2 DEF Mixer, Controls
      <4> QED
        BY <4>1 DEF Mixer, Controls, Forward
    <3> QED
      BY <3>1, <3>2
  <2> QED
    BY <2>2, <2>3 DEF Mixer, Controls, Forward
<1>7. routing' = routing
  BY DEF StoreSend
<1>8. Forward(routing, sends)'
  BY <1>6, <1>7
<1> QED
  BY <1>3, <1>6, <1>8 DEF StoreSend, Mixer, Controls

LEMMA ActivateRoutes ==
  ASSUME Mixer, Activate
  PROVE  Controls'
<1> DEFINE t == FirstOf(route.todo)
<1>1. /\ route \in [pc : {"output", "sends", "activate"}, bus : Stages, output : SUBSET Buffers,
                     on : SUBSET AuxStages, off : SUBSET AuxStages, todo : SUBSET Stages]
      /\ route.output = {}
                \/ \E x \in {Master} \union Later(SumStages, route.bus) : route.output = {x}
      /\ route.on \union route.off \subseteq Later(AuxStages, route.bus)
      /\ route.todo # {} /\ route.pc = "activate"
  <2>1. RouteOK /\ route.pc = "activate"
    BY DEF Activate, Mixer, Controls
  <2>2. route # NoCall
    BY <2>1 DEF NoCall
  <2> QED
    BY <2>1, <2>2, Zenon DEF RouteOK
<1>2. t \in route.todo /\ t \in Stages
  BY <1>1, FirstIn
<1>3. active' = [active EXCEPT ![t] = TRUE] /\ undone' = undone \ {t}
  BY DEF Activate
<1>4. RouteOK' /\ declared' \subseteq Sources
  <2>1. CASE route.todo \ {t} = {}
    <3>1. route' = NoCall /\ declared' = declared \union ({route.bus} \cap Sources)
      BY <2>1 DEF Activate
    <3> QED
      BY <3>1 DEF RouteOK, Mixer, Controls
  <2>2. CASE route.todo \ {t} # {}
    <3>1. route' = [route EXCEPT !.todo = route.todo \ {t}] /\ declared' = declared
      BY <2>2 DEF Activate
    <3> HIDE DEF t
    <3>2. RouteOK'
      BY <1>1, <2>2, <3>1 DEF RouteOK
    <3> QED
      BY <3>1, <3>2 DEF Mixer, Controls
  <2> QED
    BY <2>1, <2>2
<1> HIDE DEF t
<1>5. active' \in [Stages -> BOOLEAN] /\ undone' \subseteq Stages
  BY <1>2, <1>3 DEF Mixer, Controls
<1> QED
  BY <1>4, <1>5 DEF Activate, Mixer, Controls

LEMMA LoadsControl ==
  ASSUME Mixer, NEW s \in Stages, LoadPlugin(s) \/ LoadSucceeds(s) \/ LoadFails(s)
  PROVE  Controls'
<1>1. active' \in [Stages -> BOOLEAN] /\ undone' \subseteq Stages /\ declared' \subseteq Sources
  BY DEF LoadPlugin, LoadSucceeds, LoadFails, Mixer, Controls, atomics
<1>2. loads' \in [Stages -> Nat] /\ loaded' \in 0 .. MaxLoads
          /\ \A x \in Stages : loads'[x] <= loaded'
  BY MixerAssumption DEF LoadPlugin, LoadSucceeds, LoadFails, Mixer, Controls, atomics
<1>3. routing' = routing /\ sends' = sends /\ route' = route /\ routes' = routes
  BY DEF LoadPlugin, LoadSucceeds, LoadFails, atomics
<1>4. RouteOK'
  BY <1>3 DEF RouteOK, Mixer, Controls
<1> QED
  BY <1>1, <1>2, <1>3, <1>4 DEF Mixer, Controls

LEMMA SessionMixes ==
  ASSUME Mixer,
         \/ StoreOutput \/ StoreSend \/ Activate
         \/ \E s \in Stages : SetBusRouting(s) \/ LoadPlugin(s) \/ LoadSucceeds(s) \/ LoadFails(s)
         \/ \E e \in Sources : PlayAt(e)
  PROVE  Mixer'
<1>1. UNCHANGED callback /\ events' \subseteq Sources
  BY DEF StoreOutput, StoreSend, Activate, SetBusRouting, LoadPlugin, LoadSucceeds,
         LoadFails, PlayAt, Mixer, Signal
<1>2. CASE StoreOutput
  BY <1>1, <1>2, OutputRoutes, SessionKeeps
<1>3. CASE StoreSend
  BY <1>1, <1>3, SendRoutes, SessionKeeps
<1>4. CASE Activate
  BY <1>1, <1>4, ActivateRoutes, SessionKeeps
<1>5. ASSUME NEW s \in Stages, SetBusRouting(s) PROVE Mixer'
  BY <1>1, <1>5, CallRoutes, SessionKeeps
<1>6. ASSUME NEW s \in Stages, LoadPlugin(s) \/ LoadSucceeds(s) \/ LoadFails(s) PROVE Mixer'
  BY <1>1, <1>6, LoadsControl, SessionKeeps
<1>7. ASSUME NEW e \in Sources, PlayAt(e) PROVE Mixer'
  <2>1. UNCHANGED control
    BY <1>7 DEF PlayAt
  <2>2. RouteOK'
    BY <2>1 DEF Mixer, Controls, RouteOK, control
  <2>3. Controls'
    BY <2>1, <2>2 DEF Mixer, Controls, control, atomics
  <2> QED
    BY <1>1, <2>3, SessionKeeps
<1> QED
  BY <1>2, <1>3, <1>4, <1>5, <1>6, <1>7

(***************************************************************************)
(* The callback.                                                           *)
(***************************************************************************)

LEMMA ControlsStay ==
  ASSUME Mixer, UNCHANGED control
  PROVE  Controls'
<1>1. RouteOK'
  BY DEF Mixer, Controls, RouteOK, control
<1> QED
  BY <1>1 DEF Mixer, Controls, control, atomics

LEMMA OnwardStays ==
  ASSUME Mixer, NEW p, Onward(p)
  PROVE  at' \in Stages /\ pc' \in {pc, p}
BY Numbers DEF Onward, Mixer, Signal

\* As long as no graph is taken, there is nothing to show but types.
LEMMA QuietMixes ==
  ASSUME Mixer, UNCHANGED control, Signal', Fresh', pc' \notin {"post", "done"}
  PROVE  Mixer'
<1>1. Controls'
  BY ControlsStay
<1> QED
  BY <1>1 DEF Mixer, Clean, Conserved, MixedInItsBlock, Delivered, NoBleed

LEMMA BeginMixes ==
  ASSUME Mixer, Begin
  PROVE  Mixer'
<1>1. UNCHANGED snapshot /\ UNCHANGED control
  BY DEF Begin
<1>2. buf' \in Signals /\ stale' \subseteq Buffers
  BY DEF Begin, Signals, Silence
<1>3. Signal'
  BY <1>1, <1>2, Numbers DEF Begin, Mixer, Signal, snapshot
<1>4. Fresh'
  BY <1>1, Same DEF Begin, Mixer, Fresh
<1> QED
  BY <1>1, <1>3, <1>4, QuietMixes DEF Begin

LEMMA AnyMixes ==
  ASSUME Mixer, AnyActive
  PROVE  Mixer'
<1>1. UNCHANGED snapshot /\ UNCHANGED control
  BY DEF AnyActive
<1>2. at' \in Stages /\ pc' \in {"any", "flags", "dry"}
  BY OnwardStays, Numbers DEF AnyActive
<1>3. Signal'
  BY <1>1, <1>2 DEF AnyActive, Mixer, Signal, snapshot
<1>4. Fresh'
  BY <1>1, Same DEF AnyActive, Mixer, Fresh
<1> QED
  BY <1>1, <1>2, <1>3, <1>4, QuietMixes

LEMMA ReadMixes ==
  ASSUME Mixer, ReadFlag \/ ReadTarget \/ ReadTaps
  PROVE  Mixer'
<1>1. UNCHANGED control
  BY DEF ReadFlag, ReadTarget, ReadTaps
<1>2. at' \in Stages /\ pc' \in {"flags", "targets", "taps", "mix"}
  BY OnwardStays DEF ReadFlag, ReadTarget, ReadTaps
<1>3. at \in Stages /\ active[at] \in BOOLEAN /\ routing[at] \in Buffers
          /\ sends[at] \in SUBSET Stages
  BY DEF Mixer, Controls, Signal
<1>4. flags' \in [Stages -> BOOLEAN]
  BY <1>3 DEF ReadFlag, ReadTarget, ReadTaps, Mixer, Signal
<1>5. targets' \in [Stages -> Buffers] /\ taps' \in [Stages -> SUBSET Stages]
  BY <1>3 DEF ReadFlag, ReadTarget, ReadTaps, Mixer, Signal
<1>6. ASSUME NEW s \in Stages
      PROVE  /\ targets'[s] \in {Master} \union {t \in SumStages : t > s}
             /\ taps'[s] \subseteq {t \in AuxStages : t > s}
  <2>1. targets'[s] \in {targets[s], routing[s]}
    BY DEF ReadFlag, ReadTarget, ReadTaps, Mixer, Signal
  <2>2. taps'[s] \in {taps[s], sends[s]}
    BY DEF ReadFlag, ReadTarget, ReadTaps, Mixer, Signal
  <2> QED
    BY <2>1, <2>2 DEF Mixer, Signal, Controls, Forward
<1>7. Forward(targets, taps)'
  BY <1>6 DEF Forward
<1>8. UNCHANGED <<events, buf, stale, consumed>>
  BY DEF ReadFlag, ReadTarget, ReadTaps
<1>9. Signal'
  BY <1>2, <1>4, <1>5, <1>7, <1>8 DEF Mixer, Signal
<1> QED
  BY <1>1, <1>2, <1>9, QuietMixes DEF Fresh

LEMMA ReturnMixes ==
  ASSUME Mixer, Return
  PROVE  Mixer'
<1>1. UNCHANGED control
  BY DEF Return
<1>2. Forward(targets, taps)'
  BY DEF Return, Forward
<1>3. Signal'
  BY <1>2, Numbers, StageNumbers DEF Return, Mixer, Signal
<1>4. Fresh'
  BY DEF Return, Fresh, NoSnapshot
<1> QED
  BY <1>1, <1>3, <1>4, QuietMixes DEF Return

\* Without a graph every stage is one path from hw.
LEMMA DryCopies ==
  ASSUME Mixer, NoSnapshot, NEW e \in Sources
  PROVE  Copies[e] = 1
<1> PICK c : c = CopiesOf(targets, taps)
  OBVIOUS
<1>1. /\ c[Master] = 1
      /\ \A s \in Stages : c[s] = c[targets[s]] + ViaTaps(c, taps, s)
  BY CopiesRule DEF Mixer, Signal
<1>2. CASE e = Master
  BY <1>1, <1>2, CopiesIs
<1>3. CASE e # Master
  <2>1. e \in Stages
    BY <1>3, StageNumbers DEF Buffers
  <2>2. targets[e] = Master /\ taps[e] = {}
    BY <2>1 DEF NoSnapshot
  <2> DEFINE f == [t \in Stages |-> IF t \in taps[e] THEN c[t] ELSE 0]
  <2>3. OnlyAt(f, 0, 0, LastStage)
    BY <2>2 DEF OnlyAt, Stages
  <2> HIDE DEF f
  <2>4. Total(f, LastStage) = 0
    BY <2>3, TotalAt, StageNumbers
  <2>5. ViaTaps(c, taps, e) = 0
    BY <2>4 DEF ViaTaps, f
  <2> QED
    BY <1>1, <2>1, <2>2, <2>5, CopiesIs
<1> QED
  BY <1>2, <1>3

LEMMA DryMixes ==
  ASSUME Mixer, Dry
  PROVE  Mixer'
<1>1. UNCHANGED snapshot /\ UNCHANGED control /\ at' = at
  BY DEF Dry
<1>2. Controls'
  BY <1>1, ControlsStay
<1>3. buf' \in Signals
  <2>1. [e \in Sources |-> IF e \in events THEN 1 ELSE 0] \in [Sources -> Nat]
    OBVIOUS
  <2> QED
    BY <2>1 DEF Dry, Mixer, Signal, Signals
<1>4. Signal'
  BY <1>1, <1>3 DEF Dry, Mixer, Signal, snapshot
<1>5. Fresh' /\ Clean' /\ Conserved'
  BY DEF Dry, Fresh, Clean, Conserved
<1>6. Delivered'
  <2> SUFFICES ASSUME NEW e \in Sources
               PROVE  buf'[Master][e] = IF e \in consumed' THEN Copies'[e] ELSE 0
    BY DEF Delivered
  <2>1. buf'[Master] = [x \in Sources |-> IF x \in events THEN 1 ELSE 0] /\ consumed' = events
    BY StageNumbers DEF Dry, Mixer, Signal, Signals
  <2>2. NoSnapshot
    BY DEF Dry, Mixer, Fresh
  <2>3. Copies'[e] = 1
    BY <1>1, <2>2, DryCopies, Same
  <2> QED
    BY <2>1, <2>3
<1>7. NoBleed'
  BY DEF Dry, NoBleed
<1> QED
  BY <1>2, <1>4, <1>5, <1>6, <1>7 DEF Mixer, MixedInItsBlock

\* Before the loop a source is in its own buffer only.
LEMMA AllOwed ==
  ASSUME NEW c, c[Master] = 1, \A x \in Buffers : c[x] \in Nat,
         NEW m, NEW heard \in SUBSET Sources, heard \ {Master} \subseteq m,
         NEW b, b = [x \in Buffers |-> IF x \in heard THEN Of(x) ELSE Silence],
         NEW e \in Sources
  PROVE  Promised(b, c, m, 1, e) = IF e \in heard THEN c[e] ELSE 0
<1> DEFINE v == IF e \in heard /\ e # Master THEN c[e] ELSE 0
           f == Carry(b, c, m, 1, e)
<1>1. \A x \in Buffers : b[x][e] = IF x = e /\ e \in heard THEN 1 ELSE 0
  BY DEF Of, Silence
<1>2. v \in Nat
  BY StageNumbers
<1>3. OnlyAt(f, e, v, LastStage)
  <2> SUFFICES ASSUME NEW s \in Stages PROVE f[s] = IF s = e THEN v ELSE 0
    BY DEF OnlyAt, Stages
  <2>1. s \in Buffers /\ s # Master /\ s >= 1 /\ c[s] \in Nat
    BY StageNumbers DEF Stages
  <2>2. Times(0, c[s]) = 0 /\ Times(1, c[s]) = c[s]
    BY <2>1, TimesOne
  <2>3. f[s] = IF s \in m THEN Times(b[s][e], c[s]) ELSE 0
    BY <2>1 DEF Carry
  <2> HIDE DEF f
  <2>4. CASE s = e /\ e \in heard
    BY <1>1, <2>1, <2>2, <2>3, <2>4
  <2>5. CASE ~(s = e /\ e \in heard)
    <3>1. b[s][e] = 0
      BY <1>1, <2>1, <2>5
    <3>2. f[s] = 0
      BY <2>2, <2>3, <3>1
    <3> QED
      BY <2>5, <3>2
  <2> QED
    BY <2>4, <2>5
<1>4. e \in 1 .. LastStage <=> e # Master
  BY StageNumbers DEF Buffers, Stages
<1> HIDE DEF f, v
<1>5. Total(f, LastStage) = IF e # Master THEN v ELSE 0
  BY <1>2, <1>3, <1>4, TotalAt, StageNumbers, Zenon
<1>6. b[Master][e] = IF Master = e /\ e \in heard THEN 1 ELSE 0
  BY <1>1, StageNumbers
<1>7. Promised(b, c, m, 1, e) = b[Master][e] + Total(f, LastStage)
  BY DEF Promised, f
<1>8. CASE e = Master
  BY <1>5, <1>6, <1>7, <1>8
<1>9. CASE e # Master
  BY <1>2, <1>5, <1>6, <1>7, <1>9 DEF v
<1> QED
  BY <1>8, <1>9

LEMMA HeardMixes ==
  ASSUME Mixer, NEW heard \in SUBSET events, heard \ {Master} \subseteq Marked, MixWhat(heard)
  PROVE  Mixer'
<1>1. UNCHANGED snapshot /\ UNCHANGED control
  BY DEF MixWhat
<1>2. Controls'
  BY <1>1, ControlsStay
<1>3. heard \in SUBSET Sources
  BY DEF Mixer, Signal
<1>4. buf' \in Signals
  <2>1. \A x \in Buffers : Of(x) \in [Sources -> Nat] /\ Silence \in [Sources -> Nat]
    BY DEF Of, Silence
  <2> QED
    BY <2>1 DEF MixWhat, Signals
<1>5. Signal'
  BY <1>1, <1>3, <1>4, Numbers DEF MixWhat, Mixer, Signal, snapshot
<1>6. Fresh'
  BY DEF MixWhat, Fresh
<1>7. Clean'
  BY <1>1, Same DEF MixWhat, Clean, Zeroed
<1>8. Conserved'
  <2> SUFFICES ASSUME NEW e \in Sources
               PROVE  Promised(buf', Copies', Marked', at', e) = IF e \in consumed'
                         THEN Copies'[e] ELSE 0
    BY DEF Conserved
  <2>1. Copies' = Copies /\ Marked' = Marked /\ at' = 1 /\ consumed' = heard
    BY <1>1, Same DEF MixWhat
  <2>2. Copies[Master] = 1 /\ \A x \in Buffers : Copies[x] \in Nat
    BY CopiesRule, CopiesIs DEF Mixer, Signal
  <2>3. buf' = [x \in Buffers |-> IF x \in heard THEN Of(x) ELSE Silence]
    BY DEF MixWhat
  <2>4. Promised(buf', Copies, Marked, 1, e) = IF e \in heard THEN Copies[e] ELSE 0
    BY <1>3, <2>2, <2>3, AllOwed
  <2> QED
    BY <2>1, <2>4
<1>9. MixedInItsBlock'
  BY DEF MixWhat, MixedInItsBlock, Delivered, NoBleed
<1> QED
  BY <1>2, <1>5, <1>6, <1>7, <1>8, <1>9 DEF Mixer

LEMMA MixMixes ==
  ASSUME Mixer, Mix \/ Contended
  PROVE  Mixer'
<1>1. CASE Mix
  <2> DEFINE heard == {e \in events : e = Master \/ flags[e]}
  <2>1. heard \in SUBSET events /\ MixWhat(heard)
    BY <1>1 DEF Mix
  <2>2. heard \ {Master} \subseteq Marked
    BY StageNumbers DEF Marked, Mixer, Signal, Buffers
  <2> HIDE DEF heard
  <2> QED
    BY <2>1, <2>2, HeardMixes
<1>2. CASE Contended
  <2>1. {} \in SUBSET events /\ {} \ {Master} \subseteq Marked /\ MixWhat({})
    BY <1>2 DEF Contended
  <2> QED
    BY <2>1, HeardMixes
<1> QED
  BY <1>1, <1>2

(***************************************************************************)
(* The loop.                                                               *)
(***************************************************************************)

\* The loop comes to every stage that a stage it comes to feeds.
LEMMA WholeMarks ==
  ASSUME Mixer, Whole, NEW k \in Marked
  PROVE  ({targets[k]} \union taps[k]) \ {Master} \subseteq Marked
<1> SUFFICES ASSUME NEW t \in ({targets[k]} \union taps[k]) \ {Master} PROVE t \in Marked
  OBVIOUS
<1>1. k \in Stages
  BY DEF Marked
<1>2. t \in Stages /\ t \in Edges(k)
  BY <1>1, StageNumbers DEF Edges, Mixer, Signal, Forward
<1>3. \A s \in Stages : s \in Marked <=> flags[s] \/ Joined(s)
  BY DEF Marked, Joined, Edges
<1>4. CASE flags[k]
  BY <1>1, <1>2, <1>3, <1>4 DEF Joined
<1>5. CASE ~flags[k]
  BY <1>1, <1>2, <1>3, <1>5 DEF Whole
<1> QED
  BY <1>4, <1>5

\* A turn of the loop moves what is owed and changes nothing about it.
LEMMA TurnOwes ==
  ASSUME Mixer, Post, Whole, NEW e \in Sources
  PROVE  Promised(buf', Copies, Marked, at + 1, e) = Promised(buf, Copies, Marked, at, e)
<1>1. at \in Stages /\ buf \in Signals
  BY DEF Mixer, Signal
<1>2. CASE at \notin Marked
  <2>1. buf' = buf
    BY <1>2 DEF Post
  <2> QED
    BY <1>1, <1>2, <2>1, Skipped
<1>3. CASE at \in Marked
  <2> DEFINE t == targets[at]
             tap == taps[at]
  <2>1. buf' = Added(buf, at, {t} \union tap)
    BY <1>3 DEF Post, Added, Fed
  <2>2. t \in {Master} \union {x \in SumStages : x > at}
            /\ tap \in SUBSET {x \in AuxStages : x > at}
    BY <1>1 DEF Mixer, Signal, Forward
  <2>3. /\ Copies[Master] = 1 /\ \A x \in Buffers : Copies[x] \in Nat
        /\ Copies[at] = Copies[t] + ViaTaps(Copies, taps, at)
    BY <1>1, CopiesRule, CopiesIs DEF Mixer, Signal
  <2>4. ({t} \union tap) \ {Master} \subseteq Marked
    BY <1>3, WholeMarks
  <2>5. Marked \in SUBSET Stages
    BY DEF Marked
  <2> PICK c, m : c = Copies /\ m = Marked
    OBVIOUS
  <2>6. /\ c[Master] = 1 /\ \A x \in Buffers : c[x] \in Nat
        /\ c[at] = c[t] + ViaTaps(c, taps, at)
        /\ m \in SUBSET Stages /\ at \in m /\ ({t} \union tap) \ {Master} \subseteq m
    BY <1>3, <2>3, <2>4, <2>5
  <2>7. taps[at] = tap
    OBVIOUS
  <2> HIDE DEF t, tap
  <2>8. Promised(Added(buf, at, {t} \union tap), c, m, at + 1, e) = Promised(buf, c, m, at, e)
    BY <1>1, <2>2, <2>6, <2>7, Passed
  <2> QED
    BY <2>1, <2>8
<1> QED
  BY <1>2, <1>3

\* Added the last stage nothing is still to come.
LEMMA AllPaid ==
  ASSUME NEW b \in Signals, NEW c, NEW m, NEW e \in Sources
  PROVE  Promised(b, c, m, LastStage + 1, e) = b[Master][e]
<1> DEFINE f == Carry(b, c, m, LastStage + 1, e)
<1>1. OnlyAt(f, 0, 0, LastStage)
  <2>1. \A s \in Stages : ~(s >= LastStage + 1)
    BY StageNumbers DEF Stages
  <2> QED
    BY <2>1 DEF OnlyAt, Carry, Stages
<1> HIDE DEF f
<1>2. Total(f, LastStage) = 0
  BY <1>1, TotalAt, StageNumbers
<1>3. b[Master][e] \in Nat
  BY StageNumbers DEF Signals
<1> QED
  BY <1>2, <1>3 DEF Promised, f

LEMMA PostMixes ==
  ASSUME Mixer, Post
  PROVE  Mixer'
<1>1. UNCHANGED snapshot /\ UNCHANGED control /\ UNCHANGED <<events, consumed>>
  BY DEF Post
<1>2. Copies' = Copies /\ Marked' = Marked /\ (Whole' <=> Whole)
  BY <1>1, Same
<1>3. Controls'
  BY <1>1, ControlsStay
<1>4. at \in Stages /\ at' \in Stages /\ pc' \in {"post", "done"}
  BY OnwardStays DEF Post, Mixer, Signal
<1>5. stale' = stale /\ stale \cap Zeroed = {}
  <2>1. stale \cap Zeroed = {}
    BY DEF Post, Mixer, Clean
  <2>2. at \in Marked => at \notin stale
    BY <2>1 DEF Zeroed
  <2> QED
    BY <2>1, <2>2 DEF Post
<1>6. buf' \in Signals
  <2>1. CASE at \notin Marked
    BY <2>1 DEF Post, Mixer, Signal
  <2>2. CASE at \in Marked
    <3>1. buf' = Added(buf, at, Fed(at))
      BY <2>2 DEF Post, Added
    <3> QED
      BY <1>4, <3>1, PlusIs, StageNumbers DEF Mixer, Signal
  <2> QED
    BY <2>1, <2>2
<1>7. Signal'
  BY <1>1, <1>4, <1>5, <1>6 DEF Mixer, Signal, snapshot
<1>8. Fresh'
  BY <1>4 DEF Fresh
<1>9. Clean'
  BY <1>2, <1>5 DEF Clean, Zeroed
<1>10. Whole => \A e \in Sources : Promised(buf', Copies, Marked, at + 1, e)
                                    = IF e \in consumed THEN Copies[e] ELSE 0
  BY TurnOwes DEF Post, Mixer, Conserved
<1>11. Conserved'
  <2> SUFFICES ASSUME pc' = "post", Whole
               PROVE  \A e \in Sources : Promised(buf', Copies, Marked, at', e)
                                          = IF e \in consumed THEN Copies[e] ELSE 0
    BY <1>1, <1>2 DEF Conserved
  <2>1. at' = at + 1
    BY DEF Post, Onward
  <2> QED
    BY <1>10, <2>1
<1>12. Delivered'
  <2> SUFFICES ASSUME pc' = "done", Whole, NEW e \in Sources
               PROVE  buf'[Master][e] = IF e \in consumed THEN Copies[e] ELSE 0
    BY <1>1, <1>2 DEF Delivered
  <2>1. at = LastStage
    BY <1>4, StageNumbers DEF Post, Onward, Stages
  <2>2. Promised(buf', Copies, Marked, LastStage + 1, e) = buf'[Master][e]
    BY <1>6, AllPaid
  <2> QED
    BY <1>10, <2>1, <2>2
<1>13. NoBleed'
  BY <1>5 DEF NoBleed, Zeroed
<1> QED
  BY <1>3, <1>7, <1>8, <1>9, <1>11, <1>12, <1>13 DEF Mixer, MixedInItsBlock

LEMMA NextMixer == Mixer /\ [MixNext]_mixVars => Mixer'
<1> SUFFICES ASSUME Mixer, [MixNext]_mixVars PROVE Mixer'
  OBVIOUS
<1>1. CASE Begin
  BY <1>1, BeginMixes
<1>2. CASE AnyActive
  BY <1>2, AnyMixes
<1>3. CASE Dry
  BY <1>3, DryMixes
<1>4. CASE ReadFlag \/ ReadTarget \/ ReadTaps
  BY <1>4, ReadMixes
<1>5. CASE Mix \/ Contended
  BY <1>5, MixMixes
<1>6. CASE Post
  BY <1>6, PostMixes
<1>7. CASE Return
  BY <1>7, ReturnMixes
<1>8. CASE \/ StoreOutput \/ StoreSend \/ Activate
           \/ \E s \in Stages : SetBusRouting(s) \/ LoadPlugin(s) \/ LoadSucceeds(s) \/ LoadFails(s)
           \/ \E e \in Sources : PlayAt(e)
  BY <1>8, SessionMixes
<1>9. CASE UNCHANGED mixVars
  <2>1. UNCHANGED callback /\ UNCHANGED control /\ events' = events
    BY <1>9 DEF mixVars, callback
  <2>2. Controls'
    BY <2>1, ControlsStay
  <2> QED
    BY <2>1, <2>2, SessionKeeps DEF Mixer, Signal
<1> QED
  BY <1>1, <1>2, <1>3, <1>4, <1>5, <1>6, <1>7, <1>8, <1>9 DEF MixNext, Callback

LEMMA Mixes == MixSpec => []Mixer
BY InitMixer, NextMixer, PTL DEF MixSpec

\* Stages are routed and sent forward only, in the atomics and in every
\* snapshot, whatever calls and failing loads came together; the rest of the
\* mixer's variables have their types.
THEOREM MixTypeCorrect == MixSpec => []MixTypeOK
BY Mixes, MixerTyped, PTL

\* render_multi and the loop over the stages: every event a block consumes
\* reaches hw once along each path of the graph the callback has read, nothing
\* of an earlier block does, for any number of stages of each kind.
THEOREM BlocksAreWhole == MixSpec => []MixedInItsBlock
<1>1. Mixer => MixedInItsBlock
  BY DEF Mixer
<1> QED
  BY <1>1, Mixes, PTL

===============================================================================
