--------------------------- MODULE ShareKeyProofs ---------------------------
(* That a share key determines the contract and the object it is for.      *)
EXTENDS ShareKey, SequenceTheorems, TLAPS

\* Where the parts of a share key are.
LEMMA ShareKeyParts ==
  ASSUME NEW Char, NEW c \in Seq(Char), NEW o \in Seq(Char)
  PROVE  /\ Len(ShareKey(c, o)) = Len(c) + 1 + Len(o)
         /\ \A i \in 1..Len(c) : ShareKey(c, o)[i] = c[i]
         /\ ShareKey(c, o)[Len(c) + 1] = Sep
         /\ \A i \in 1..Len(o) : ShareKey(c, o)[Len(c) + 1 + i] = o[i]
<1> DEFINE All == Char \cup {Sep}
<1>1. c \in Seq(All) /\ o \in Seq(All) /\ <<Sep>> \in Seq(All)
  OBVIOUS
<1> DEFINE front == c \o <<Sep>>
<1>2. /\ front \in Seq(All) /\ Len(front) = Len(c) + 1
      /\ \A i \in 1..Len(c) : front[i] = c[i]
      /\ front[Len(c) + 1] = Sep
  BY <1>1
<1>3. ShareKey(c, o) = front \o o
  BY DEF ShareKey
<1>5. Len(c) \in Nat /\ Len(o) \in Nat
  OBVIOUS
<1> HIDE DEF front, All
<1>4. /\ Len(ShareKey(c, o)) = Len(front) + Len(o)
      /\ \A i \in 1..(Len(front) + Len(o)) : ShareKey(c, o)[i] =
           IF i <= Len(front) THEN front[i] ELSE o[i - Len(front)]
  <2>1. /\ Len(front \o o) = Len(front) + Len(o)
        /\ \A i \in 1..(Len(front) + Len(o)) : (front \o o)[i] =
             IF i <= Len(front) THEN front[i] ELSE o[i - Len(front)]
    BY <1>1, <1>2
  <2> QED BY <1>3, <2>1, Zenon
<1>6. \A i \in 1..Len(c) : ShareKey(c, o)[i] = c[i]
  BY <1>2, <1>4, <1>5
<1>7. ShareKey(c, o)[Len(c) + 1] = Sep
  BY <1>2, <1>4, <1>5
<1>8. ASSUME NEW i \in 1..Len(o) PROVE ShareKey(c, o)[Len(c) + 1 + i] = o[i]
  <2>1. /\ Len(c) + 1 + i \in 1..(Len(front) + Len(o))
        /\ ~(Len(c) + 1 + i <= Len(front))
        /\ Len(c) + 1 + i - Len(front) = i
    BY <1>2, <1>5
  <2> QED BY <1>4, <2>1
<1> QED BY <1>2, <1>4, <1>6, <1>7, <1>8

\* The part before the first separator ends where the contract id does.
LEMMA SameLength ==
  ASSUME NEW Char, NEW c \in Seq(Char), NEW o \in Seq(Char),
         NEW d \in Seq(Char), NEW p \in Seq(Char),
         SepFree(d), ShareKey(c, o) = ShareKey(d, p)
  PROVE  Len(d) <= Len(c)
<1>1. SUFFICES ASSUME Len(c) + 1 \in 1..Len(d) PROVE FALSE
  OBVIOUS
<1>2. ShareKey(c, o)[Len(c) + 1] = Sep
  BY ShareKeyParts
<1>3. \A i \in 1..Len(d) : ShareKey(d, p)[i] = d[i]
  BY ShareKeyParts
<1> QED BY <1>1, <1>2, <1>3 DEF SepFree

\* Contract ids without a separator: the key handleStoreShare files a share
\* under is the key of no other contract or object, whatever the object ids.
THEOREM ShareKeyInjective ==
  ASSUME NEW Char, NEW Contracts \in SUBSET Seq(Char),
         NEW Objects \in SUBSET Seq(Char),
         \A c \in Contracts : SepFree(c)
  PROVE  KeysDistinct(Contracts, Objects)
<1>0. \A c \in Contracts, o \in Objects :
        /\ Len(ShareKey(c, o)) = Len(c) + 1 + Len(o)
        /\ \A i \in 1..Len(c) : ShareKey(c, o)[i] = c[i]
        /\ \A i \in 1..Len(o) : ShareKey(c, o)[Len(c) + 1 + i] = o[i]
  BY ShareKeyParts
<1> SUFFICES ASSUME NEW c \in Contracts, NEW d \in Contracts,
                    NEW o \in Objects, NEW p \in Objects,
                    ShareKey(c, o) = ShareKey(d, p)
             PROVE  c = d /\ o = p
  BY DEF KeysDistinct
<1>1. c \in Seq(Char) /\ d \in Seq(Char) /\ o \in Seq(Char) /\ p \in Seq(Char)
  OBVIOUS
<1>2. Len(c) = Len(d)
  <2>1. Len(d) <= Len(c)
    BY <1>1, SameLength
  <2>2. Len(c) <= Len(d)
    BY <1>1, SameLength
  <2> QED BY <1>1, <2>1, <2>2
<1>3. /\ Len(ShareKey(c, o)) = Len(c) + 1 + Len(o)
      /\ \A i \in 1..Len(c) : ShareKey(c, o)[i] = c[i]
      /\ \A i \in 1..Len(o) : ShareKey(c, o)[Len(c) + 1 + i] = o[i]
  BY <1>0, Zenon
<1>4. /\ Len(ShareKey(d, p)) = Len(d) + 1 + Len(p)
      /\ \A i \in 1..Len(d) : ShareKey(d, p)[i] = d[i]
      /\ \A i \in 1..Len(p) : ShareKey(d, p)[Len(d) + 1 + i] = p[i]
  BY <1>0, Zenon
<1>5. Len(o) = Len(p)
  BY <1>1, <1>2, <1>3, <1>4
<1>6. c = d
  BY <1>1, <1>2, <1>3, <1>4, SeqEqual
<1>7. o = p
  BY <1>1, <1>2, <1>3, <1>4, <1>5, SeqEqual
<1> QED BY <1>6, <1>7
=============================================================================
