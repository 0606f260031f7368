---------------------------- MODULE ReceiverProofs ---------------------------
(***************************************************************************)
(* Theorems about the receivers: for both formats, frames of any length that *)
(* end at any byte, and any number of frames.  A receiver implements the     *)
(* writer of PacketWriter, and never runs two frames together.               *)
(***************************************************************************)
EXTENDS Receiver, SequenceTheorems, FiniteSetTheorems, TLAPS

OutWord == [kind : {"header", "primitive", "eof"}, n : 0 .. MaxPrim]

Ends == {i \in 1 .. Len(out) : out[i] = EndOfPacket}
LastEnd == CHOOSE i \in Ends : \A j \in Ends : j <= i

\* Words that have been dealt with, and the primitives among the first k.
Handled == IF FSMReceive = "S3" /\ WordComplete THEN pos \div WordBytes - 1 ELSE pos \div WordBytes
PrimSet(k) == {i \in HeaderWord + 1 .. k : frame.words[i] = "primitive"}

InFrame == FSMReceive \in {"S3", "S3_loop"}

\* What Since is made of.
Cut ==
    /\ out \in Seq(OutWord)
    /\ Ends # {} => \E i \in Ends : \A j \in Ends : j <= i

PortInv ==
    /\ mode \in Modes /\ rready \in BOOLEAN
    /\ frame.words \in Seq(Kinds) /\ frame.extra \in 0 .. WordBytes - 1 /\ frame.n \in 0 .. MaxPrim
    /\ pos \in 0 .. Bytes(frame) /\ frames \in Nat
    /\ rready /\ mode.proper => Proper(frame)

\* While primitives stay active, the flags say how many words of the header have been
\* handled.
StateInv ==
    /\ FSMReceive \in {"S1", "S2", "S3", "S3_loop", "S4"}
    /\ headermode \in BOOLEAN /\ headerreceived \in BOOLEAN
    /\ rready /\ FSMReceive \in {"S1", "S2"} => pos = 0
    /\ InFrame => /\ pos > 0
                  /\ rready \/ mode.fails
                  /\ ~mode.stops => /\ headermode <=> Handled = 0
                                    /\ headerreceived <=> Handled = 1 /\ HeaderWord = 2
    /\ FSMReceive = "S3_loop" => WordComplete

ActiveInv == activate_primitives \in BOOLEAN /\ (activate_primitives \/ mode.stops)

\* The packet that is being written.
SinceInv ==
    IF InFrame /\ Handled >= HeaderWord
    THEN /\ Len(Since) = Cardinality(PrimSet(Handled)) + 1
         /\ Since[1] = Header(frame.n)
    ELSE Since = <<>>

\* If nothing is refused, every frame has its end.
PacketInv ==
    Reliable =>
        /\ IsFiniteSet(Ends)
        /\ frames = Cardinality(Ends) + (IF rready /\ FSMReceive # "S4" THEN 1 ELSE 0)
        /\ HeaderFirst
        /\ SinceInv

\* Whatever is refused or not active, no frame has two ends.
EndsInv ==
    IsFiniteSet(Ends) /\ Cardinality(Ends) + (IF rready /\ FSMReceive # "S4" THEN 1 ELSE 0) <= frames

IInv == Cut /\ PortInv /\ StateInv /\ PacketInv

\* The steps of PacketWriter, by what is written.
Remaining == IF Since = <<>> THEN -1 ELSE Since[1].n - (Len(Since) - 1)
Simulates ==
    Promised => \/ out' = out
                \/ out' = Append(out, EndOfPacket) /\ Remaining = 0
                \/ out' = Append(out, Primitive) /\ Remaining > 0
                \/ \E n \in 0 .. MaxPrim : out' = Append(out, Header(n)) /\ Since = <<>>

-----------------------------------------------------------------------------
(***************************************************************************)
(* Bytes and words.                                                         *)
(***************************************************************************)
LEMMA NextByte ==
    ASSUME NEW p \in Nat, NEW w \in {4, 8}
    PROVE  /\ p \div w \in Nat /\ (p + 1) \div w \in Nat
           /\ p % w = 0 => (p + 1) % w # 0 /\ (p + 1) \div w = p \div w
           /\ p % w # 0 => (p + 1) \div w = IF (p + 1) % w = 0 THEN p \div w + 1 ELSE p \div w
           /\ p < w => p \div w = 0
<1>1. CASE w = 4
  BY <1>1
<1>2. CASE w = 8
  BY <1>2
<1> QED BY <1>1, <1>2

\* A word that is complete lies in the frame, and a frame without rest ends with a word.
LEMMA WordInFrame ==
    ASSUME NEW p \in Nat, NEW w \in {4, 8}, NEW l \in Nat, NEW x \in 0 .. w - 1,
           p <= l * w + x
    PROVE  /\ p \div w <= l
           /\ p = l * w => p % w = 0 /\ p \div w = l
           /\ p > 0 /\ p % w = 0 => p \div w >= 1
           /\ l > 0 => l * w > 0
           /\ l * w + x \in Nat
<1>1. CASE w = 4
  BY <1>1
<1>2. CASE w = 8
  BY <1>2
<1> QED BY <1>1, <1>2

-----------------------------------------------------------------------------
(***************************************************************************)
(* The words since the last end of packet.                                  *)
(***************************************************************************)
\* The rest of a sequence behind one of its places, and behind it a word more.
LEMMA Rest ==
    ASSUME NEW S, NEW s \in Seq(S), NEW e \in 1 .. Len(s)
    PROVE  /\ SubSeq(s, 1 + e, Len(s)) \in Seq(S)
           /\ Len(SubSeq(s, 1 + e, Len(s))) = Len(s) - e
           /\ \A i \in 1 .. Len(s) - e : SubSeq(s, 1 + e, Len(s))[i] = s[e + i]
<1> DEFINE m == 1 + e
           n == Len(s)
<1>1. m \in Int /\ n \in Int /\ \A i \in m .. n : s[i] \in S
  <2>1. \A i \in m .. n : i \in 1 .. Len(s)
    BY LenProperties
  <2> QED BY <2>1, ElementOfSeq, LenProperties
<1>2. n - m + 1 = Len(s) - e /\ n \in Nat /\ e \in 1 .. n
  BY LenProperties
<1>5. \A i \in Nat : m + i - 1 = e + i
  BY <1>2
<1> HIDE DEF m, n
<1>3. /\ SubSeq(s, m, n) \in Seq(S)
      /\ Len(SubSeq(s, m, n)) = IF m <= n THEN n - m + 1 ELSE 0
      /\ \A i \in 1 .. n - m + 1 : SubSeq(s, m, n)[i] = s[m + i - 1]
  BY <1>1, SubSeqProperties
<1> DEFINE t == SubSeq(s, m, n)
<1> HIDE DEF t
<1>4. t \in Seq(S) /\ Len(t) = n - e /\ \A i \in 1 .. n - e : t[i] = s[e + i]
  <2>1. t \in Seq(S)
    BY <1>3 DEF t
  <2>2. Len(t) = n - e
    <3>1. Len(t) = IF m <= n THEN n - m + 1 ELSE 0
      BY <1>3 DEF t
    <3>2. m \in Int /\ n \in Nat /\ e \in 1 .. n /\ m = 1 + e
      BY <1>1, <1>2 DEF m
    <3> QED BY <3>1, <3>2
  <2>3. ASSUME NEW i \in 1 .. n - e PROVE t[i] = s[e + i]
    <3>1. i \in 1 .. n - m + 1 /\ m + i - 1 = e + i
      BY <1>1, <1>2, <1>5 DEF m, n
    <3>2. t[i] = s[m + i - 1]
      BY <1>3, <3>1 DEF t
    <3> QED BY <3>1, <3>2
  <2> QED BY <2>1, <2>2, <2>3
<1> QED BY <1>4 DEF t, m, n

LEMMA RestAppend ==
    ASSUME NEW S, NEW s \in Seq(S), NEW w \in S, NEW e \in 1 .. Len(s)
    PROVE  SubSeq(Append(s, w), 1 + e, Len(Append(s, w))) = Append(SubSeq(s, 1 + e, Len(s)), w)
<1> DEFINE a == Append(s, w)
           t == SubSeq(s, 1 + e, Len(s))
           u == SubSeq(a, 1 + e, Len(a))
           v == Append(t, w)
<1>1. /\ a \in Seq(S) /\ Len(a) = Len(s) + 1 /\ Len(s) \in Nat
      /\ \A i \in 1 .. Len(s) : a[i] = s[i]
      /\ a[Len(s) + 1] = w
  BY AppendProperties, LenProperties
<1> HIDE DEF a
<1>2. t \in Seq(S) /\ Len(t) = Len(s) - e /\ \A i \in 1 .. Len(s) - e : t[i] = s[e + i]
  BY Rest
<1>3. e \in 1 .. Len(a)
  BY <1>1
<1>4. u \in Seq(S) /\ Len(u) = Len(a) - e /\ \A i \in 1 .. Len(a) - e : u[i] = a[e + i]
  <2>1. a \in Seq(S)
    BY <1>1
  <2> QED BY <1>3, <2>1, Rest, Zenon
<1> HIDE DEF t, u
<1>5. v \in Seq(S) /\ Len(v) = Len(t) + 1
      /\ (\A i \in 1 .. Len(t) : v[i] = t[i]) /\ v[Len(t) + 1] = w
  <2>1. t \in Seq(S)
    BY <1>2
  <2>2. v \in Seq(S)
    BY <2>1, AppendProperties
  <2>3. Len(v) = Len(t) + 1
    BY <2>1, AppendProperties
  <2>4. \A i \in 1 .. Len(t) : v[i] = t[i]
    BY <2>1, AppendProperties
  <2>5. v[Len(t) + 1] = w
    BY <2>1, AppendProperties
  <2> QED BY <2>2, <2>3, <2>4, <2>5
<1> HIDE DEF v
<1>6. Len(u) = Len(v)
  BY <1>1, <1>2, <1>4, <1>5
<1>7. ASSUME NEW i \in 1 .. Len(u) PROVE u[i] = v[i]
  <2>1. u[i] = a[e + i] /\ i \in 1 .. Len(s) - e + 1 /\ e \in 1 .. Len(s) /\ Len(s) \in Nat
    BY <1>1, <1>4
  <2>2. CASE i \in 1 .. Len(s) - e
    <3>1. e + i \in 1 .. Len(s) /\ i \in 1 .. Len(t)
      BY <1>2, <2>1, <2>2
    <3>2. a[e + i] = s[e + i] /\ v[i] = t[i]
      BY <1>1, <1>5, <3>1
    <3> QED BY <1>2, <2>1, <2>2, <3>2
  <2>3. CASE i = Len(s) - e + 1
    <3>1. e + i = Len(s) + 1 /\ i = Len(t) + 1
      BY <1>2, <2>1, <2>3
    <3> QED BY <1>1, <1>5, <2>1, <3>1
  <2> QED BY <2>1, <2>2, <2>3
<1>8. u = v
  BY <1>4, <1>5, <1>6, <1>7, SeqEqual
<1> QED BY <1>8 DEF u, v, a, t

LEMMA WordTypes ==
    /\ \A n \in 0 .. MaxPrim : Header(n) \in OutWord /\ Header(n) # EndOfPacket
    /\ Primitive \in OutWord /\ EndOfPacket \in OutWord /\ Primitive # EndOfPacket
BY ReceiverAssumption DEF Header, Primitive, EndOfPacket, OutWord

LEMMA SinceDef ==
    /\ Since = IF Ends = {} THEN out ELSE SubSeq(out, 1 + LastEnd, Len(out))
    /\ Since' = IF Ends' = {} THEN out' ELSE SubSeq(out', 1 + LastEnd', Len(out'))
BY DEF Since, Ends, LastEnd

LEMMA LastEndIn ==
    ASSUME Cut, Ends # {}
    PROVE  LastEnd \in 1 .. Len(out) /\ out[LastEnd] = EndOfPacket
<1>1. LastEnd \in Ends
  BY DEF Cut, LastEnd
<1> QED BY <1>1 DEF Ends

LEMMA SinceType ==
    ASSUME Cut PROVE Since \in Seq(OutWord)
<1>1. CASE Ends = {}
  BY <1>1, SinceDef DEF Cut
<1>2. CASE Ends # {}
  <2>1. LastEnd \in 1 .. Len(out)
    BY <1>2, LastEndIn
  <2>2. SubSeq(out, 1 + LastEnd, Len(out)) \in Seq(OutWord)
    BY <2>1, Rest DEF Cut
  <2> QED BY <1>2, <2>2, SinceDef
<1> QED BY <1>1, <1>2

\* With nothing since the last end of packet, that is the last word written.
LEMMA SinceEmpty ==
    ASSUME Cut, Since = <<>>
    PROVE  out = <<>> \/ out[Len(out)] = EndOfPacket
<1>1. CASE Ends = {}
  BY <1>1, SinceDef
<1>2. CASE Ends # {}
  <2>1. LastEnd \in 1 .. Len(out) /\ out[LastEnd] = EndOfPacket
    BY <1>2, LastEndIn
  <2>2. Len(SubSeq(out, 1 + LastEnd, Len(out))) = Len(out) - LastEnd
    BY <2>1, Rest DEF Cut
  <2>3. Len(Since) = Len(out) - LastEnd /\ Len(Since) = 0
    BY <1>2, <2>2, SinceDef
  <2>4. Len(out) \in Nat
    BY LenProperties DEF Cut
  <2>5. LastEnd = Len(out)
    BY <2>1, <2>3, <2>4
  <2> QED BY <2>1, <2>5
<1> QED BY <1>1, <1>2

LEMMA OneMore ==
    ASSUME Cut, NEW w \in OutWord, out' = Append(out, w)
    PROVE  /\ Len(out) \in Nat /\ Len(out') = Len(out) + 1 /\ out' \in Seq(OutWord)
           /\ \A i \in 1 .. Len(out) : out'[i] = out[i]
           /\ out'[Len(out) + 1] = w
BY AppendProperties, LenProperties DEF Cut

\* An end of packet begins anew; another word goes behind the others.
LEMMA SinceEnd ==
    ASSUME Cut, out' = Append(out, EndOfPacket)
    PROVE  Cut' /\ Since' = <<>> /\ Ends' = Ends \cup {Len(out) + 1} /\ Len(out) + 1 \notin Ends
<1>1. /\ Len(out) \in Nat /\ Len(out') = Len(out) + 1 /\ out' \in Seq(OutWord)
      /\ \A i \in 1 .. Len(out) : out'[i] = out[i]
      /\ out'[Len(out) + 1] = EndOfPacket
  BY WordTypes, OneMore
<1>2. Ends' = Ends \cup {Len(out) + 1}
  BY <1>1 DEF Ends, EndOfPacket
<1>3. Len(out) + 1 \in Ends' /\ \A j \in Ends' : j <= Len(out) + 1
  BY <1>1, <1>2 DEF Ends
<1>4. LastEnd' = Len(out) + 1
  <2>1. LastEnd' \in Ends' /\ \A j \in Ends' : j <= LastEnd'
    BY <1>3 DEF LastEnd
  <2>2. LastEnd' \in 1 .. Len(out) + 1 /\ Len(out) + 1 <= LastEnd'
    BY <1>1, <1>3, <2>1 DEF Ends
  <2> QED BY <1>1, <2>2
<1>5. Cut'
  BY <1>1, <1>3 DEF Cut
<1>6. Since' = SubSeq(out', 1 + LastEnd', Len(out'))
  BY <1>3, SinceDef
<1>7. Since' = <<>>
  BY <1>1, <1>4, <1>6, SubSeqEmpty
<1>8. Len(out) + 1 \notin Ends
  BY <1>1 DEF Ends
<1> QED BY <1>2, <1>5, <1>7, <1>8

LEMMA SinceWord ==
    ASSUME Cut, NEW w \in OutWord, w # EndOfPacket, out' = Append(out, w)
    PROVE  Cut' /\ Since' = Append(Since, w) /\ Ends' = Ends
<1>1. /\ Len(out) \in Nat /\ Len(out') = Len(out) + 1 /\ out' \in Seq(OutWord)
      /\ \A i \in 1 .. Len(out) : out'[i] = out[i]
      /\ out'[Len(out) + 1] = w
  BY OneMore
<1>2. Ends' = Ends
  <2>1. EndOfPacket' = EndOfPacket
    BY DEF EndOfPacket
  <2> QED BY <1>1, <2>1 DEF Ends
<1>3. Cut' /\ LastEnd' = LastEnd
  BY <1>1, <1>2 DEF Cut, LastEnd
<1>4. CASE Ends = {}
  BY <1>2, <1>3, <1>4, SinceDef
<1>5. CASE Ends # {}
  <2>1. LastEnd \in 1 .. Len(out)
    BY <1>5, LastEndIn
  <2>2. SubSeq(Append(out, w), 1 + LastEnd, Len(Append(out, w)))
           = Append(SubSeq(out, 1 + LastEnd, Len(out)), w)
    BY <2>1, RestAppend DEF Cut
  <2> QED BY <1>2, <1>3, <1>5, <2>2, SinceDef
<1> QED BY <1>2, <1>3, <1>4, <1>5

-----------------------------------------------------------------------------
(***************************************************************************)
(* The primitives of a frame, counted word by word.                         *)
(***************************************************************************)
LEMMA PrimFinite ==
    ASSUME PortInv
    PROVE  \A k \in Nat : IsFiniteSet(PrimSet(k)) /\ Cardinality(PrimSet(k)) \in Nat
<1> SUFFICES ASSUME NEW k \in Nat PROVE IsFiniteSet(PrimSet(k)) /\ Cardinality(PrimSet(k)) \in Nat
    OBVIOUS
<1>1. HeaderWord + 1 \in Int
  BY DEF HeaderWord
<1>2. IsFiniteSet(HeaderWord + 1 .. k)
  BY <1>1, FS_Interval
<1>3. PrimSet(k) \subseteq HeaderWord + 1 .. k
  BY DEF PrimSet
<1>4. IsFiniteSet(PrimSet(k))
  BY <1>2, <1>3, FS_Subset
<1> QED BY <1>4, FS_CardinalityType

\* The word after the first h ones is counted if it is a primitive.
LEMMA PrimStep ==
    ASSUME PortInv, NEW h \in Nat, h >= HeaderWord
    PROVE  /\ frame.words[h + 1] = "primitive"
                => Cardinality(PrimSet(h + 1)) = Cardinality(PrimSet(h)) + 1
           /\ frame.words[h + 1] # "primitive" => PrimSet(h + 1) = PrimSet(h)
<1>1. HeaderWord \in Nat
  BY DEF HeaderWord
<1>2. h + 1 \in HeaderWord + 1 .. h + 1
  BY <1>1
<1>3. \A i \in Int : i \in HeaderWord + 1 .. h + 1 <=> i \in HeaderWord + 1 .. h \/ i = h + 1
  BY <1>1
<1>4. CASE frame.words[h + 1] = "primitive"
  <2>1. PrimSet(h + 1) = PrimSet(h) \cup {h + 1}
    BY <1>2, <1>3, <1>4 DEF PrimSet
  <2>2. h + 1 \notin PrimSet(h)
    BY <1>1 DEF PrimSet
  <2> QED BY <1>4, <2>1, <2>2, PrimFinite, FS_AddElement
<1>5. CASE frame.words[h + 1] # "primitive"
  BY <1>3, <1>5 DEF PrimSet
<1> QED BY <1>4, <1>5

LEMMA PrimNone ==
    /\ PrimSet(HeaderWord) = {} /\ Cardinality(PrimSet(HeaderWord)) = 0
    /\ Primitives(frame) = Cardinality(PrimSet(Len(frame.words)))
<1>1. HeaderWord + 1 .. HeaderWord = {}
  BY DEF HeaderWord
<1> QED BY <1>1, FS_EmptySet DEF PrimSet, Primitives

\* While a primitive is still to come there are fewer than in the frame.
LEMMA PrimBelow ==
    ASSUME PortInv, NEW h \in Nat, h >= HeaderWord, h < Len(frame.words),
           frame.words[h + 1] = "primitive"
    PROVE  Cardinality(PrimSet(h)) < Primitives(frame)
<1>1. Len(frame.words) \in Nat /\ HeaderWord \in Nat
  BY LenProperties DEF PortInv, HeaderWord
<1>2. PrimSet(h + 1) \subseteq PrimSet(Len(frame.words))
  BY <1>1 DEF PrimSet
<1>3. Cardinality(PrimSet(h + 1)) <= Cardinality(PrimSet(Len(frame.words)))
  BY <1>1, <1>2, PrimFinite, FS_Subset
<1>4. Cardinality(PrimSet(h + 1)) = Cardinality(PrimSet(h)) + 1
  BY PrimStep
<1>5. Cardinality(PrimSet(h)) \in Nat /\ Cardinality(PrimSet(Len(frame.words))) \in Nat
  BY <1>1, PrimFinite
<1> QED BY <1>3, <1>4, <1>5, PrimNone

-----------------------------------------------------------------------------
(***************************************************************************)
(* What is written, and what becomes of the packet.                         *)
(***************************************************************************)
LEMMA Widths ==
    ASSUME PortInv
    PROVE  /\ WordBytes \in {4, 8} /\ HeaderWord \in {1, 2}
           /\ Len(frame.words) \in Nat /\ pos \in Nat /\ Bytes(frame) \in Nat
           /\ pos <= Bytes(frame)
<1>1. WordBytes \in {4, 8}
  BY ModeAssumption DEF PortInv, Mode, WordBytes
<1>2. HeaderWord \in {1, 2}
  BY DEF HeaderWord
<1>3. Len(frame.words) \in Nat
  BY LenProperties DEF PortInv
<1>4. Bytes(frame) \in Nat
  BY <1>1, <1>3 DEF PortInv, Bytes
<1> QED BY <1>1, <1>2, <1>3, <1>4 DEF PortInv

\* Where the machine is in its frame.
LEMMA Place ==
    ASSUME PortInv, StateInv, InFrame
    PROVE  /\ Handled \in Nat /\ Handled <= Len(frame.words)
           /\ FSMReceive = "S3" /\ WordComplete
                 => pos \div WordBytes = Handled + 1 /\ Handled < Len(frame.words)
           /\ ~(FSMReceive = "S3" /\ WordComplete) => pos \div WordBytes = Handled
<1> DEFINE l == Len(frame.words)
           w == WordBytes
           x == frame.extra
<1>1. /\ w \in {4, 8} /\ l \in Nat /\ pos \in Nat /\ x \in 0 .. w - 1 /\ pos <= l * w + x
      /\ pos > 0
  BY Widths DEF PortInv, StateInv, Bytes
<1>2. WordComplete <=> pos % w = 0
  BY DEF WordComplete
<1>3. Handled = IF FSMReceive = "S3" /\ pos % w = 0 THEN pos \div w - 1 ELSE pos \div w
  BY DEF Handled, WordComplete
<1> HIDE DEF l, w, x
<1>4. pos \div w \in Nat /\ pos \div w <= l /\ (pos % w = 0 => pos \div w >= 1)
  BY <1>1, NextByte, WordInFrame
<1>5. Handled \in Nat /\ Handled <= l
      /\ (FSMReceive = "S3" /\ WordComplete => pos \div w = Handled + 1 /\ Handled < l)
      /\ (~(FSMReceive = "S3" /\ WordComplete) => pos \div w = Handled)
  BY <1>1, <1>2, <1>3, <1>4
<1> QED BY <1>5 DEF l, w

LEMMA SameOut ==
    ASSUME Cut, UNCHANGED <<mode, out>>
    PROVE  Cut' /\ Since' = Since /\ Ends' = Ends /\ (HeaderFirst => HeaderFirst') /\ Simulates
<1>1. Ends' = Ends /\ EndOfPacket' = EndOfPacket
  BY DEF Ends, EndOfPacket
<1>2. LastEnd' = LastEnd /\ Cut'
  BY <1>1 DEF Cut, LastEnd
<1> QED BY <1>1, <1>2, SinceDef DEF HeaderFirst, Simulates, Reliable

\* Only a full FIFO refuses a word.
LEMMA Written ==
    ASSUME Cut, NEW w \in OutWord, NEW full \in BOOLEAN, full => mode.fill,
           out' = IF full THEN out ELSE Append(out, w), mode' = mode
    PROVE  Cut' /\ (~mode.fill => out' = Append(out, w))
<1>1. CASE full
  BY <1>1, SameOut
<1>2. CASE ~full
  BY <1>2, SinceEnd, SinceWord
<1> QED BY <1>1, <1>2

LEMMA HeaderFirstStep ==
    ASSUME Cut, HeaderFirst, NEW w \in OutWord, out' = Append(out, w), mode' = mode,
           w.kind = "header" => Since = <<>>
    PROVE  HeaderFirst'
<1> SUFFICES ASSUME Reliable, NEW i \in 2 .. Len(out'), out'[i].kind = "header"
             PROVE  out'[i - 1] = EndOfPacket
    BY DEF HeaderFirst, Reliable, EndOfPacket
<1>1. /\ Len(out) \in Nat /\ Len(out') = Len(out) + 1
      /\ \A j \in 1 .. Len(out) : out'[j] = out[j]
      /\ out'[Len(out) + 1] = w
  BY OneMore
<1>2. CASE i \in 2 .. Len(out)
  <2>1. out'[i] = out[i] /\ out'[i - 1] = out[i - 1]
    BY <1>1, <1>2
  <2> QED BY <1>2, <2>1 DEF HeaderFirst, Reliable
<1>3. CASE i = Len(out) + 1
  <2>1. Since = <<>>
    BY <1>1, <1>3
  <2>2. out # <<>>
    BY <1>1, <1>3
  <2>3. out[Len(out)] = EndOfPacket /\ out'[Len(out)] = out[Len(out)]
    BY <1>1, <1>3, <2>1, <2>2, SinceEmpty
  <2> QED BY <1>1, <1>3, <2>3
<1> QED BY <1>1, <1>2, <1>3

\* The end of a frame.
LEMMA EndStep ==
    ASSUME IInv, Reliable, rready, FSMReceive # "S4", out' = Append(out, EndOfPacket),
           FSMReceive' = "S4", UNCHANGED <<mode, frames>>
    PROVE  PacketInv'
<1>1. /\ Cut /\ IsFiniteSet(Ends) /\ frames = Cardinality(Ends) + 1 /\ HeaderFirst
  BY DEF IInv, PacketInv
<1>2. Since' = <<>> /\ Ends' = Ends \cup {Len(out) + 1} /\ Len(out) + 1 \notin Ends
  BY <1>1, SinceEnd
<1>3. IsFiniteSet(Ends') /\ Cardinality(Ends') = Cardinality(Ends) + 1
  BY <1>1, <1>2, FS_AddElement
<1>4. HeaderFirst'
  <2>1. EndOfPacket.kind # "header"
    BY DEF EndOfPacket
  <2> QED BY <1>1, <2>1, WordTypes, HeaderFirstStep
<1>5. SinceInv'
  BY <1>2 DEF SinceInv, InFrame
<1>6. Cardinality(Ends') \in Nat
  BY <1>3, FS_CardinalityType
<1>7. frames' = Cardinality(Ends') + 0
  BY <1>1, <1>3, <1>6
<1> QED BY <1>3, <1>4, <1>5, <1>7 DEF PacketInv

\* A word of the packet: nothing changes but SinceInv.
LEMMA WordStep ==
    ASSUME IInv, Reliable, NEW w \in OutWord, w # EndOfPacket, out' = Append(out, w),
           w.kind = "header" => Since = <<>>,
           FSMReceive # "S4", FSMReceive' # "S4", UNCHANGED <<mode, rready, frames>>,
           SinceInv'
    PROVE  PacketInv'
<1>1. /\ Cut /\ HeaderFirst /\ IsFiniteSet(Ends)
      /\ frames = Cardinality(Ends) + (IF rready THEN 1 ELSE 0)
  BY DEF IInv, PacketInv
<1>2. Ends' = Ends
  BY <1>1, SinceWord
<1>3. HeaderFirst'
  BY <1>1, HeaderFirstStep
<1> QED BY <1>1, <1>2, <1>3 DEF PacketInv

-----------------------------------------------------------------------------
(***************************************************************************)
(* One step for each action.                                                *)
(***************************************************************************)
LEMMA SamePort ==
    ASSUME PortInv, UNCHANGED <<mode, rready, frame, frames>>, pos' \in 0 .. Bytes(frame)
    PROVE  PortInv'
<1>1. Bytes(frame)' = Bytes(frame) /\ WordBytes' = WordBytes
  BY DEF Bytes, WordBytes
<1>2. Proper(frame)' <=> Proper(frame)
  BY DEF Proper, Primitives, HeaderWord
<1> QED BY <1>1, <1>2 DEF PortInv

LEMMA SamePrims ==
    ASSUME UNCHANGED <<mode, frame>>
    PROVE  HeaderWord' = HeaderWord /\ \A k \in Nat : PrimSet(k)' = PrimSet(k)
BY DEF HeaderWord, PrimSet

\* The next byte of a frame: the words before it are those that were handled.
LEMMA ByteStep ==
    ASSUME PortInv, StateInv, rready, ~reoframe, pos' = pos + 1, FSMReceive' = "S3",
           UNCHANGED <<mode, rready, frame, frames>>,
           FSMReceive = "S2" \/ (FSMReceive = "S3" /\ ~WordComplete) \/ FSMReceive = "S3_loop"
    PROVE  /\ PortInv' /\ InFrame' /\ pos' > 0
           /\ FSMReceive = "S2" => Handled' = 0
           /\ FSMReceive # "S2" => Handled' = Handled
<1> DEFINE w == WordBytes
<1>1. /\ w \in {4, 8} /\ pos \in Nat /\ pos <= Bytes(frame) /\ Bytes(frame) \in Int
      /\ pos # Bytes(frame)
  BY Widths DEF PortInv, reoframe
<1>2. pos' \in 0 .. Bytes(frame) /\ pos' > 0
  BY <1>1
<1>3. WordBytes' = WordBytes
  BY DEF WordBytes
<1>4. Handled' = IF (pos + 1) % w = 0 THEN (pos + 1) \div w - 1 ELSE (pos + 1) \div w
  BY <1>3 DEF Handled, WordComplete
<1>5. FSMReceive # "S2" => Handled = pos \div w
  BY DEF Handled
<1>6. /\ FSMReceive = "S3_loop" => pos % w = 0
      /\ FSMReceive = "S2" => pos = 0
      /\ FSMReceive = "S3" => pos % w # 0
  BY DEF StateInv, WordComplete
<1> HIDE DEF w
<1>7. /\ pos \div w \in Nat /\ (pos + 1) \div w \in Nat
      /\ pos % w = 0 => (pos + 1) % w # 0 /\ (pos + 1) \div w = pos \div w
      /\ pos % w # 0 => (pos + 1) \div w = IF (pos + 1) % w = 0 THEN pos \div w + 1 ELSE pos \div w
      /\ pos < w => pos \div w = 0
  BY <1>1, NextByte
<1>8. CASE FSMReceive = "S2"
  <2>1. pos < w /\ pos % w = 0
    BY <1>1, <1>6, <1>8
  <2> QED BY <1>2, <1>4, <1>7, <1>8, <2>1, SamePort DEF InFrame
<1>9. CASE FSMReceive # "S2"
  <2>1. Handled' = pos \div w
    BY <1>4, <1>6, <1>7, <1>9
  <2> QED BY <1>2, <1>5, <1>9, <2>1, SamePort DEF InFrame
<1> QED BY <1>8, <1>9

LEMMA NewFrameStep ==
    ASSUME IInv, NewFrame PROVE IInv' /\ Simulates
<1>1. /\ Cut /\ PortInv /\ StateInv /\ PacketInv
      /\ ~rready /\ rready' /\ FSMReceive \in {"S1", "S2"} /\ pos' = 0 /\ frames' = frames + 1
      /\ UNCHANGED <<mode, FSMReceive, headermode, headerreceived, ETHLINKERROR, out>>
  BY DEF IInv, NewFrame
<1>2. frame' \in Frames /\ (mode.proper => Proper(frame'))
  BY DEF NewFrame
<1>3. PortInv'
  <2>1. WordBytes' = WordBytes /\ HeaderWord' = HeaderWord /\ WordBytes \in {4, 8}
    BY <1>1, Widths DEF WordBytes, HeaderWord
  <2>2. /\ frame'.words \in UNION {[1 .. k -> Kinds] : k \in 0 .. MaxWords}
        /\ frame'.extra \in 0 .. WordBytes - 1 /\ frame'.n \in 0 .. MaxPrim
    BY <1>2 DEF Frames
  <2>3. PICK k \in 0 .. MaxWords : frame'.words \in [1 .. k -> Kinds]
    BY <2>2
  <2>4. k \in Nat
    BY ReceiverAssumption
  <2>5. frame'.words \in Seq(Kinds)
    BY <2>3, <2>4, SeqDef
  <2>6. Len(frame'.words) \in Nat
    BY <2>5, LenProperties
  <2>7. pos' \in 0 .. Bytes(frame)'
    BY <1>1, <2>1, <2>2, <2>6 DEF Bytes
  <2>8. mode.proper => Proper(frame)'
    BY <1>2, <2>1 DEF Proper, Primitives
  <2> QED BY <1>1, <2>1, <2>2, <2>5, <2>7, <2>8 DEF PortInv
<1>4. StateInv'
  BY <1>1 DEF StateInv, InFrame
<1>5. Cut' /\ Simulates /\ Since' = Since /\ Ends' = Ends /\ (HeaderFirst => HeaderFirst')
  BY <1>1, SameOut
<1>6. PacketInv'
  <2> SUFFICES ASSUME Reliable PROVE PacketInv'
    BY <1>1 DEF PacketInv, Reliable
  <2>1. IsFiniteSet(Ends) /\ frames = Cardinality(Ends) + 0 /\ HeaderFirst /\ SinceInv
    BY <1>1 DEF PacketInv
  <2>2. Cardinality(Ends) \in Nat
    BY <2>1, FS_CardinalityType
  <2>3. frames' = Cardinality(Ends) + 1
    BY <1>1, <2>1, <2>2
  <2>4. SinceInv'
    BY <1>1, <1>5, <2>1 DEF SinceInv, InFrame
  <2> QED BY <1>1, <1>5, <2>1, <2>3, <2>4 DEF PacketInv
<1> QED BY <1>3, <1>4, <1>5, <1>6 DEF IInv

LEMMA PortDropsStep ==
    ASSUME IInv, PortDrops PROVE IInv' /\ Simulates
<1>1. /\ Cut /\ PortInv /\ StateInv /\ mode.fails /\ InFrame /\ rready' = FALSE
      /\ UNCHANGED <<mode, frame, pos, frames, FSMReceive, headermode, headerreceived, out>>
  BY DEF IInv, PortDrops, InFrame
<1>2. Cut' /\ Simulates
  BY <1>1, SameOut
<1>3. PortInv'
  <2>1. Bytes(frame)' = Bytes(frame) /\ WordBytes' = WordBytes
    BY <1>1 DEF Bytes, WordBytes
  <2> QED BY <1>1, <2>1 DEF PortInv
<1>4. StateInv'
  <2>1. Handled' = Handled /\ HeaderWord' = HeaderWord /\ (WordComplete' <=> WordComplete)
    BY <1>1 DEF Handled, HeaderWord, WordComplete, WordBytes
  <2> QED BY <1>1, <2>1 DEF StateInv, InFrame
<1> QED BY <1>1, <1>2, <1>3, <1>4 DEF IInv, PacketInv, Reliable

\* The machine goes on without a word, outside a frame.
LEMMA IdleStep ==
    ASSUME IInv, S1 \/ S4 \/ S3NotReady PROVE IInv' /\ Simulates
<1>1. /\ Cut /\ PortInv /\ StateInv /\ PacketInv
      /\ UNCHANGED <<mode, frame, pos, frames, headermode, headerreceived, out>>
      /\ FSMReceive' \in {"S1", "S2"} /\ rready' \in BOOLEAN
      /\ FSMReceive' = "S1" => ~rready'
      /\ rready' => rready /\ FSMReceive = "S1"
  <2>1. Cut /\ PortInv /\ StateInv /\ PacketInv /\ rready \in BOOLEAN
    BY DEF IInv, PortInv
  <2>2. CASE S1
    <3>1. rready' = rready /\ FSMReceive = "S1" /\ FSMReceive' = "S2"
      BY <2>2 DEF S1, portVars
    <3> QED BY <2>1, <2>2, <3>1 DEF S1, portVars
  <2>3. CASE S4
    BY <2>1, <2>3 DEF S4
  <2>4. CASE S3NotReady
    <3>1. rready' = rready /\ ~rready /\ FSMReceive' = "S2"
      BY <2>4 DEF S3NotReady, portVars
    <3> QED BY <2>1, <2>4, <3>1 DEF S3NotReady, portVars
  <2> QED BY <2>2, <2>3, <2>4
<1>2. Cut' /\ Simulates /\ Since' = Since /\ Ends' = Ends /\ (HeaderFirst => HeaderFirst')
  BY <1>1, SameOut
<1>3. PortInv'
  <2>1. Bytes(frame)' = Bytes(frame) /\ WordBytes' = WordBytes
    BY <1>1 DEF Bytes, WordBytes
  <2>2. Proper(frame)' <=> Proper(frame)
    BY <1>1 DEF Proper, Primitives, HeaderWord
  <2> QED BY <1>1, <2>1, <2>2 DEF PortInv
<1>4. StateInv'
  BY <1>1 DEF StateInv, InFrame
<1>5. PacketInv'
  <2> SUFFICES ASSUME Reliable PROVE PacketInv'
    BY <1>1 DEF PacketInv, Reliable
  <2>1. ~S3NotReady
    BY <1>1 DEF S3NotReady, StateInv, InFrame, Reliable
  <2>2. ~InFrame /\ ~InFrame' /\ (rready /\ FSMReceive # "S4" <=> rready' /\ FSMReceive' # "S4")
    BY <1>1, <2>1 DEF S1, S4, portVars, InFrame
  <2> QED BY <1>1, <1>2, <2>2 DEF PacketInv, SinceInv
<1> QED BY <1>2, <1>3, <1>4, <1>5 DEF IInv

\* The next byte leaves the packet as it is.
LEMMA NextByteStep ==
    ASSUME IInv, rready, ~reoframe, pos' = pos + 1, FSMReceive' = "S3",
           UNCHANGED <<mode, rready, frame, frames, out>>,
           FSMReceive = "S2" \/ (FSMReceive = "S3" /\ ~WordComplete) \/ FSMReceive = "S3_loop",
           FSMReceive = "S2" => headermode' /\ ~headerreceived',
           FSMReceive # "S2" => UNCHANGED <<headermode, headerreceived>>,
           headermode' \in BOOLEAN, headerreceived' \in BOOLEAN
    PROVE  IInv' /\ Simulates
<1>1. Cut /\ PortInv /\ StateInv /\ PacketInv
  BY DEF IInv
<1>2. /\ PortInv' /\ InFrame' /\ pos' > 0
      /\ FSMReceive = "S2" => Handled' = 0
      /\ FSMReceive # "S2" => Handled' = Handled
  BY <1>1, ByteStep
<1>3. Cut' /\ Simulates /\ Since' = Since /\ Ends' = Ends /\ (HeaderFirst => HeaderFirst')
  BY <1>1, SameOut
<1>4. HeaderWord' = HeaderWord /\ HeaderWord \in {1, 2}
  BY SamePrims, Widths, <1>1
<1>5. StateInv'
  <2>1. CASE FSMReceive = "S2"
    BY <1>1, <1>2, <1>4, <2>1 DEF StateInv
  <2>2. CASE FSMReceive # "S2"
    <3>1. InFrame
      BY <2>2 DEF InFrame
    <3>2. /\ headermode' <=> headermode
          /\ headerreceived' <=> headerreceived
      BY <2>2
    <3>3. ASSUME ~mode.stops
          PROVE  /\ headermode' <=> Handled' = 0
                 /\ headerreceived' <=> Handled' = 1 /\ HeaderWord' = 2
      <4>1. /\ headermode <=> Handled = 0
            /\ headerreceived <=> Handled = 1 /\ HeaderWord = 2
        BY <1>1, <3>1, <3>3 DEF StateInv
      <4> QED BY <1>2, <1>4, <2>2, <3>2, <4>1
    <3> QED BY <1>1, <1>2, <3>3 DEF StateInv
  <2> QED BY <2>1, <2>2
<1>6. PacketInv'
  <2> SUFFICES ASSUME Reliable PROVE PacketInv'
    BY DEF PacketInv, Reliable
  <2>1. SinceInv'
    <3>1. CASE FSMReceive = "S2"
      <4>1. Since = <<>>
        BY <1>1, <3>1 DEF PacketInv, SinceInv, InFrame
      <4> QED BY <1>2, <1>3, <1>4, <3>1, <4>1 DEF SinceInv
    <3>2. CASE FSMReceive # "S2"
      <4>1. InFrame /\ Handled \in Nat
        BY <1>1, <3>2, Place DEF InFrame
      <4>2. PrimSet(Handled)' = PrimSet(Handled) /\ Header(frame.n)' = Header(frame.n)
        BY <1>2, <3>2, <4>1 DEF PrimSet, HeaderWord, Header
      <4> QED BY <1>1, <1>2, <1>3, <1>4, <3>2, <4>1, <4>2 DEF SinceInv, PacketInv
    <3> QED BY <3>1, <3>2
  <2>2. FSMReceive # "S4"
    OBVIOUS
  <2> QED BY <1>1, <1>3, <2>1, <2>2 DEF PacketInv
<1> QED BY <1>2, <1>3, <1>5, <1>6 DEF IInv

\* Nothing is promised of a packet while primitives may be deactivated.
LEMMA Unpromised ==
    ASSUME mode.stops, mode' = mode, Cut', PortInv', StateInv' PROVE IInv' /\ Simulates
BY DEF IInv, PacketInv, Simulates, Promised, Reliable

\* A frame that ends, at whatever byte.
LEMMA LastByteStep ==
    ASSUME IInv, rready, reoframe, FSMReceive' = "S4",
           UNCHANGED <<mode, rready, frame, pos, frames, headermode, headerreceived>>,
           NEW full \in BOOLEAN, full => mode.fill,
           out' = IF full THEN out ELSE Append(out, EndOfPacket),
           FSMReceive = "S2" \/ (FSMReceive = "S3" /\ ~WordComplete) \/ FSMReceive = "S3_loop"
    PROVE  IInv' /\ Simulates
<1>1. Cut /\ PortInv /\ StateInv /\ PacketInv
  BY DEF IInv
<1>2. Cut' /\ (~mode.fill => out' = Append(out, EndOfPacket))
  BY <1>1, Written, WordTypes
<1>3. PortInv'
  BY <1>1, SamePort DEF PortInv
<1>4. StateInv'
  BY <1>1 DEF StateInv, InFrame
<1>5. PacketInv'
  <2>1. ASSUME Reliable PROVE PacketInv'
    BY <1>2, <2>1, EndStep DEF Reliable
  <2> QED BY <2>1 DEF PacketInv, Reliable
<1>6. Simulates
  <2> SUFFICES ASSUME Promised PROVE Remaining = 0
    BY <1>2 DEF Simulates, Promised
  <2> DEFINE l == Len(frame.words)
             w == WordBytes
  <2>1. /\ frame.extra = 0 /\ l >= HeaderWord /\ Primitives(frame) = frame.n
        /\ HeaderWord \in {1, 2} /\ w \in {4, 8} /\ l \in Nat /\ pos \in Nat
    BY <1>1, Widths DEF Promised, PortInv, Proper
  <2>2. pos = l * w + 0
    BY <2>1 DEF reoframe, Bytes
  <2>3. frame.n \in Nat
    BY <1>1, ReceiverAssumption DEF PortInv
  <2> HIDE DEF l, w
  <2>4. pos = l * w /\ 0 \in 0 .. w - 1
    BY <2>1, <2>2
  <2>5. pos % w = 0 /\ pos \div w = l /\ pos > 0
    BY <2>1, <2>4, WordInFrame
  <2>6. FSMReceive = "S3_loop"
    BY <1>1, <2>5 DEF StateInv, WordComplete, w
  <2>7. InFrame /\ Handled = l
    BY <2>5, <2>6 DEF InFrame, Handled, w
  <2>8. Len(Since) = Cardinality(PrimSet(l)) + 1 /\ Since[1] = Header(frame.n)
    BY <1>1, <2>1, <2>7 DEF Promised, Reliable, PacketInv, SinceInv
  <2>9. Cardinality(PrimSet(l)) = frame.n /\ Header(frame.n).n = frame.n
    BY <2>1, PrimNone DEF l, Header
  <2>10. Since # <<>>
    BY <2>3, <2>8, <2>9
  <2> QED BY <2>3, <2>8, <2>9, <2>10 DEF Remaining
<1> QED BY <1>2, <1>3, <1>4, <1>5, <1>6 DEF IInv

LEMMA BytesStep ==
    ASSUME IInv, ActiveInv, S2 \/ S3Byte \/ S3Loop PROVE IInv' /\ Simulates
<1>0. headermode \in BOOLEAN /\ headerreceived \in BOOLEAN
  BY DEF IInv, StateInv
<1>1. CASE S2
  <2>1. CASE ~reoframe
    BY <1>0, <1>1, <2>1, NextByteStep DEF S2, BeginFrame
  <2>2. CASE reoframe
    <3>1. PICK full \in BOOLEAN : /\ full => mode.fill
                                  /\ out' = IF full THEN out ELSE Append(out, EndOfPacket)
      BY <1>1, <2>2 DEF S2, Put, PutEnd
    <3> QED BY <1>1, <2>2, <3>1, LastByteStep DEF S2
  <2> QED BY <2>1, <2>2
<1>2. CASE S3Byte
  <2>1. CASE ~reoframe
    BY <1>0, <1>2, <2>1, NextByteStep DEF S3Byte
  <2>2. CASE reoframe
    <3>1. PICK full \in BOOLEAN : (full => mode.fill) /\ Put(EndOfPacket, full)
      BY <1>2, <2>2 DEF S3Byte
    <3> QED BY <1>2, <2>2, <3>1, LastByteStep DEF S3Byte, Put
  <2> QED BY <2>1, <2>2
<1>3. CASE S3Loop
  <2>1. CASE rready /\ ~reoframe
    BY <1>0, <1>3, <2>1, NextByteStep DEF S3Loop
  <2>2. CASE rready /\ reoframe
    <3>1. CASE EndsFrame
      <4>1. PICK full \in BOOLEAN : /\ full => mode.fill
                                    /\ out' = IF full THEN out ELSE Append(out, EndOfPacket)
        BY <1>3, <2>2, <3>1 DEF S3Loop, PutEnd
      <4> QED BY <1>3, <2>2, <4>1, LastByteStep DEF S3Loop
    <3>2. CASE ~EndsFrame
      <4>1. /\ Cut /\ PortInv /\ StateInv /\ FSMReceive' = "S4" /\ mode.stops
            /\ UNCHANGED <<mode, rready, frame, pos, frames, headermode, headerreceived, out>>
        BY <1>3, <2>2, <3>2 DEF S3Loop, IInv, ActiveInv, EndsFrame
      <4>2. Cut'
        BY <4>1, SameOut
      <4>3. PortInv'
        BY <4>1, SamePort DEF PortInv
      <4>4. StateInv'
        BY <4>1 DEF StateInv, InFrame
      <4> QED BY <4>1, <4>2, <4>3, <4>4, Unpromised
    <3> QED BY <3>1, <3>2
  <2>3. CASE ~rready
    <3>1. /\ Cut /\ PortInv /\ StateInv /\ InFrame /\ FSMReceive' = "S2"
          /\ UNCHANGED <<mode, rready, frame, pos, frames, headermode, headerreceived, out>>
      BY <1>3, <2>3 DEF S3Loop, IInv, InFrame
    <3>2. Cut' /\ Simulates
      BY <3>1, SameOut
    <3>3. PortInv'
      BY <3>1, SamePort DEF PortInv
    <3>4. StateInv' /\ mode.fails
      BY <2>3, <3>1 DEF StateInv, InFrame
    <3> QED BY <3>1, <3>2, <3>3, <3>4 DEF IInv, PacketInv, Reliable
  <2> QED BY <2>1, <2>2, <2>3
<1> QED BY <1>1, <1>2, <1>3

\* The byte that completes a word, when primitives may be deactivated.
LEMMA StoppedWordStep ==
    ASSUME IInv, mode.stops, S3Word PROVE IInv' /\ Simulates
<1>1. /\ Cut /\ PortInv /\ StateInv /\ InFrame /\ FSMReceive' \in {"S3", "S3_loop"} /\ WordComplete
      /\ UNCHANGED <<mode, rready, frame, pos, frames>>
  BY DEF IInv, S3Word, InFrame, portVars
<1>2. PortInv'
  BY <1>1, SamePort DEF PortInv
<1>3. headermode' \in BOOLEAN /\ headerreceived' \in BOOLEAN
  BY <1>1 DEF S3Word, HeaderDone, StateInv
<1>4. WordComplete' <=> WordComplete
  BY <1>1 DEF WordComplete, WordBytes
<1>5. StateInv'
  BY <1>1, <1>3, <1>4 DEF StateInv, InFrame
<1>6. Cut'
  <2>1. CASE out' = out
    BY <1>1, <2>1, SameOut
  <2>2. CASE out' # out
    <3>1. PICK w \in {Header(frame.n), Primitive}, full \in BOOLEAN : (full => mode.fill) /\ Put(w, full)
      BY <2>2 DEF S3Word
    <3>2. w \in OutWord
      BY <1>1, WordTypes DEF PortInv
    <3> QED BY <1>1, <3>1, <3>2, Written DEF Put
  <2> QED BY <2>1, <2>2
<1> QED BY <1>1, <1>2, <1>5, <1>6, Unpromised

\* The byte that completes a word, by what the word is.
LEMMA S3WordStep ==
    ASSUME IInv, ActiveInv, ~mode.stops, S3Word PROVE IInv' /\ Simulates
<1> DEFINE h == Handled
<1>0. activate_primitives
  BY DEF ActiveInv
<1>1. /\ Cut /\ PortInv /\ StateInv /\ PacketInv
      /\ InFrame /\ FSMReceive = "S3" /\ FSMReceive' = "S3_loop" /\ WordComplete
      /\ UNCHANGED <<mode, rready, frame, pos, frames>>
  BY <1>0 DEF IInv, S3Word, InFrame, portVars
<1>2. /\ h \in Nat /\ h < Len(frame.words) /\ pos \div WordBytes = h + 1
      /\ HeaderWord \in {1, 2} /\ HeaderWord' = HeaderWord /\ Len(frame.words) \in Nat
  BY <1>1, Place, Widths, SamePrims
<1>3. /\ PortInv' /\ InFrame' /\ WordComplete' /\ Handled' = h + 1
  <2>1. PortInv'
    BY <1>1, SamePort DEF PortInv
  <2>2. WordBytes' = WordBytes
    BY <1>1 DEF WordBytes
  <2> QED BY <1>1, <1>2, <2>1, <2>2 DEF InFrame, WordComplete, Handled
<1>4. /\ headermode <=> h = 0
      /\ headerreceived <=> h = 1 /\ HeaderWord = 2
      /\ headermode \in BOOLEAN /\ headerreceived \in BOOLEAN
      /\ pos > 0 /\ (rready \/ mode.fails)
  BY <1>1 DEF StateInv
<1>5. Reliable => SinceInv
  BY <1>1 DEF PacketInv
<1>6. PrimSet(Handled)' = PrimSet(h + 1) /\ Header(frame.n)' = Header(frame.n) /\ frame.n \in 0 .. MaxPrim
  <2>1. PrimSet(Handled)' = PrimSet(h + 1)
    BY <1>1, <1>2, <1>3 DEF PrimSet
  <2>2. Header(frame.n)' = Header(frame.n)
    BY <1>1 DEF Header
  <2> QED BY <1>1, <2>1, <2>2 DEF PortInv
<1> HIDE DEF h
<1>7. SUFFICES /\ Cut' /\ PacketInv' /\ Simulates
               /\ ~headermode' /\ headermode' \in BOOLEAN /\ headerreceived' \in BOOLEAN
               /\ headerreceived' <=> h = 0 /\ HeaderWord = 2
  <2>1. ASSUME ~headermode', headermode' \in BOOLEAN, headerreceived' \in BOOLEAN,
               headerreceived' <=> h = 0 /\ HeaderWord = 2
        PROVE  StateInv'
    <3>1. /\ headermode' <=> Handled' = 0
          /\ headerreceived' <=> Handled' = 1 /\ HeaderWord' = 2
      BY <1>2, <1>3, <2>1
    <3> QED BY <1>1, <1>3, <1>4, <2>1, <3>1 DEF StateInv, InFrame
  <2> QED BY <1>3, <2>1 DEF IInv
\* The first of two words of the header.
<1>8. CASE headermode /\ HeaderWord = 2 /\ headermode' = FALSE /\ headerreceived' = TRUE /\ UNCHANGED out
  <2>1. h = 0 /\ Handled' = 1
    BY <1>3, <1>4, <1>8
  <2>2. Cut' /\ Simulates /\ Since' = Since /\ Ends' = Ends /\ (HeaderFirst => HeaderFirst')
    BY <1>1, <1>8, SameOut
  <2>3. ASSUME Reliable PROVE PacketInv'
    <3>1. Since = <<>>
      BY <1>5, <1>8, <2>1, <2>3 DEF SinceInv, h
    <3>2. SinceInv'
      BY <1>2, <1>8, <2>1, <2>2, <3>1 DEF SinceInv
    <3> QED BY <1>1, <2>2, <2>3, <3>2 DEF PacketInv
  <2>4. PacketInv'
    BY <1>1, <2>3 DEF PacketInv, Reliable
  <2> QED BY <1>8, <2>1, <2>2, <2>4
\* The word that completes the header.
<1>9. CASE /\ IF HeaderWord = 2 THEN ~headermode /\ headerreceived ELSE headermode
           /\ \E full \in BOOLEAN : (full => mode.fill) /\ Put(Header(frame.n), full)
           /\ HeaderDone
  <2>1. h + 1 = HeaderWord
    BY <1>2, <1>4, <1>9
  <2>2. PICK full \in BOOLEAN : (full => mode.fill) /\ Put(Header(frame.n), full)
    BY <1>9
  <2>3. Header(frame.n) \in OutWord /\ Header(frame.n) # EndOfPacket
    BY <1>6, WordTypes
  <2>4. Cut' /\ (~mode.fill => out' = Append(out, Header(frame.n)))
    BY <1>1, <2>2, <2>3, Written DEF Put
  <2>5. ASSUME Reliable PROVE PacketInv' /\ Since = <<>>
    <3>1. Since = <<>>
      <4>1. ~(h >= HeaderWord)
        BY <1>2, <2>1
      <4> QED BY <1>5, <2>5, <4>1 DEF SinceInv, h
    <3>2. out' = Append(out, Header(frame.n))
      BY <2>4, <2>5 DEF Reliable
    <3>3. Since' = Append(<<>>, Header(frame.n))
      BY <1>1, <2>3, <3>1, <3>2, SinceWord
    <3>4. Len(Since') = 1 /\ Since'[1] = Header(frame.n)
      BY <3>3
    <3>5. PrimSet(h + 1) = {} /\ Cardinality(PrimSet(h + 1)) = 0
      BY <2>1, PrimNone
    <3>6. SinceInv'
      BY <1>2, <1>3, <1>6, <2>1, <3>4, <3>5 DEF SinceInv
    <3> QED BY <1>1, <2>3, <2>5, <3>1, <3>2, <3>6, WordStep
  <2>6. PacketInv'
    BY <1>1, <2>5 DEF PacketInv, Reliable
  <2>7. Simulates
    BY <1>6, <2>4, <2>5 DEF Simulates, Promised, Reliable
  <2>8. headermode' = FALSE /\ headerreceived' = FALSE /\ ~(h = 0 /\ HeaderWord = 2)
    BY <1>2, <1>9, <2>1 DEF HeaderDone
  <2> QED BY <2>4, <2>6, <2>7, <2>8
\* A word behind the header.
<1>10. CASE /\ ~headermode /\ ~headerreceived
            /\ IF ThisWord = "primitive"
               THEN \E full \in BOOLEAN : (full => mode.fill) /\ Put(Primitive, full)
               ELSE UNCHANGED <<ETHLINKERROR, out>>
            /\ UNCHANGED <<headermode, headerreceived>>
  <2>1. h >= HeaderWord /\ h + 1 >= HeaderWord
    BY <1>2, <1>4, <1>10
  <2>2. ThisWord = frame.words[h + 1]
    BY <1>2 DEF ThisWord
  <2>3. Cardinality(PrimSet(h)) \in Nat /\ Cardinality(PrimSet(h + 1)) \in Nat
    BY <1>1, <1>2, PrimFinite
  <2>4. Reliable => /\ Len(Since) = Cardinality(PrimSet(h)) + 1
                    /\ Since[1] = Header(frame.n)
    BY <1>1, <1>5, <2>1 DEF SinceInv, h
  <2>5. headermode' = FALSE /\ headerreceived' = FALSE /\ h # 0
    BY <1>2, <1>4, <1>10, <2>1
  <2>6. CASE ThisWord = "primitive"
    <3>1. PICK full \in BOOLEAN : (full => mode.fill) /\ Put(Primitive, full)
      BY <1>10, <2>6
    <3>2. Cut' /\ (~mode.fill => out' = Append(out, Primitive))
      BY <1>1, <3>1, WordTypes, Written DEF Put
    <3>3. ASSUME Reliable PROVE PacketInv'
      <4>1. out' = Append(out, Primitive)
        BY <3>2, <3>3 DEF Reliable
      <4>2. Since' = Append(Since, Primitive) /\ Since \in Seq(OutWord)
        BY <1>1, <4>1, WordTypes, SinceWord, SinceType
      <4>3. /\ Len(Since') = Len(Since) + 1
            /\ \A i \in 1 .. Len(Since) : Since'[i] = Since[i]
        BY <4>2, WordTypes, AppendProperties
      <4>4. 1 \in 1 .. Len(Since)
        BY <2>3, <2>4, <3>3
      <4>5. Since'[1] = Header(frame.n)
        BY <2>4, <3>3, <4>3, <4>4
      <4>6. Len(Since') = Cardinality(PrimSet(h + 1)) + 1
        BY <1>1, <1>2, <2>1, <2>2, <2>3, <2>4, <2>6, <3>3, <4>3, PrimStep
      <4>7. SinceInv'
        BY <1>2, <1>3, <1>6, <2>1, <4>5, <4>6 DEF SinceInv
      <4>8. Primitive.kind # "header"
        BY DEF Primitive
      <4> QED BY <1>1, <3>3, <4>1, <4>7, <4>8, WordTypes, WordStep
    <3>4. PacketInv'
      BY <1>1, <3>3 DEF PacketInv, Reliable
    <3>5. ASSUME Promised PROVE Remaining > 0
      <4>1. rready /\ Reliable
        BY <1>4, <3>5 DEF Promised, Reliable
      <4>2. Primitives(frame) = frame.n
        BY <1>1, <3>5, <4>1 DEF PortInv, Promised, Proper
      <4>3. Cardinality(PrimSet(h)) < frame.n
        BY <1>1, <1>2, <2>1, <2>2, <2>6, <4>2, PrimBelow
      <4>4. Since # <<>> /\ Since[1].n = frame.n /\ frame.n \in Nat
        BY <1>6, <2>3, <2>4, <4>1, ReceiverAssumption DEF Header
      <4> QED BY <2>3, <2>4, <4>1, <4>3, <4>4 DEF Remaining
    <3>6. Simulates
      BY <3>2, <3>5 DEF Simulates, Promised, Reliable
    <3> QED BY <2>5, <3>2, <3>4, <3>6
  <2>7. CASE ThisWord # "primitive"
    <3>1. Cut' /\ Simulates /\ Since' = Since /\ Ends' = Ends /\ (HeaderFirst => HeaderFirst')
      BY <1>1, <1>10, <2>7, SameOut
    <3>2. PrimSet(h + 1) = PrimSet(h)
      BY <1>1, <1>2, <2>1, <2>2, <2>7, PrimStep
    <3>3. ASSUME Reliable PROVE PacketInv'
      <4>1. SinceInv'
        BY <1>2, <1>3, <1>6, <2>1, <2>4, <3>1, <3>2, <3>3 DEF SinceInv
      <4> QED BY <1>1, <3>1, <3>3, <4>1 DEF PacketInv
    <3>4. PacketInv'
      BY <1>1, <3>3 DEF PacketInv, Reliable
    <3> QED BY <2>5, <3>1, <3>4
  <2> QED BY <2>6, <2>7
<1> QED BY <1>0, <1>8, <1>9, <1>10 DEF S3Word

LEMMA InitIInv == Init => IInv
<1> SUFFICES ASSUME Init PROVE IInv
    OBVIOUS
<1>1. Cut /\ Ends = {} /\ Since = <<>>
  <2>1. Ends = {} /\ out = <<>>
    BY DEF Init, Ends
  <2> QED BY <2>1, SinceDef DEF Cut
<1>2. PortInv
  <2>1. WordBytes \in {4, 8}
    BY ModeAssumption DEF Init, Mode, WordBytes
  <2>2. NoFrame.words \in Seq(Kinds) /\ NoFrame.extra = 0 /\ NoFrame.n = 0 /\ Len(NoFrame.words) = 0
    BY DEF NoFrame
  <2>3. Bytes(NoFrame) = 0
    BY <2>1, <2>2 DEF Bytes
  <2>4. frame = NoFrame /\ mode \in Modes /\ rready = FALSE /\ pos = 0 /\ frames = 0
    BY DEF Init
  <2>5. 0 \in 0 .. MaxPrim /\ 0 \in 0 .. WordBytes - 1 /\ 0 \in 0 .. 0
    BY <2>1, ReceiverAssumption
  <2> QED BY <2>2, <2>3, <2>4, <2>5 DEF PortInv
<1>3. StateInv
  BY DEF Init, StateInv, InFrame
<1>4. PacketInv
  BY <1>1, FS_EmptySet DEF Init, PacketInv, SinceInv, InFrame, HeaderFirst
<1> QED BY <1>1, <1>2, <1>3, <1>4 DEF IInv

LEMMA SameMode == [Next]_vars => mode' = mode
BY DEF Next, NewFrame, PortDrops, Activate, Receive, S1, S2, S3Byte, S3NotReady, S3Word, S3Loop, S4,
       vars, portVars

LEMMA InitActive == Init => ActiveInv
BY DEF Init, ActiveInv

LEMMA ActiveNext == ActiveInv /\ [Next]_vars => ActiveInv'
<1> SUFFICES ASSUME ActiveInv, [Next]_vars PROVE ActiveInv'
    OBVIOUS
<1>1. mode' = mode
  BY SameMode
<1>2. activate_primitives' = activate_primitives \/ (mode.stops /\ activate_primitives' = ~activate_primitives)
  BY DEF Next, NewFrame, PortDrops, Activate, Receive, vars
<1> QED BY <1>1, <1>2 DEF ActiveInv

LEMMA NextIInv == IInv /\ ActiveInv /\ [Next]_vars => IInv' /\ Simulates
<1> SUFFICES ASSUME IInv, ActiveInv, [Next]_vars PROVE IInv' /\ Simulates
    OBVIOUS
<1>1. CASE UNCHANGED vars \/ Activate
  <2>1. UNCHANGED <<mode, rready, frame, pos, frames, FSMReceive, headermode, headerreceived, out>>
    BY <1>1 DEF vars, portVars, Activate
  <2>2. Cut' /\ Simulates /\ Since' = Since /\ Ends' = Ends /\ (HeaderFirst => HeaderFirst')
    BY <2>1, SameOut DEF IInv
  <2>3. PortInv'
    BY <2>1, SamePort DEF IInv, PortInv
  <2>4. /\ Handled' = Handled /\ HeaderWord' = HeaderWord /\ (WordComplete' <=> WordComplete)
        /\ (InFrame' <=> InFrame) /\ Header(frame.n)' = Header(frame.n)
        /\ PrimSet(Handled)' = PrimSet(Handled)
    BY <2>1 DEF Handled, HeaderWord, WordComplete, WordBytes, InFrame, Header, PrimSet
  <2>5. StateInv'
    BY <2>1, <2>4 DEF IInv, StateInv
  <2>6. PacketInv'
    BY <2>1, <2>2, <2>4 DEF IInv, PacketInv, SinceInv, Reliable
  <2> QED BY <2>2, <2>3, <2>5, <2>6 DEF IInv
<1>2. CASE Next
  BY <1>1, <1>2, NewFrameStep, PortDropsStep, IdleStep, BytesStep, StoppedWordStep, S3WordStep
     DEF Next, Receive
<1> QED BY <1>1, <1>2

\* A frame that ends is not there any more, and nothing else writes an end.
LEMMA EndsNext == IInv /\ EndsInv /\ [Next]_vars => EndsInv'
<1> SUFFICES ASSUME IInv, EndsInv, [Next]_vars PROVE EndsInv'
    OBVIOUS
<1> DEFINE there == IF rready /\ FSMReceive # "S4" THEN 1 ELSE 0
<1>1. /\ Cut /\ IsFiniteSet(Ends) /\ Cardinality(Ends) \in Nat /\ Cardinality(Ends) + there <= frames
      /\ frames \in Nat
  BY FS_CardinalityType DEF IInv, EndsInv, PortInv
<1>2. CASE NewFrame
  <2>1. ~rready /\ frames' = frames + 1 /\ UNCHANGED <<mode, out>>
    BY <1>2 DEF NewFrame
  <2>2. Ends' = Ends
    BY <1>1, <2>1, SameOut
  <2> QED BY <1>1, <2>1, <2>2 DEF EndsInv
<1>3. CASE ~NewFrame /\ out' = out
  <2>1. frames' = frames /\ UNCHANGED mode
    BY <1>3 DEF Next, PortDrops, Activate, Receive, S1, S2, S3Byte, S3NotReady, S3Word, S3Loop, S4,
                vars, portVars
  <2>2. rready' /\ FSMReceive' # "S4" => rready /\ FSMReceive # "S4"
    BY <1>3 DEF Next, PortDrops, Activate, Receive, S1, S2, S3Byte, S3NotReady, S3Word, S3Loop, S4,
                vars, portVars
  <2>3. Ends' = Ends
    BY <1>1, <1>3, <2>1, SameOut
  <2> QED BY <1>1, <2>1, <2>2, <2>3 DEF EndsInv
<1>4. CASE ~NewFrame /\ out' # out
  <2>1. /\ UNCHANGED <<mode, rready, frames>>
        /\ S2 \/ S3Byte \/ S3Loop \/ S3Word
    BY <1>4 DEF Next, PortDrops, Activate, Receive, S1, S2, S3Byte, S3NotReady, S3Word, S3Loop, S4,
                vars, portVars
  <2>2. CASE S3Word
    <3>1. PICK w \in {Header(frame.n), Primitive} : out' = Append(out, w)
      BY <1>4, <2>2 DEF S3Word, Put
    <3>2. w \in OutWord /\ w # EndOfPacket
      BY WordTypes DEF IInv, PortInv
    <3>3. Ends' = Ends
      BY <1>1, <3>1, <3>2, SinceWord
    <3>4. FSMReceive = "S3"
      BY <2>2 DEF S3Word
    <3> QED BY <1>1, <2>1, <3>3, <3>4 DEF EndsInv
  <2>3. CASE S2 \/ S3Byte \/ S3Loop
    <3>1. out' = Append(out, EndOfPacket) /\ rready /\ FSMReceive # "S4" /\ FSMReceive' = "S4"
      BY <1>4, <2>3 DEF S2, S3Byte, S3Loop, Put, PutEnd
    <3>2. Ends' = Ends \cup {Len(out) + 1} /\ Len(out) + 1 \notin Ends
      BY <1>1, <3>1, SinceEnd
    <3>3. IsFiniteSet(Ends') /\ Cardinality(Ends') = Cardinality(Ends) + 1
      BY <1>1, <3>2, FS_AddElement
    <3> QED BY <1>1, <2>1, <3>1, <3>3 DEF EndsInv
  <2> QED BY <2>1, <2>2, <2>3
<1> QED BY <1>2, <1>3, <1>4

LEMMA InitEnds == Init => EndsInv
<1> SUFFICES ASSUME Init PROVE EndsInv
    OBVIOUS
<1>1. Ends = {} /\ rready = FALSE /\ frames = 0
  BY DEF Init, Ends
<1> QED BY <1>1, FS_EmptySet DEF EndsInv

-----------------------------------------------------------------------------
\* Type correctness: a word handled lies in its frame, and what is written are words
\* of FIFODELAY.
THEOREM TypeCorrect == Spec => []TypeOK
<1> DEFINE More == frame \in Frames /\ frames \in 0 .. MaxFrame /\ ETHLINKERROR \subseteq {1, 2, 4}
<1>1. Init => More
  <2> SUFFICES ASSUME Init PROVE More
      OBVIOUS
  <2>1. <<>> \in [1 .. 0 -> Kinds] /\ 0 \in 0 .. MaxWords
    BY ReceiverAssumption
  <2>2. WordBytes \in {4, 8}
    BY ModeAssumption DEF Init, Mode, WordBytes
  <2>3. <<>> \in UNION {[1 .. k -> Kinds] : k \in 0 .. MaxWords}
    BY <2>1
  <2>4. 0 \in 0 .. WordBytes - 1 /\ 0 \in 0 .. MaxPrim
    BY <2>2, ReceiverAssumption
  <2>5. NoFrame \in Frames
    BY <2>3, <2>4 DEF Frames, NoFrame
  <2> QED BY <2>5, ReceiverAssumption DEF Init
<1>2. More /\ [Next]_vars => More'
  <2> SUFFICES ASSUME More, [Next]_vars PROVE More'
      OBVIOUS
  <2>1. Frames' = Frames
    <3>1. mode' = mode
      BY SameMode
    <3> QED BY <3>1 DEF Frames, WordBytes
  <2>2. ETHLINKERROR' \subseteq {1, 2, 4}
    BY DEF Next, NewFrame, PortDrops, Activate, Receive, PutEnd, S1, S2, S3Byte, S3NotReady, S3Word, S3Loop, S4,
           Put, vars, portVars
  <2>3. frame' \in Frames /\ frames' \in 0 .. MaxFrame
    <3>1. CASE NewFrame
      <4>1. frame' \in Frames
        BY <3>1 DEF NewFrame
      <4>2. frames' = frames + 1 /\ frames < MaxFrame
        BY <3>1 DEF NewFrame
      <4> QED BY <4>1, <4>2, ReceiverAssumption
    <3>2. CASE UNCHANGED <<frame, frames>>
      BY <3>2
    <3>3. NewFrame \/ UNCHANGED <<frame, frames>>
      BY DEF Next, PortDrops, Activate, Receive, S1, S2, S3Byte, S3NotReady, S3Word, S3Loop, S4, vars, portVars
    <3> QED BY <3>1, <3>2, <3>3
  <2> QED BY <2>1, <2>2, <2>3
<1>3. IInv /\ ActiveInv /\ More => TypeOK
  <2> SUFFICES ASSUME IInv, ActiveInv, More PROVE TypeOK
      OBVIOUS
  <2>1. \A i \in 1 .. Len(out) : out[i] \in OutWord
    BY ElementOfSeq DEF IInv, Cut
  <2>2. \A i \in 1 .. Len(out) : out[i].kind \in {"header", "primitive", "eof"}
    BY <2>1 DEF OutWord
  <2> QED BY <2>2 DEF IInv, ActiveInv, PortInv, StateInv, TypeOK
<1> HIDE DEF More
<1> QED BY <1>1, <1>2, <1>3, InitIInv, NextIInv, InitActive, ActiveNext, PTL DEF Spec

\* Whatever the frames look like, two are never run together: each ends in exactly
\* one end-of-packet word, and its header is the first word behind the one before,
\* also if that frame ended within its header (ethlink.vhd:1704, 1873). When words
\* are refused or primitives not active, no frame has two.
THEOREM FramesApartAlways == Spec => []FramesApart
<1>1. IInv /\ EndsInv => FramesApart
  <2> SUFFICES ASSUME IInv, EndsInv PROVE FramesApart
      OBVIOUS
  <2>1. EndsWritten = Cardinality(Ends) /\ IsFiniteSet(Ends) /\ Cardinality(Ends) \in Nat
    BY FS_CardinalityType DEF EndsInv, EndsWritten, Ends
  <2>2. ~rready => Cardinality(Ends) + 0 <= frames
    BY DEF EndsInv
  <2>3. Reliable /\ ~rready => frames = Cardinality(Ends) + 0
    BY DEF IInv, PacketInv
  <2>4. OneEndPerFrame
    BY <2>1, <2>2, <2>3 DEF OneEndPerFrame
  <2>5. HeaderFirst
    BY DEF IInv, PacketInv, HeaderFirst
  <2> QED BY <2>4, <2>5 DEF FramesApart
<1> QED BY <1>1, InitIInv, NextIInv, InitActive, ActiveNext, InitEnds, EndsNext, PTL DEF Spec

\* The receiver, byte by byte and in either format, writes what PacketWriter promises
\* and DelayAlign assumes: a header, the primitives it announces, an end of packet,
\* nothing else (ethlink.vhd:1641).
THEOREM ImplementsPacketWriter == Spec => IsPacketWriter
<1> DEFINE rx == IF ~Promised \/ Since = <<>> THEN -1 ELSE Since[1].n - (Len(Since) - 1)
           words == IF Promised THEN out ELSE <<>>
<1>1. Init => Packet!Init
  <2> SUFFICES ASSUME Init PROVE rx = -1 /\ words = <<>>
      BY DEF Packet!Init
  <2>1. out = <<>> /\ Ends = {}
    BY DEF Init, Ends
  <2> QED BY <2>1, SinceDef
<1>2. IInv /\ ActiveInv /\ [Next]_vars => [Packet!Next]_<<rx, words>>
  <2> SUFFICES ASSUME IInv, ActiveInv, [Next]_vars PROVE Packet!Next \/ UNCHANGED <<rx, words>>
      OBVIOUS
  <2>1. Cut /\ Simulates
    BY NextIInv DEF IInv
  <2>2. Promised' <=> Promised
    <3>1. mode' = mode
      BY SameMode
    <3> QED BY <3>1 DEF Promised, Reliable
  <2>3. CASE ~Promised
    BY <2>2, <2>3
  <2>4. CASE Promised /\ out' = out
    <3>1. Ends' = Ends
      BY <2>4 DEF Ends, EndOfPacket
    <3>2. LastEnd' = LastEnd
      BY <3>1 DEF LastEnd
    <3>3. Since' = Since
      BY <2>4, <3>1, <3>2, SinceDef
    <3> QED BY <2>2, <2>4, <3>3
  <2>5. CASE Promised /\ out' = Append(out, EndOfPacket) /\ Remaining = 0
    <3>1. Since' = <<>>
      BY <2>1, <2>5, SinceEnd
    <3>2. rx = 0 /\ rx' = -1 /\ words = out /\ words' = out'
      BY <2>2, <2>5, <3>1 DEF Remaining
    <3>3. Packet!End
      BY <2>5, <3>2 DEF Packet!End, EndOfPacket
    <3> QED BY <3>3 DEF Packet!Next
  <2>6. CASE Promised /\ out' = Append(out, Primitive) /\ Remaining > 0
    <3>1. Since' = Append(Since, Primitive) /\ Since \in Seq(OutWord)
      BY <2>1, <2>6, SinceType, SinceWord, WordTypes
    <3>2. /\ Len(Since) \in Nat /\ Len(Since') = Len(Since) + 1
          /\ \A i \in 1 .. Len(Since) : Since'[i] = Since[i]
      BY <3>1, WordTypes, AppendProperties, LenProperties
    <3>3. Since # <<>>
      BY <2>6 DEF Remaining
    <3>4. 1 \in 1 .. Len(Since) /\ Since' # <<>>
      BY <3>1, <3>2, <3>3, EmptySeq
    <3>5. Since[1].n \in Int
      <4>1. Since[1] \in OutWord
        BY <3>1, <3>4, ElementOfSeq
      <4> QED BY <4>1, ReceiverAssumption DEF OutWord
    <3>6. rx > 0 /\ rx' = rx - 1 /\ words = out /\ words' = out'
      BY <2>2, <2>6, <3>2, <3>3, <3>4, <3>5 DEF Remaining
    <3>7. Packet!Write
      BY <2>6, <3>6 DEF Packet!Write, Primitive
    <3> QED BY <3>7 DEF Packet!Next
  <2>7. CASE Promised /\ \E n \in 0 .. MaxPrim : out' = Append(out, Header(n)) /\ Since = <<>>
    <3>1. PICK n \in 0 .. MaxPrim : out' = Append(out, Header(n)) /\ Since = <<>>
      BY <2>7
    <3>2. Since' = Append(<<>>, Header(n))
      BY <2>1, <3>1, SinceWord, WordTypes
    <3>3. Since' # <<>> /\ Len(Since') = 1 /\ Since'[1] = Header(n)
      BY <3>2
    <3>4. rx = -1 /\ rx' = n /\ words = out /\ words' = out'
      BY <2>2, <2>7, <3>1, <3>3, ReceiverAssumption DEF Header
    <3>5. Packet!Begin(n)
      BY <3>1, <3>4 DEF Packet!Begin, Header
    <3> QED BY <3>5 DEF Packet!Next
  <2> QED BY <2>1, <2>3, <2>4, <2>5, <2>6, <2>7 DEF Simulates
<1> HIDE DEF rx, words
<1> QED BY <1>1, <1>2, InitIInv, NextIInv, InitActive, ActiveNext, PTL DEF Spec, IsPacketWriter, Packet!Spec, rx, words

=============================================================================
