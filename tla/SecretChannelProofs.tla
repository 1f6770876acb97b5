------------------------ MODULE SecretChannelProofs ------------------------
(***************************************************************************)
(* Proofs about SecretChannel, for any number of texts and disturbances.   *)
(***************************************************************************)
EXTENDS SecretChannel, SequenceTheorems, TLAPS

-----------------------------------------------------------------------------
(* The inductive invariant.                                                *)

\* A kill changes no count: each is saved in the handler that changes it.
SavedIsCurrent ==
  \A c \in Clients : saved[c].in = inSeqNo[c] /\ saved[c].out = outSeqNo[c]

Num(m) == m.out \div 2

\* One direction of the chat: the messages w under way from a client that sent
\* out messages and t texts, to one that expects the message in and was shown
\* the texts sh.
Way(w, out, in, t, sh) ==
  /\ \A i \in 1..Len(w) : Num(w[i]) < out /\ w[i].text <= t
  /\ in <= out
  /\ \A i, j \in 1..Len(w) :
       w[i].text > 0 /\ w[j].text > 0 /\ Num(w[i]) < Num(w[j]) => w[i].text < w[j].text
  /\ \A k \in 1..Len(sh) :
       /\ sh[k] <= t
       /\ \A j \in 1..Len(w) : Num(w[j]) >= in /\ w[j].text > 0 => sh[k] < w[j].text

\* What is under way is the end of what was sent; the expected message is the
\* first of it, or the next when the first was seen before.
Intact(w, out, in) ==
  /\ in >= out - Len(w)
  /\ \A i \in 1..Len(w) : Num(w[i]) = out - Len(w) + i - 1

WayOf(c) ==
  /\ Way(wire[c], outSeqNo[c], inSeqNo[Peer(c)], texts[c], shown[Peer(c)])
  /\ ~lost[c] => Intact(wire[c], outSeqNo[c], inSeqNo[Peer(c)])

IInv ==
  /\ TypeOK
  /\ SavedIsCurrent
  /\ NoneRefused
  /\ ResendsNeedLoss
  /\ \A c \in Clients : WayOf(c)

-----------------------------------------------------------------------------
(* The two sides and the numbers of messages.                              *)

\* There are two clients, each the peer of the other.
LEMMA Peers ==
  ASSUME NEW c \in Clients
  PROVE  /\ Peer(c) \in Clients /\ Peer(c) # c /\ Peer(Peer(c)) = c
         /\ Clients = {c, Peer(c)}
         /\ (Peer(c) = Creator) = (c # Creator)
<1>1. PICK d \in Clients : d # Creator /\ Clients = {d, Creator}
  BY ClientsAssumption
<1>2. \A x \in Clients : \E y \in Clients : y # x
  BY <1>1, ClientsAssumption
<1>3. \A x \in Clients : Peer(x) \in Clients /\ Peer(x) # x
  BY <1>2 DEF Peer
<1> QED
  BY <1>1, <1>3, ClientsAssumption

\* A parameter is twice the count, with the bit of the side.
LEMMA Parameter ==
  ASSUME NEW n \in Nat, NEW b \in {0, 1}
  PROVE  /\ 2 * n + b \in Nat
         /\ (2 * n + b) \div 2 = n
         /\ (2 * n + b) % 2 = b
OBVIOUS

LEMMA NumType ==
  ASSUME NEW m \in Messages
  PROVE  Num(m) \in Nat /\ m.text \in Nat
BY BoundsAssumption DEF Messages, Num

\* A new message has the type, carries the counts and the side of its sender.
LEMMA NewMessage ==
  ASSUME TypeOK, NEW c \in Clients, NEW t \in 0..MaxTexts,
         NEW r \in [start : Nat \cup {-1}, end : Nat \cup {-1}]
  PROVE  /\ Message(c, t, r) \in Messages
         /\ Message(c, t, r).text = t
         /\ Num(Message(c, t, r)) = outSeqNo[c]
         /\ Message(c, t, r).in \div 2 = inSeqNo[c]
         /\ FromPeer(Peer(c), Message(c, t, r))
<1>1. inSeqNo[c] \in Nat /\ outSeqNo[c] \in Nat
  BY DEF TypeOK
<1>2. SideBit(c = Creator) \in {0, 1} /\ SideBit(c # Creator) \in {0, 1}
  BY DEF SideBit
<1>3. 1 - SideBit(Peer(c) = Creator) = SideBit(c = Creator)
  BY Peers DEF SideBit
<1>4. SideBit(Peer(c) = Creator) = SideBit(c # Creator)
  BY Peers DEF SideBit
<1> QED
  BY <1>1, <1>2, <1>3, <1>4, Parameter
     DEF Message, Messages, Num, InSeqNoParam, OutSeqNoParam, FromPeer

-----------------------------------------------------------------------------
(* What happens to one direction.                                          *)

\* A message is sent: the next number, and no text or the next one.
LEMMA WaySend ==
  ASSUME NEW w \in Seq(Messages), NEW out \in Nat, NEW in \in Nat, NEW t \in Nat,
         NEW sh \in Seq(Nat), Way(w, out, in, t, sh),
         NEW m \in Messages, Num(m) = out, NEW u \in Nat,
         (m.text = 0 /\ u = t) \/ (m.text = t + 1 /\ u = t + 1)
  PROVE  /\ Append(w, m) \in Seq(Messages)
         /\ Way(Append(w, m), out + 1, in, u, sh)
         /\ Intact(w, out, in) => Intact(Append(w, m), out + 1, in)
<1> DEFINE v == Append(w, m)
<1>1. Len(v) = Len(w) + 1 /\ Len(w) \in Nat /\ v \in Seq(Messages)
  BY AppendProperties, LenProperties
<1>2. \A i \in 1..Len(w) : v[i] = w[i] /\ w[i] \in Messages
  BY AppendProperties, ElementOfSeq
<1>3. v[Len(w) + 1] = m
  BY AppendProperties
<1>5. \A i \in 1..Len(w) : Num(w[i]) \in Nat /\ w[i].text \in Nat
  BY <1>2, NumType
<1>6. \A k \in 1..Len(sh) : sh[k] \in Nat
  BY ElementOfSeq
<1> HIDE DEF v
<1>4. \A i \in 1..Len(v) : i \in 1..Len(w) \/ i = Len(w) + 1
  BY <1>1
<1>7. ASSUME NEW i \in 1..Len(v)
      PROVE  Num(v[i]) < out + 1 /\ v[i].text <= u
  <2>1. CASE i \in 1..Len(w)
    <3>1. Num(w[i]) < out /\ w[i].text <= t
      BY <2>1 DEF Way
    <3>2. Num(v[i]) < out + 1
      BY <1>2, <1>5, <2>1, <3>1
    <3>3. v[i].text <= u
      BY <1>2, <1>5, <2>1, <3>1
    <3> QED
      BY <3>2, <3>3
  <2>2. CASE i = Len(w) + 1
    <3>1. Num(v[i]) < out + 1
      BY <1>3, <2>2
    <3>2. v[i].text <= u
      BY <1>3, <2>2
    <3> QED
      BY <3>1, <3>2
  <2> QED
    BY <1>4, <2>1, <2>2
<1>8. ASSUME NEW i \in 1..Len(v), NEW j \in 1..Len(v),
             v[i].text > 0, v[j].text > 0, Num(v[i]) < Num(v[j])
      PROVE  v[i].text < v[j].text
  <2>1. CASE i \in 1..Len(w) /\ j \in 1..Len(w)
    BY <1>1, <1>2, <1>5, <1>8, <2>1 DEF Way
  <2>2. CASE i \in 1..Len(w) /\ j = Len(w) + 1
    <3>1. v[i].text <= t /\ v[i].text \in Nat
      BY <1>1, <1>2, <1>5, <2>2 DEF Way
    <3> QED
      BY <1>3, <1>8, <2>2, <3>1
  <2>3. CASE i = Len(w) + 1
    <3>1. Num(v[i]) = out
      BY <1>3, <2>3
    <3>2. Num(v[j]) < out + 1
      BY <1>7
    <3>3. v[j] \in Messages
      BY <1>1, ElementOfSeq
    <3> QED
      BY <1>8, <3>1, <3>2, <3>3, NumType
  <2> QED
    BY <1>4, <2>1, <2>2, <2>3
<1>9. ASSUME NEW k \in 1..Len(sh)
      PROVE  /\ sh[k] <= u
             /\ \A j \in 1..Len(v) : Num(v[j]) >= in /\ v[j].text > 0 => sh[k] < v[j].text
  <2>1. sh[k] <= t
    BY DEF Way
  <2>2. ASSUME NEW j \in 1..Len(v), Num(v[j]) >= in, v[j].text > 0
        PROVE  sh[k] < v[j].text
    <3>1. CASE j \in 1..Len(w)
      BY <1>1, <1>2, <1>5, <2>2, <3>1 DEF Way
    <3>2. CASE j = Len(w) + 1
      BY <1>3, <1>6, <2>1, <2>2, <3>2
    <3> QED
      BY <1>4, <3>1, <3>2
  <2> QED
    BY <1>6, <2>1, <2>2
<1>10. in <= out + 1
  BY DEF Way
<1>11. Way(v, out + 1, in, u, sh)
  BY <1>7, <1>8, <1>9, <1>10 DEF Way
<1>12. Intact(w, out, in) => Intact(v, out + 1, in)
  BY <1>1, <1>2, <1>3, <1>4, <1>5 DEF Intact
<1> QED
  BY <1>1, <1>11, <1>12 DEF v

\* Messages are lost or change places: what is left was there before.
LEMMA WayDisturbed ==
  ASSUME NEW w \in Seq(Messages), NEW out \in Nat, NEW in \in Nat, NEW t \in Nat,
         NEW sh \in Seq(Nat), Way(w, out, in, t, sh),
         NEW v \in Seq(Messages),
         \A i \in 1..Len(v) : \E j \in 1..Len(w) : v[i] = w[j]
  PROVE  Way(v, out, in, t, sh)
BY DEF Way

\* The rest of the way without its first message.
LEMMA WayTail ==
  ASSUME NEW w \in Seq(Messages), w # <<>>
  PROVE  /\ Tail(w) \in Seq(Messages) /\ Len(w) \in Nat /\ Len(w) >= 1
         /\ Len(Tail(w)) = Len(w) - 1
         /\ \A i \in 1..Len(Tail(w)) : i + 1 \in 1..Len(w) /\ Tail(w)[i] = w[i + 1]
         /\ Head(w) = w[1] /\ Head(w) \in Messages
         /\ Num(w[1]) \in Nat /\ w[1].text \in Nat
         /\ \A i \in 1..Len(w) : Num(w[i]) \in Nat /\ w[i].text \in Nat
<1>1. \A i \in 1..Len(w) : w[i] \in Messages
  BY ElementOfSeq
<1>2. Tail(w) \in Seq(Messages) /\ Len(w) \in Nat /\ Len(Tail(w)) = Len(w) - 1
      /\ Head(w) \in Messages /\ \A i \in 1..Len(Tail(w)) : Tail(w)[i] = w[i + 1]
  BY HeadTailProperties, LenProperties
<1>3. Len(w) # 0
  BY EmptySeq
<1>4. Head(w) = w[1]
  OBVIOUS
<1> QED
  BY <1>1, <1>2, <1>3, <1>4, NumType

\* The first message is dropped: it is behind a gap, or was seen before.
LEMMA WayDrop ==
  ASSUME NEW w \in Seq(Messages), NEW out \in Nat, NEW in \in Nat, NEW t \in Nat,
         NEW sh \in Seq(Nat), Way(w, out, in, t, sh),
         w # <<>>, Num(Head(w)) # in
  PROVE  /\ Way(Tail(w), out, in, t, sh)
         /\ Intact(w, out, in) => Num(Head(w)) < in /\ Intact(Tail(w), out, in)
<1> DEFINE v == Tail(w)
<1>1. v \in Seq(Messages) /\ Len(w) \in Nat /\ Len(w) >= 1 /\ Len(v) = Len(w) - 1
      /\ (\A i \in 1..Len(v) : i + 1 \in 1..Len(w) /\ v[i] = w[i + 1])
      /\ Head(w) = w[1] /\ Num(w[1]) \in Nat
  BY WayTail
<1> HIDE DEF v
<1>2. Way(v, out, in, t, sh)
  BY <1>1, WayDisturbed
<1>3. ASSUME Intact(w, out, in)
      PROVE  Num(w[1]) < in /\ Intact(v, out, in)
  <2>1. Num(w[1]) = out - Len(w) /\ in >= out - Len(w)
    BY <1>1, <1>3 DEF Intact
  <2>2. Num(w[1]) < in
    BY <1>1, <2>1
  <2>3. in >= out - Len(v)
    BY <1>1, <2>1, <2>2
  <2>4. ASSUME NEW i \in 1..Len(v)
        PROVE  Num(v[i]) = out - Len(v) + i - 1
    <3>1. i + 1 \in 1..Len(w) /\ v[i] = w[i + 1]
      BY <1>1
    <3>2. Num(w[i + 1]) = out - Len(w) + (i + 1) - 1
      BY <1>3, <3>1 DEF Intact
    <3> QED
      BY <1>1, <3>1, <3>2
  <2> QED
    BY <2>2, <2>3, <2>4 DEF Intact
<1> QED
  BY <1>1, <1>2, <1>3 DEF v

\* The expected message is taken from the way, or comes and stays.
LEMMA WayProcess ==
  ASSUME NEW w \in Seq(Messages), NEW out \in Nat, NEW in \in Nat, NEW t \in Nat,
         NEW sh \in Seq(Nat), Way(w, out, in, t, sh),
         w # <<>>, Num(Head(w)) = in, NEW v \in {w, Tail(w)},
         NEW si \in Seq(Nat),
         \/ Head(w).text > 0 /\ si = Append(sh, Head(w).text)
         \/ ~(Head(w).text > 0) /\ si = sh
  PROVE  /\ Way(v, out, in + 1, t, si)
         /\ Intact(w, out, in) => Intact(v, out, in + 1)
<1> DEFINE m == Head(w)
<1>1. /\ Len(w) \in Nat /\ Len(w) >= 1
      /\ m = w[1] /\ Num(m) \in Nat /\ m.text \in Nat
      /\ \A i \in 1..Len(w) : Num(w[i]) \in Nat /\ w[i].text \in Nat
  BY WayTail
<1>2. v \in Seq(Messages) /\ \A i \in 1..Len(v) : \E j \in 1..Len(w) : v[i] = w[j]
  <2>1. CASE v = w
    BY <2>1
  <2>2. CASE v = Tail(w)
    BY <2>2, WayTail
  <2> QED
    BY <2>1, <2>2
<1>3. Way(v, out, in, t, sh)
  BY <1>2, WayDisturbed
<1>4. in + 1 <= out /\ m.text <= t
  <2>1. 1 \in 1..Len(w)
    BY <1>1
  <2>2. Num(m) < out /\ m.text <= t
    BY <1>1, <2>1 DEF Way
  <2> QED
    BY <1>1, <2>2
<1>5. ASSUME NEW j \in 1..Len(v), Num(v[j]) >= in + 1, v[j].text > 0
      PROVE  /\ v[j].text \in Nat
             /\ m.text > 0 => m.text < v[j].text
             /\ \A k \in 1..Len(sh) : sh[k] < v[j].text
  <2>1. PICK i \in 1..Len(w) : v[j] = w[i]
    BY <1>2
  <2>2. Num(w[i]) \in Nat /\ w[i].text \in Nat /\ 1 \in 1..Len(w)
    BY <1>1
  <2>3. Num(w[1]) < Num(w[i]) /\ Num(w[i]) >= in
    <3>1. Num(w[i]) >= in + 1
      BY <1>5, <2>1
    <3>2. Num(w[1]) = in
      BY <1>1
    <3> QED
      BY <2>2, <3>1, <3>2
  <2>4. w[1].text > 0 => w[1].text < w[i].text
    BY <1>5, <2>1, <2>2, <2>3 DEF Way
  <2>5. \A k \in 1..Len(sh) : sh[k] < w[i].text
    BY <1>5, <2>1, <2>3 DEF Way
  <2> QED
    BY <1>1, <2>1, <2>2, <2>4, <2>5
<1>6. ASSUME NEW k \in 1..Len(si)
      PROVE  (k \in 1..Len(sh) /\ si[k] = sh[k]) \/ (si[k] = m.text /\ m.text > 0)
  <2>1. CASE m.text > 0
    <3>1. si = Append(sh, m.text) /\ Len(sh) \in Nat
      BY <2>1, LenProperties
    <3>2. Len(si) = Len(sh) + 1 /\ si[Len(sh) + 1] = m.text
          /\ \A x \in 1..Len(sh) : si[x] = sh[x]
      BY <1>1, <3>1, AppendProperties
    <3> QED
      BY <2>1, <3>1, <3>2
  <2>2. CASE ~(m.text > 0)
    BY <2>2
  <2> QED
    BY <2>1, <2>2
<1>7. Intact(w, out, in) => Intact(v, out, in + 1)
  <2>1. CASE v = w
    BY <1>1, <2>1 DEF Intact
  <2>2. CASE v = Tail(w)
    <3> HAVE Intact(w, out, in)
    <3>1. in >= out - Len(w) /\ \A i \in 1..Len(w) : Num(w[i]) = out - Len(w) + i - 1
      BY DEF Intact
    <3>2. Len(v) = Len(w) - 1 /\ \A i \in 1..Len(v) : i + 1 \in 1..Len(w) /\ v[i] = w[i + 1]
      BY <2>2, WayTail
    <3>3. in + 1 >= out - Len(v)
      BY <1>1, <3>1, <3>2
    <3>4. \A i \in 1..Len(v) : Num(v[i]) = out - Len(w) + (i + 1) - 1
      BY <3>1, <3>2
    <3>5. \A i \in 1..Len(v) : out - Len(w) + (i + 1) - 1 = out - Len(v) + i - 1
      BY <1>1, <3>2
    <3> QED
      BY <3>3, <3>4, <3>5 DEF Intact
  <2> QED
    BY <2>1, <2>2
<1> HIDE DEF m
<1>8. \A i \in 1..Len(v) : Num(v[i]) < out /\ v[i].text <= t
  BY <1>3 DEF Way
<1>9. \A i, j \in 1..Len(v) :
       v[i].text > 0 /\ v[j].text > 0 /\ Num(v[i]) < Num(v[j]) => v[i].text < v[j].text
  BY <1>3 DEF Way
<1>10. ASSUME NEW k \in 1..Len(si)
       PROVE  /\ si[k] <= t
              /\ \A j \in 1..Len(v) : Num(v[j]) >= in + 1 /\ v[j].text > 0 => si[k] < v[j].text
  <2>1. CASE k \in 1..Len(sh) /\ si[k] = sh[k]
    <3>1. sh[k] <= t
      BY <2>1 DEF Way
    <3> QED
      BY <1>5, <2>1, <3>1
  <2>2. CASE si[k] = m.text /\ m.text > 0
    BY <1>4, <1>5, <2>2
  <2> QED
    BY <1>6, <2>1, <2>2
<1>11. Way(v, out, in + 1, t, si)
  BY <1>4, <1>8, <1>9, <1>10 DEF Way
<1> QED
  BY <1>7, <1>11

-----------------------------------------------------------------------------
(* The invariant is inductive.                                             *)

\* The types of what belongs to a client and to its direction.
LEMMA ClientTypes ==
  ASSUME TypeOK, NEW c \in Clients
  PROVE  /\ inSeqNo[c] \in Nat /\ outSeqNo[c] \in Nat /\ texts[c] \in Nat
         /\ wire[c] \in Seq(Messages) /\ lost[c] \in BOOLEAN /\ resends[c] \in Nat
         /\ shown[c] \in Seq(1..MaxTexts) /\ shown[c] \in Seq(Nat)
<1>1. shown[c] \in Seq(1..MaxTexts) /\ 1..MaxTexts \subseteq Nat
  BY DEF TypeOK
<1>2. shown[c] \in Seq(Nat)
  BY <1>1, SeqMonotonic
<1> QED
  BY <1>1, <1>2, BoundsAssumption DEF TypeOK

\* Messages that were under way, and new ones of their sender, are accepted.
LEMMA StillAccepted ==
  ASSUME IInv, TypeOK', NEW x \in Clients, outSeqNo'[Peer(x)] >= outSeqNo[Peer(x)],
         \A i \in 1..Len(wire'[x]) :
           \/ \E j \in 1..Len(wire[x]) : wire'[x][i] = wire[x][j]
           \/ FromPeer(Peer(x), wire'[x][i]) /\ wire'[x][i].in \div 2 = inSeqNo[x]
  PROVE  \A i \in DOMAIN wire'[x] :
           FromPeer(Peer(x), wire'[x][i]) /\ wire'[x][i].in \div 2 <= outSeqNo'[Peer(x)]
<1>1. wire[x] \in Seq(Messages) /\ wire'[x] \in Seq(Messages)
  BY DEF IInv, TypeOK
<1>2. DOMAIN wire'[x] = 1..Len(wire'[x]) /\ DOMAIN wire[x] = 1..Len(wire[x])
  BY <1>1, LenProperties
<1>3. \A m \in Messages : m.in \div 2 \in Nat
  BY DEF Messages
<1>4. Peer(x) \in Clients /\ Peer(Peer(x)) = x
  BY Peers
<1>5. outSeqNo[Peer(x)] \in Nat /\ outSeqNo'[Peer(x)] \in Nat
  BY <1>4 DEF IInv, TypeOK
<1>6. inSeqNo[x] <= outSeqNo[Peer(x)]
  BY <1>4 DEF IInv, WayOf, Way
<1>7. ASSUME NEW i \in 1..Len(wire'[x])
      PROVE  FromPeer(Peer(x), wire'[x][i]) /\ wire'[x][i].in \div 2 <= outSeqNo'[Peer(x)]
  <2>1. CASE \E j \in 1..Len(wire[x]) : wire'[x][i] = wire[x][j]
    <3>1. PICK j \in 1..Len(wire[x]) : wire'[x][i] = wire[x][j]
      BY <2>1
    <3>2. FromPeer(Peer(x), wire[x][j]) /\ wire[x][j].in \div 2 <= outSeqNo[Peer(x)]
      BY <1>2 DEF IInv, NoneRefused
    <3>3. wire[x][j].in \div 2 \in Nat
      BY <1>1, <1>3, ElementOfSeq
    <3>4. wire[x][j].in \div 2 <= outSeqNo'[Peer(x)]
      BY <1>5, <3>2, <3>3
    <3> QED
      BY <3>1, <3>2, <3>4
  <2>2. CASE FromPeer(Peer(x), wire'[x][i]) /\ wire'[x][i].in \div 2 = inSeqNo[x]
    <3>1. inSeqNo[x] <= outSeqNo'[Peer(x)]
      BY <1>5, <1>6, ClientTypes DEF IInv
    <3> QED
      BY <2>2, <3>1
  <2> QED
    BY <2>1, <2>2
<1> QED
  BY <1>2, <1>7

\* The messages w are under way, and m behind those of c.
SentFrom(c, w, m) ==
  /\ wire' \in [Clients -> Seq(Messages)]
  /\ wire'[c] = Append(wire[c], m)
  /\ \A x \in Clients \ {c} : wire'[x] = w[x] /\ outSeqNo'[x] = outSeqNo[x]
  /\ outSeqNo' \in [Clients -> Nat] /\ outSeqNo'[c] = outSeqNo[c] + 1
  /\ \A x \in Clients : outSeqNo'[x] >= outSeqNo[x]
  /\ saved' \in [Clients -> [in : Nat, out : Nat]]
  /\ \A i \in 1..Len(wire'[c]) :
       \/ \E j \in 1..Len(wire[c]) : wire'[c][i] = wire[c][j]
       \/ FromPeer(Peer(c), wire'[c][i]) /\ wire'[c][i].in \div 2 = inSeqNo[c]

\* What a client that sends does to its own direction, from the messages w.
LEMMA SendingEffect ==
  ASSUME IInv, NEW c \in Clients, NEW w \in [Clients -> Seq(Messages)], w[c] = wire[c],
         NEW t \in 0..MaxTexts, NEW r \in [start : Nat \cup {-1}, end : Nat \cup {-1}],
         EncryptAndSend(c, w, t, r)
  PROVE  /\ SentFrom(c, w, Message(c, t, r))
         /\ inSeqNo' = inSeqNo => SavedIsCurrent'
<1> DEFINE m == Message(c, t, r)
<1>1. m \in Messages /\ m.in \div 2 = inSeqNo[c] /\ FromPeer(Peer(c), m)
  BY NewMessage DEF IInv
<1>2. wire[c] \in Seq(Messages) /\ inSeqNo[c] \in Nat /\ outSeqNo[c] \in Nat
  BY ClientTypes DEF IInv
<1> HIDE DEF m
<1>3. wire' = [w EXCEPT ![c] = Append(@, m)]
  BY DEF EncryptAndSend, m
<1>4. Append(wire[c], m) \in Seq(Messages) /\ Len(wire[c]) \in Nat
      /\ Len(Append(wire[c], m)) = Len(wire[c]) + 1 /\ Append(wire[c], m)[Len(wire[c]) + 1] = m
      /\ \A i \in 1..Len(wire[c]) : Append(wire[c], m)[i] = wire[c][i]
  BY <1>1, <1>2, AppendProperties, LenProperties
<1>5. wire' \in [Clients -> Seq(Messages)] /\ wire'[c] = Append(wire[c], m)
      /\ \A x \in Clients \ {c} : wire'[x] = w[x]
  BY <1>3, <1>4
<1>6. outSeqNo' = [outSeqNo EXCEPT ![c] = @ + 1]
      /\ saved' = [saved EXCEPT ![c] = [in |-> inSeqNo[c], out |-> outSeqNo[c] + 1]]
  BY DEF EncryptAndSend, SavedAfterSending
<1>7. outSeqNo' \in [Clients -> Nat] /\ outSeqNo'[c] = outSeqNo[c] + 1
      /\ (\A x \in Clients \ {c} : outSeqNo'[x] = outSeqNo[x])
      /\ saved' \in [Clients -> [in : Nat, out : Nat]]
  BY <1>2, <1>6 DEF IInv, TypeOK
<1>8. inSeqNo' = inSeqNo => SavedIsCurrent'
  BY <1>2, <1>6 DEF IInv, TypeOK, SavedIsCurrent
<1>9. \A i \in 1..Len(wire'[c]) :
        (\E j \in 1..Len(wire[c]) : wire'[c][i] = wire[c][j]) \/ wire'[c][i] = m
  BY <1>4, <1>5
<1>10. ASSUME NEW x \in Clients
       PROVE  outSeqNo'[x] >= outSeqNo[x]
  <2>1. outSeqNo[x] \in Nat
    BY ClientTypes DEF IInv
  <2>2. CASE x = c
    BY <1>2, <1>7, <2>2
  <2>3. CASE x # c
    BY <1>7, <2>1, <2>3
  <2> QED
    BY <2>2, <2>3
<1> QED
  BY <1>1, <1>5, <1>7, <1>8, <1>9, <1>10 DEF m, SentFrom

LEMMA SendStep ==
  ASSUME IInv, NEW c \in Clients, Send(c)
  PROVE  IInv'
<1> DEFINE p == Peer(c)
<1> DEFINE t == texts[c] + 1
<1>1. texts[c] < MaxTexts /\ texts' = [texts EXCEPT ![c] = @ + 1]
      /\ EncryptAndSend(c, wire, t, NoRange)
      /\ inSeqNo' = inSeqNo /\ shown' = shown /\ resends' = resends
      /\ lost' = lost /\ disturbances' = disturbances
  BY DEF Send
<1>2. texts[c] \in 0..MaxTexts /\ t \in 0..MaxTexts /\ texts[c] \in Nat /\ t \in Nat
      /\ NoRange \in [start : Nat \cup {-1}, end : Nat \cup {-1}]
  BY <1>1, BoundsAssumption DEF IInv, TypeOK, NoRange
<1> DEFINE m == Message(c, t, NoRange)
<1>3. SentFrom(c, wire, m) /\ SavedIsCurrent'
  BY <1>1, <1>2, SendingEffect DEF IInv, TypeOK
<1>4. m \in Messages /\ m.text = t /\ Num(m) = outSeqNo[c]
  BY <1>2, NewMessage DEF IInv
<1>5. p \in Clients /\ p # c /\ Peer(p) = c /\ Clients = {c, p}
  BY Peers
<1> HIDE DEF m, t, p
<1>6. TypeOK'
  BY <1>1, <1>2, <1>3 DEF IInv, TypeOK, SentFrom, t
<1>7. NoneRefused'
  <2> SUFFICES ASSUME NEW x \in Clients
               PROVE  \A i \in DOMAIN wire'[x] :
                        FromPeer(Peer(x), wire'[x][i]) /\ wire'[x][i].in \div 2 <= outSeqNo'[Peer(x)]
    BY DEF NoneRefused
  <2>1. outSeqNo'[Peer(x)] >= outSeqNo[Peer(x)]
    BY <1>3, Peers DEF SentFrom
  <2>2. \A i \in 1..Len(wire'[x]) :
           \/ \E j \in 1..Len(wire[x]) : wire'[x][i] = wire[x][j]
           \/ FromPeer(Peer(x), wire'[x][i]) /\ wire'[x][i].in \div 2 = inSeqNo[x]
    BY <1>3 DEF SentFrom
  <2> QED
    BY <1>6, <2>1, <2>2, StillAccepted
<1>8. ResendsNeedLoss'
  BY <1>1 DEF IInv, ResendsNeedLoss
<1>9. WayOf(c)'
  <2>1. Way(wire[c], outSeqNo[c], inSeqNo[p], texts[c], shown[p])
        /\ (~lost[c] => Intact(wire[c], outSeqNo[c], inSeqNo[p]))
    BY DEF IInv, WayOf, p
  <2>2. wire[c] \in Seq(Messages) /\ outSeqNo[c] \in Nat /\ inSeqNo[p] \in Nat
        /\ shown[p] \in Seq(Nat)
    BY <1>5, ClientTypes DEF IInv
  <2>3. m.text = texts[c] + 1 /\ t = texts[c] + 1 /\ t \in Nat
    BY <1>2, <1>4 DEF t
  <2>4. /\ Way(Append(wire[c], m), outSeqNo[c] + 1, inSeqNo[p], t, shown[p])
        /\ (~lost[c] => Intact(Append(wire[c], m), outSeqNo[c] + 1, inSeqNo[p]))
    BY <1>2, <1>4, <2>1, <2>2, <2>3, WaySend
  <2>5. texts'[c] = t
    BY <1>1 DEF IInv, TypeOK, t
  <2>6. Way(wire'[c], outSeqNo'[c], inSeqNo'[p], texts'[c], shown'[p])
        /\ (~lost'[c] => Intact(wire'[c], outSeqNo'[c], inSeqNo'[p]))
    BY <1>1, <1>3, <2>4, <2>5 DEF SentFrom
  <2> QED
    BY <2>6 DEF WayOf, p
<1>10. WayOf(p)'
  <2>1. wire'[p] = wire[p] /\ outSeqNo'[p] = outSeqNo[p] /\ texts'[p] = texts[p]
    BY <1>1, <1>3, <1>5 DEF IInv, TypeOK, SentFrom
  <2> QED
    BY <1>1, <1>5, <2>1 DEF IInv, WayOf
<1> QED
  BY <1>3, <1>5, <1>6, <1>7, <1>8, <1>9, <1>10 DEF IInv

\* A client takes a message from its peer's direction, or leaves it there.
LEMMA DecryptStep ==
  ASSUME IInv, NEW c \in Clients, NEW w \in [Clients -> Seq(Messages)],
         wire[Peer(c)] # <<>>, w[c] = wire[c],
         w[Peer(c)] \in {wire[Peer(c)], Tail(wire[Peer(c)])},
         Decrypt(c, w, Head(wire[Peer(c)])),
         texts' = texts, lost' = lost, disturbances' \in 0..MaxDisturbances
  PROVE  IInv'
<1> DEFINE p == Peer(c)
<1> DEFINE m == Head(wire[p])
<1>1. p \in Clients /\ p # c /\ Peer(p) = c /\ Clients = {c, p}
  BY Peers
<1>2. /\ wire[p] \in Seq(Messages) /\ wire[c] \in Seq(Messages)
      /\ inSeqNo[c] \in Nat /\ outSeqNo[c] \in Nat /\ inSeqNo[p] \in Nat /\ outSeqNo[p] \in Nat
      /\ texts[c] \in Nat /\ texts[p] \in Nat /\ lost[p] \in BOOLEAN /\ resends[c] \in Nat
      /\ shown[c] \in Seq(Nat) /\ shown[p] \in Seq(Nat) /\ shown[c] \in Seq(1..MaxTexts)
  BY <1>1, ClientTypes DEF IInv
<1>3. /\ Way(wire[p], outSeqNo[p], inSeqNo[c], texts[p], shown[c])
      /\ ~lost[p] => Intact(wire[p], outSeqNo[p], inSeqNo[c])
      /\ Way(wire[c], outSeqNo[c], inSeqNo[p], texts[c], shown[p])
      /\ ~lost[c] => Intact(wire[c], outSeqNo[c], inSeqNo[p])
  BY <1>1 DEF IInv, WayOf
<1>4. m \in Messages /\ Num(m) \in Nat /\ m.text \in 0..MaxTexts
  <2>1. m \in Messages
    BY <1>2, WayTail
  <2> QED
    BY <2>1, NumType DEF Messages
<1>5. FromPeer(c, m) /\ IsPossible(c, m)
  <2>1. 1 \in DOMAIN wire[p] /\ m = wire[p][1]
    BY <1>2, WayTail, LenProperties
  <2> QED
    BY <1>1, <2>1 DEF IInv, NoneRefused, IsPossible
<1>6. w[p] \in Seq(Messages) /\ \A i \in 1..Len(w[p]) : \E j \in 1..Len(wire[p]) : w[p][i] = wire[p][j]
  <2>1. CASE w[p] = wire[p]
    BY <1>2, <2>1
  <2>2. CASE w[p] = Tail(wire[p])
    BY <1>2, <2>2, WayTail
  <2> QED
    BY <2>1, <2>2
\* The messages that stay under way, when p sends none.
<1>7. ASSUME TypeOK', wire'[p] = w[p], outSeqNo'[c] >= outSeqNo[c], outSeqNo'[p] = outSeqNo[p],
             \A i \in 1..Len(wire'[c]) :
               \/ \E j \in 1..Len(wire[c]) : wire'[c][i] = wire[c][j]
               \/ FromPeer(p, wire'[c][i]) /\ wire'[c][i].in \div 2 = inSeqNo[c]
      PROVE  NoneRefused'
  <2>1. outSeqNo'[p] >= outSeqNo[p]
    BY <1>2, <1>7
  <2>2. \A i \in DOMAIN wire'[c] : FromPeer(p, wire'[c][i]) /\ wire'[c][i].in \div 2 <= outSeqNo'[p]
    BY <1>7, <2>1, StillAccepted
  <2>3. \A i \in DOMAIN wire'[p] : FromPeer(c, wire'[p][i]) /\ wire'[p][i].in \div 2 <= outSeqNo'[c]
    BY <1>1, <1>6, <1>7, StillAccepted
  <2> QED
    BY <1>1, <2>2, <2>3 DEF NoneRefused
<1>8. (Num(m) < inSeqNo[c]) \/ (Num(m) = inSeqNo[c]) \/ (Num(m) > inSeqNo[c])
  BY <1>2, <1>4
<1>12. Decrypt(c, w, m) /\ w[c] = wire[c] /\ w[p] \in {wire[p], Tail(wire[p])} /\ wire[p] # <<>>
  OBVIOUS
<1> HIDE DEF m, p
<1>13. (IsExpected(c, m) <=> Num(m) = inSeqNo[c]) /\ (IsGap(c, m) <=> Num(m) > inSeqNo[c])
  BY DEF IsExpected, IsGap, Num
<1>9. CASE Num(m) = inSeqNo[c]
  <2> DEFINE si == IF m.text > 0 THEN Append(shown[c], m.text) ELSE shown[c]
  <2>1. Process(c, w, m)
    BY <1>2, <1>4, <1>5, <1>9, <1>12, <1>13 DEF Decrypt
  <2>2. /\ inSeqNo' = [inSeqNo EXCEPT ![c] = inSeqNo[c] + 1]
        /\ saved' = [saved EXCEPT ![c] = [in |-> inSeqNo[c] + 1, out |-> outSeqNo[c]]]
        /\ wire' = w /\ outSeqNo' = outSeqNo /\ resends' = resends
    BY <1>9, <2>1 DEF Process, Num
  <2>3. shown' = [shown EXCEPT ![c] = si]
    BY <2>1 DEF Process, ShownWith, IInv, TypeOK
  <2>4. si \in Seq(1..MaxTexts) /\ si \in Seq(Nat)
        /\ \/ m.text > 0 /\ si = Append(shown[c], m.text)
           \/ ~(m.text > 0) /\ si = shown[c]
    <3>1. CASE m.text > 0
      <4>1. m.text \in 1..MaxTexts /\ m.text \in Nat
        BY <1>4, <3>1, BoundsAssumption
      <4>2. Append(shown[c], m.text) \in Seq(1..MaxTexts) /\ Append(shown[c], m.text) \in Seq(Nat)
        BY <1>2, <4>1, AppendProperties
      <4> QED
        BY <3>1, <4>2
    <3>2. CASE ~(m.text > 0)
      BY <1>2, <3>2
    <3> QED
      BY <3>1, <3>2
  <2> HIDE DEF si
  <2>5. TypeOK'
    <3>1. inSeqNo' \in [Clients -> Nat] /\ saved' \in [Clients -> [in : Nat, out : Nat]]
      <4>1. inSeqNo \in [Clients -> Nat] /\ saved \in [Clients -> [in : Nat, out : Nat]]
        BY DEF IInv, TypeOK
      <4>2. inSeqNo[c] + 1 \in Nat /\ [in |-> inSeqNo[c] + 1, out |-> outSeqNo[c]] \in [in : Nat, out : Nat]
        BY <1>2
      <4> QED
        BY <2>2, <4>1, <4>2
    <3>2. shown' \in [Clients -> Seq(1..MaxTexts)]
      BY <2>3, <2>4 DEF IInv, TypeOK
    <3> QED
      BY <2>2, <3>1, <3>2 DEF IInv, TypeOK
  <2>6. SavedIsCurrent'
    BY <1>2, <2>2 DEF IInv, TypeOK, SavedIsCurrent
  <2>7. NoneRefused'
    BY <1>2, <1>7, <1>12, <2>2, <2>5
  <2>8. ResendsNeedLoss'
    BY <2>2 DEF IInv, ResendsNeedLoss
  <2>9. inSeqNo'[c] = inSeqNo[c] + 1 /\ inSeqNo'[p] = inSeqNo[p]
        /\ shown'[c] = si /\ shown'[p] = shown[p]
    BY <1>1, <2>2, <2>3 DEF IInv, TypeOK
  <2>10. /\ Way(w[p], outSeqNo[p], inSeqNo[c] + 1, texts[p], si)
         /\ Intact(wire[p], outSeqNo[p], inSeqNo[c]) => Intact(w[p], outSeqNo[p], inSeqNo[c] + 1)
    <3>1. wire[p] # <<>> /\ Num(Head(wire[p])) = inSeqNo[c]
          /\ \/ Head(wire[p]).text > 0 /\ si = Append(shown[c], Head(wire[p]).text)
             \/ ~(Head(wire[p]).text > 0) /\ si = shown[c]
      BY <1>9, <1>12, <2>4 DEF m
    <3>2. wire[p] \in Seq(Messages) /\ outSeqNo[p] \in Nat /\ inSeqNo[c] \in Nat
          /\ texts[p] \in Nat /\ shown[c] \in Seq(Nat) /\ si \in Seq(Nat)
      BY <1>2, <2>4
    <3>3. Way(wire[p], outSeqNo[p], inSeqNo[c], texts[p], shown[c])
      BY <1>3
    <3>4. w[p] \in {wire[p], Tail(wire[p])}
      BY <1>12
    <3> QED
      BY <3>1, <3>2, <3>3, <3>4, WayProcess
  <2>11. WayOf(p)'
    BY <1>1, <1>3, <2>2, <2>9, <2>10 DEF WayOf
  <2>12. WayOf(c)'
    BY <1>1, <1>3, <1>12, <2>2, <2>9 DEF WayOf, p
  <2> QED
    BY <1>1, <2>5, <2>6, <2>7, <2>8, <2>11, <2>12 DEF IInv
<1>14. ASSUME Num(m) # inSeqNo[c]
       PROVE  /\ Way(w[p], outSeqNo[p], inSeqNo[c], texts[p], shown[c])
              /\ ~lost[p] => Num(m) < inSeqNo[c] /\ Intact(w[p], outSeqNo[p], inSeqNo[c])
  BY <1>2, <1>3, <1>12, <1>14, WayDrop DEF m
<1>10. CASE Num(m) > inSeqNo[c]
  <2>1. OnSequenceNumberGap(c, w, m)
    BY <1>2, <1>4, <1>10, <1>12, <1>13 DEF Decrypt
  <2>2. inSeqNo' = inSeqNo /\ shown' = shown
    BY <2>1 DEF OnSequenceNumberGap
  <2>3. lost[p] /\ Way(w[p], outSeqNo[p], inSeqNo[c], texts[p], shown[c])
    BY <1>2, <1>4, <1>10, <1>14
  <2>4. CASE outSeqNo[c] < MaxMessages
    <3> DEFINE r == [start |-> OutSeqNoParam(c), end |-> m.out]
    <3> DEFINE e == Message(c, 0, r)
    <3>1. EncryptAndSend(c, w, 0, r) /\ resends' = [resends EXCEPT ![c] = @ + 1]
      BY <2>1, <2>4 DEF OnSequenceNumberGap
    <3>2. r \in [start : Nat \cup {-1}, end : Nat \cup {-1}] /\ 0 \in 0..MaxTexts
      <4>1. OutSeqNoParam(c) \in Nat
        BY <1>2 DEF OutSeqNoParam, SideBit
      <4>2. m.out \in Nat
        BY <1>4 DEF Messages
      <4> QED
        BY <4>1, <4>2, BoundsAssumption
    <3>3. SentFrom(c, w, e) /\ SavedIsCurrent'
      BY <1>12, <2>2, <3>1, <3>2, SendingEffect
    <3>4. e \in Messages /\ e.text = 0 /\ Num(e) = outSeqNo[c]
      BY <3>2, NewMessage DEF IInv
    <3> HIDE DEF r, e
    <3>5. TypeOK'
      <4>1. resends' \in [Clients -> Nat]
        <5>1. resends \in [Clients -> Nat]
          BY DEF IInv, TypeOK
        <5> QED
          BY <3>1, <5>1
      <4> QED
        BY <2>2, <3>3, <4>1 DEF IInv, TypeOK, SentFrom
    <3>6. wire'[p] = w[p] /\ outSeqNo'[p] = outSeqNo[p]
          /\ wire'[c] = Append(wire[c], e) /\ outSeqNo'[c] = outSeqNo[c] + 1
      BY <1>1, <3>3 DEF SentFrom
    <3>7. NoneRefused'
      <4>1. outSeqNo'[c] >= outSeqNo[c]
        BY <3>3 DEF SentFrom
      <4>2. \A i \in 1..Len(wire'[c]) :
               \/ \E j \in 1..Len(wire[c]) : wire'[c][i] = wire[c][j]
               \/ FromPeer(p, wire'[c][i]) /\ wire'[c][i].in \div 2 = inSeqNo[c]
        BY <3>3 DEF SentFrom, p
      <4> QED
        BY <1>7, <3>5, <3>6, <4>1, <4>2
    <3>8. ResendsNeedLoss'
      <4>1. resends'[p] = resends[p] /\ lost'[Peer(c)] /\ (resends[p] > 0 => lost[Peer(p)])
        BY <1>1, <2>3, <3>1 DEF IInv, TypeOK, ResendsNeedLoss, p
      <4> QED
        BY <1>1, <4>1 DEF ResendsNeedLoss
    <3>9. WayOf(p)'
      BY <1>1, <2>2, <2>3, <3>6 DEF WayOf
    <3>10. WayOf(c)'
      <4>1. /\ Way(Append(wire[c], e), outSeqNo[c] + 1, inSeqNo[p], texts[c], shown[p])
            /\ Intact(wire[c], outSeqNo[c], inSeqNo[p])
                 => Intact(Append(wire[c], e), outSeqNo[c] + 1, inSeqNo[p])
        BY <1>2, <1>3, <3>4, WaySend
      <4> QED
        BY <1>3, <2>2, <3>6, <4>1 DEF WayOf, p
    <3> QED
      BY <1>1, <3>3, <3>5, <3>7, <3>8, <3>9, <3>10 DEF IInv
  <2>5. CASE ~(outSeqNo[c] < MaxMessages)
    <3>1. wire' = w /\ outSeqNo' = outSeqNo /\ saved' = saved /\ resends' = resends
      BY <2>1, <2>5 DEF OnSequenceNumberGap
    <3>2. TypeOK'
      BY <2>2, <3>1 DEF IInv, TypeOK
    <3>3. NoneRefused'
      BY <1>2, <1>7, <1>12, <3>1, <3>2
    <3>4. WayOf(p)'
      BY <1>1, <2>2, <2>3, <3>1 DEF WayOf
    <3>5. WayOf(c)'
      BY <1>1, <1>3, <1>12, <2>2, <3>1 DEF WayOf, p
    <3> QED
      BY <1>1, <2>2, <3>1, <3>2, <3>3, <3>4, <3>5 DEF IInv, SavedIsCurrent, ResendsNeedLoss
  <2> QED
    BY <2>4, <2>5
<1>11. CASE Num(m) < inSeqNo[c]
  <2>1. wire' = w /\ UNCHANGED <<inSeqNo, outSeqNo, saved, shown, resends>>
    BY <1>2, <1>4, <1>5, <1>11, <1>12, <1>13 DEF Decrypt
  <2>2. TypeOK'
    BY <2>1 DEF IInv, TypeOK
  <2>3. NoneRefused'
    BY <1>2, <1>7, <1>12, <2>1, <2>2
  <2>4. Num(m) # inSeqNo[c]
    BY <1>2, <1>4, <1>11
  <2>5. WayOf(p)'
    BY <1>1, <1>14, <2>1, <2>4 DEF WayOf
  <2>6. WayOf(c)'
    BY <1>1, <1>3, <1>12, <2>1 DEF WayOf, p
  <2> QED
    BY <1>1, <2>1, <2>2, <2>3, <2>5, <2>6 DEF IInv, SavedIsCurrent, ResendsNeedLoss
<1> QED
  BY <1>8, <1>9, <1>10, <1>11

LEMMA ReceiveStep ==
  ASSUME IInv, NEW c \in Clients, Receive(c)
  PROVE  IInv'
<1> DEFINE p == Peer(c)
<1>1. p \in Clients /\ p # c
  BY Peers
<1>2. wire[p] # <<>> /\ texts' = texts /\ lost' = lost
  BY DEF Receive
<1>3. wire \in [Clients -> Seq(Messages)] /\ disturbances \in 0..MaxDisturbances
  BY DEF IInv, TypeOK
<1>4. wire[p] \in Seq(Messages)
  BY <1>1, <1>3
<1>5. CASE Decrypt(c, [wire EXCEPT ![p] = Tail(wire[p])], Head(wire[p])) /\ UNCHANGED disturbances
  <2> DEFINE w == [wire EXCEPT ![p] = Tail(wire[p])]
  <2>1. Tail(wire[p]) \in Seq(Messages)
    BY <1>2, <1>4, WayTail
  <2>2. w \in [Clients -> Seq(Messages)] /\ w[c] = wire[c] /\ w[p] = Tail(wire[p])
    BY <1>1, <1>3, <2>1
  <2>3. disturbances' \in 0..MaxDisturbances
    BY <1>3, <1>5
  <2>4. Decrypt(c, w, Head(wire[p]))
    BY <1>5
  <2> HIDE DEF w
  <2> QED
    BY <1>2, <2>2, <2>3, <2>4, DecryptStep
<1>6. CASE /\ disturbances < MaxDisturbances /\ Decrypt(c, wire, Head(wire[p]))
           /\ disturbances' = disturbances + 1
  <2>1. disturbances' \in 0..MaxDisturbances
    BY <1>3, <1>6, BoundsAssumption
  <2> QED
    BY <1>2, <1>3, <1>6, <2>1, DecryptStep
<1> QED
  BY <1>5, <1>6 DEF Receive

\* A step that changes only what is under way, and marks each direction that
\* it disturbs as one that lost messages.
LEMMA DisturbedStep ==
  ASSUME IInv,
         inSeqNo' = inSeqNo, outSeqNo' = outSeqNo, saved' = saved, texts' = texts,
         shown' = shown, resends' = resends, disturbances' \in 0..MaxDisturbances,
         wire' \in [Clients -> Seq(Messages)], lost' \in [Clients -> BOOLEAN],
         \A x \in Clients :
           \/ wire'[x] = wire[x] /\ (lost'[x] <=> lost[x])
           \/ /\ lost'[x]
              /\ \A i \in 1..Len(wire'[x]) : \E j \in 1..Len(wire[x]) : wire'[x][i] = wire[x][j]
  PROVE  IInv'
<1>1. TypeOK'
  BY DEF IInv, TypeOK
<1>2. SavedIsCurrent'
  BY DEF IInv, SavedIsCurrent
<1>3. ASSUME NEW x \in Clients
      PROVE  \A i \in 1..Len(wire'[x]) : \E j \in 1..Len(wire[x]) : wire'[x][i] = wire[x][j]
  OBVIOUS
<1>4. NoneRefused'
  <2> SUFFICES ASSUME NEW x \in Clients
               PROVE  \A i \in DOMAIN wire'[x] :
                        FromPeer(Peer(x), wire'[x][i]) /\ wire'[x][i].in \div 2 <= outSeqNo'[Peer(x)]
    BY DEF NoneRefused
  <2>1. outSeqNo'[Peer(x)] >= outSeqNo[Peer(x)]
    BY Peers, ClientTypes DEF IInv
  <2> QED
    BY <1>1, <1>3, <2>1, StillAccepted
<1>5. ResendsNeedLoss'
  BY Peers DEF IInv, ResendsNeedLoss
<1>6. ASSUME NEW x \in Clients
      PROVE  WayOf(x)'
  <2> DEFINE p == Peer(x)
  <2>1. p \in Clients
    BY Peers
  <2>2. Way(wire[x], outSeqNo[x], inSeqNo[p], texts[x], shown[p])
        /\ (~lost[x] => Intact(wire[x], outSeqNo[x], inSeqNo[p]))
    BY DEF IInv, WayOf
  <2>3. CASE wire'[x] = wire[x] /\ (lost'[x] <=> lost[x])
    BY <2>2, <2>3 DEF WayOf
  <2>4. CASE lost'[x]
    <3>1. wire[x] \in Seq(Messages) /\ outSeqNo[x] \in Nat /\ inSeqNo[p] \in Nat
          /\ texts[x] \in Nat /\ shown[p] \in Seq(Nat)
      BY <2>1, ClientTypes DEF IInv
    <3>2. wire'[x] \in Seq(Messages)
      OBVIOUS
    <3>3. Way(wire'[x], outSeqNo[x], inSeqNo[p], texts[x], shown[p])
      BY <1>3, <2>2, <3>1, <3>2, WayDisturbed
    <3> QED
      BY <2>4, <3>3 DEF WayOf
  <2> QED
    BY <2>3, <2>4
<1> QED
  BY <1>1, <1>2, <1>4, <1>5, <1>6 DEF IInv

LEMMA LoseStep ==
  ASSUME IInv, NEW c \in Clients, Lose(c)
  PROVE  IInv'
<1>1. /\ wire[c] # <<>> /\ wire' = [wire EXCEPT ![c] = Tail(wire[c])]
      /\ lost' = [lost EXCEPT ![c] = TRUE]
      /\ UNCHANGED <<inSeqNo, outSeqNo, saved, texts, shown, resends>>
      /\ disturbances < MaxDisturbances /\ disturbances' = disturbances + 1
  BY DEF Lose, Disturb
<1>2. wire \in [Clients -> Seq(Messages)] /\ lost \in [Clients -> BOOLEAN]
      /\ disturbances \in 0..MaxDisturbances
  BY DEF IInv, TypeOK
<1>3. Tail(wire[c]) \in Seq(Messages)
      /\ \A i \in 1..Len(Tail(wire[c])) : \E j \in 1..Len(wire[c]) : Tail(wire[c])[i] = wire[c][j]
  BY <1>1, <1>2, WayTail
<1>4. wire' \in [Clients -> Seq(Messages)] /\ lost' \in [Clients -> BOOLEAN]
  BY <1>1, <1>2, <1>3
<1>5. disturbances' \in 0..MaxDisturbances
  BY <1>1, <1>2, BoundsAssumption
<1>6. wire'[c] = Tail(wire[c]) /\ lost'[c]
      /\ \A x \in Clients \ {c} : wire'[x] = wire[x] /\ lost'[x] = lost[x]
  BY <1>1, <1>2
<1> QED
  BY <1>1, <1>3, <1>4, <1>5, <1>6, DisturbedStep

LEMMA OvertakeStep ==
  ASSUME IInv, NEW c \in Clients, Overtake(c)
  PROVE  IInv'
<1> DEFINE q == wire[c]
<1> DEFINE v == <<q[2], q[1]>> \o SubSeq(q, 3, Len(q))
<1>1. /\ Len(q) > 1 /\ wire' = [wire EXCEPT ![c] = v]
      /\ lost' = [lost EXCEPT ![c] = TRUE]
      /\ UNCHANGED <<inSeqNo, outSeqNo, saved, texts, shown, resends>>
      /\ disturbances < MaxDisturbances /\ disturbances' = disturbances + 1
  BY DEF Overtake, Disturb
<1>2. wire \in [Clients -> Seq(Messages)] /\ lost \in [Clients -> BOOLEAN]
      /\ disturbances \in 0..MaxDisturbances /\ q \in Seq(Messages)
  BY DEF IInv, TypeOK
<1> HIDE DEF q
<1>3. v \in Seq(Messages) /\ \A i \in 1..Len(v) : \E j \in 1..Len(q) : v[i] = q[j]
  <2>1. Len(q) \in Nat /\ 1 \in 1..Len(q) /\ 2 \in 1..Len(q)
    BY <1>1, <1>2, LenProperties
  <2>2. q[1] \in Messages /\ q[2] \in Messages
    BY <1>2, <2>1, ElementOfSeq
  <2> DEFINE a == <<q[2], q[1]>>
  <2> DEFINE b == SubSeq(q, 3, Len(q))
  <2>3. a \in Seq(Messages) /\ Len(a) = 2 /\ a[1] = q[2] /\ a[2] = q[1]
    BY <2>2
  <2>4. b \in Seq(Messages) /\ Len(b) \in Nat
        /\ \A i \in 1..Len(b) : i + 2 \in 1..Len(q) /\ b[i] = q[i + 2]
    <3>1. \A i \in 3..Len(q) : q[i] \in Messages
      BY <1>2, <2>1, ElementOfSeq
    <3>2. b \in Seq(Messages) /\ Len(b) = (IF 3 <= Len(q) THEN Len(q) - 3 + 1 ELSE 0)
          /\ \A i \in 1..Len(b) : b[i] = q[3 + i - 1]
      BY <1>2, <2>1, <3>1, SubSeqProperties
    <3> QED
      BY <2>1, <3>2
  <2> HIDE DEF a, b
  <2>5. a \o b \in Seq(Messages) /\ Len(a \o b) = Len(a) + Len(b)
        /\ \A i \in 1..Len(a) + Len(b) : (a \o b)[i] = IF i <= Len(a) THEN a[i] ELSE b[i - Len(a)]
    BY <2>3, <2>4, ConcatProperties
  <2>6. ASSUME NEW i \in 1..Len(a \o b)
        PROVE  \E j \in 1..Len(q) : (a \o b)[i] = q[j]
    <3>1. CASE i = 1
      BY <2>1, <2>3, <2>4, <2>5, <3>1
    <3>2. CASE i = 2
      BY <2>1, <2>3, <2>4, <2>5, <3>2
    <3>3. CASE i > 2
      <4>1. i - 2 \in 1..Len(b) /\ (a \o b)[i] = b[i - 2]
        BY <2>3, <2>4, <2>5, <3>3
      <4>2. (i - 2) + 2 \in 1..Len(q) /\ b[i - 2] = q[(i - 2) + 2]
        BY <2>4, <4>1
      <4> QED
        BY <4>1, <4>2
    <3> QED
      BY <2>3, <2>4, <2>5, <3>1, <3>2, <3>3
  <2> QED
    BY <2>5, <2>6 DEF a, b
<1> HIDE DEF v
<1>4. wire' \in [Clients -> Seq(Messages)] /\ lost' \in [Clients -> BOOLEAN]
  BY <1>1, <1>2, <1>3
<1>5. disturbances' \in 0..MaxDisturbances
  BY <1>1, <1>2, BoundsAssumption
<1>6. wire'[c] = v /\ lost'[c]
      /\ \A x \in Clients \ {c} : wire'[x] = wire[x] /\ lost'[x] = lost[x]
  BY <1>1, <1>2
<1> QED
  BY <1>1, <1>3, <1>4, <1>5, <1>6, DisturbedStep DEF q

\* What a kill takes away are the last messages sent and the first received;
\* the counts it starts again with are those it had.
LEMMA KillStep ==
  ASSUME IInv, NEW c \in Clients, Kill(c)
  PROVE  IInv'
<1> DEFINE d == Peer(c)
<1>1. PICK written \in 0..Len(wire[c]), missed \in 0..Len(wire[d]) :
        /\ wire' = [wire EXCEPT ![c] = SubSeq(@, 1, written),
                                ![d] = SubSeq(@, missed + 1, Len(@))]
        /\ lost' = [lost EXCEPT ![c] = @ \/ written < Len(wire[c]),
                                ![d] = @ \/ missed > 0]
  BY DEF Kill
<1>2. /\ inSeqNo' = [inSeqNo EXCEPT ![c] = saved[c].in]
      /\ outSeqNo' = [outSeqNo EXCEPT ![c] = saved[c].out]
      /\ UNCHANGED <<saved, texts, shown, resends>>
      /\ disturbances < MaxDisturbances /\ disturbances' = disturbances + 1
  BY DEF Kill, Disturb
<1>3. d \in Clients /\ d # c /\ Clients = {c, d}
  BY Peers
<1>4. /\ wire \in [Clients -> Seq(Messages)] /\ lost \in [Clients -> BOOLEAN]
      /\ disturbances \in 0..MaxDisturbances
      /\ inSeqNo \in [Clients -> Nat] /\ outSeqNo \in [Clients -> Nat]
  BY DEF IInv, TypeOK
<1> DEFINE q == wire[c]
<1> DEFINE e == wire[d]
<1> DEFINE v == SubSeq(q, 1, written)
<1> DEFINE u == SubSeq(e, missed + 1, Len(e))
<1>5. q \in Seq(Messages) /\ e \in Seq(Messages) /\ Len(q) \in Nat /\ Len(e) \in Nat
  BY <1>3, <1>4, LenProperties
<1>6. inSeqNo' = inSeqNo /\ outSeqNo' = outSeqNo
  <2>1. saved[c].in = inSeqNo[c] /\ saved[c].out = outSeqNo[c]
    BY DEF IInv, SavedIsCurrent
  <2> QED
    BY <1>2, <1>4, <2>1
<1> HIDE DEF d
<1>7. wire'[c] = v /\ wire'[d] = u
  BY <1>1, <1>3, <1>4
<1>8. wire' = [wire EXCEPT ![c] = v, ![d] = u]
  BY <1>1, <1>3
<1>9. lost' \in [Clients -> BOOLEAN]
      /\ (lost'[c] <=> (lost[c] \/ written < Len(q)))
      /\ (lost'[d] <=> (lost[d] \/ missed > 0))
  BY <1>1, <1>3, <1>4, Zenon
<1> HIDE DEF q, e
<1>10. v \in Seq(Messages)
       /\ (\A i \in 1..Len(v) : \E j \in 1..Len(q) : v[i] = q[j])
       /\ (written = Len(q) => v = q)
  <2>1. \A i \in 1..written : q[i] \in Messages /\ i \in 1..Len(q)
    <3> SUFFICES ASSUME NEW i \in 1..written
                 PROVE  q[i] \in Messages /\ i \in 1..Len(q)
      OBVIOUS
    <3>1. written \in 0..Len(q)
      BY DEF q
    <3>2. i \in 1..Len(q)
      BY <1>5, <3>1
    <3> QED
      BY <1>5, <3>2, ElementOfSeq
  <2>2. v \in Seq(Messages) /\ Len(v) = (IF 1 <= written THEN written - 1 + 1 ELSE 0)
        /\ \A i \in 1..written - 1 + 1 : v[i] = q[1 + i - 1]
    BY <1>5, <2>1, SubSeqProperties
  <2>3. \A i \in 1..Len(v) : i \in 1..Len(q) /\ v[i] = q[i]
    BY <1>5, <2>1, <2>2
  <2>4. written = Len(q) => v = q
    BY <1>5, SubSeqFull
  <2> QED
    BY <2>2, <2>3, <2>4
<1>11. u \in Seq(Messages)
       /\ (\A i \in 1..Len(u) : \E j \in 1..Len(e) : u[i] = e[j])
       /\ (missed = 0 => u = e)
  <2>1. \A i \in missed + 1..Len(e) : e[i] \in Messages
    BY <1>5, ElementOfSeq
  <2>2. u \in Seq(Messages) /\ Len(u) = (IF missed + 1 <= Len(e) THEN Len(e) - (missed + 1) + 1 ELSE 0)
        /\ \A i \in 1..Len(e) - (missed + 1) + 1 : u[i] = e[missed + 1 + i - 1]
    BY <1>5, <2>1, SubSeqProperties
  <2>3. \A i \in 1..Len(u) : missed + i \in 1..Len(e) /\ u[i] = e[missed + i]
    BY <1>5, <2>2
  <2>4. missed = 0 => u = e
    BY <1>5, SubSeqFull
  <2> QED
    BY <2>2, <2>3, <2>4
<1> HIDE DEF v, u
<1>12. wire' \in [Clients -> Seq(Messages)]
  BY <1>4, <1>8, <1>10, <1>11
<1>13. \/ wire'[c] = wire[c] /\ (lost'[c] <=> lost[c])
       \/ /\ lost'[c]
          /\ \A i \in 1..Len(wire'[c]) : \E j \in 1..Len(wire[c]) : wire'[c][i] = wire[c][j]
  <2>1. CASE written = Len(q)
    BY <1>5, <1>7, <1>9, <1>10, <2>1 DEF q
  <2>2. CASE written < Len(q)
    BY <1>7, <1>9, <1>10, <2>2 DEF q
  <2> QED
    BY <1>5, <2>1, <2>2 DEF q
<1>14. \/ wire'[d] = wire[d] /\ (lost'[d] <=> lost[d])
       \/ /\ lost'[d]
          /\ \A i \in 1..Len(wire'[d]) : \E j \in 1..Len(wire[d]) : wire'[d][i] = wire[d][j]
  <2>1. CASE missed = 0
    BY <1>5, <1>7, <1>9, <1>11, <2>1 DEF e
  <2>2. CASE missed > 0
    BY <1>7, <1>9, <1>11, <2>2 DEF e
  <2> QED
    BY <1>5, <2>1, <2>2 DEF e
<1>15. disturbances' \in 0..MaxDisturbances
  BY <1>2, <1>4, BoundsAssumption
<1>16. ASSUME NEW x \in Clients
       PROVE  \/ wire'[x] = wire[x] /\ (lost'[x] <=> lost[x])
              \/ /\ lost'[x]
                 /\ \A i \in 1..Len(wire'[x]) : \E j \in 1..Len(wire[x]) : wire'[x][i] = wire[x][j]
  <2>1. CASE x = c
    BY <1>13, <2>1, Zenon
  <2>2. CASE x = d
    BY <1>14, <2>2, Zenon
  <2> QED
    BY <1>3, <2>1, <2>2
<1> QED
  BY <1>2, <1>6, <1>9, <1>12, <1>15, <1>16, DisturbedStep

LEMMA InitInvariant ==
  ASSUME Init
  PROVE  IInv
<1>1. \A c \in Clients : NotifyLayer(c) \in Messages /\ NotifyLayer(c).text = 0
        /\ Num(NotifyLayer(c)) = 0 /\ NotifyLayer(c).in \div 2 = 0 /\ FromPeer(Peer(c), NotifyLayer(c))
  <2> SUFFICES ASSUME NEW c \in Clients
               PROVE  NotifyLayer(c) \in Messages /\ NotifyLayer(c).text = 0
        /\ Num(NotifyLayer(c)) = 0 /\ NotifyLayer(c).in \div 2 = 0 /\ FromPeer(Peer(c), NotifyLayer(c))
    OBVIOUS
  <2>1. SideBit(c = Creator) \in {0, 1} /\ SideBit(c # Creator) \in {0, 1}
    BY DEF SideBit
  <2>2. 1 - SideBit(Peer(c) = Creator) = SideBit(c = Creator)
        /\ SideBit(Peer(c) = Creator) = SideBit(c # Creator)
    BY Peers DEF SideBit
  <2> QED
    BY <2>1, <2>2, BoundsAssumption DEF NotifyLayer, Messages, Num, FromPeer, NoRange
<1>2. ASSUME NEW c \in Clients
      PROVE  wire[c] = <<NotifyLayer(c)>> /\ Len(wire[c]) = 1 /\ wire[c][1] = NotifyLayer(c)
             /\ wire[c] \in Seq(Messages) /\ DOMAIN wire[c] = 1..1 /\ shown[c] = <<>> /\ Len(shown[c]) = 0
             /\ inSeqNo[c] = 0 /\ outSeqNo[c] = 1 /\ texts[c] = 0
  BY <1>1 DEF Init
<1>3. TypeOK
  BY <1>1, BoundsAssumption DEF Init, TypeOK
<1>4. SavedIsCurrent
  BY DEF Init, SavedIsCurrent
<1>5. NoneRefused
  <2> SUFFICES ASSUME NEW c \in Clients, NEW i \in DOMAIN wire[c]
               PROVE  FromPeer(Peer(c), wire[c][i]) /\ wire[c][i].in \div 2 <= outSeqNo[Peer(c)]
    BY DEF NoneRefused
  <2>1. wire[c][i] = NotifyLayer(c) /\ outSeqNo[Peer(c)] = 1
    BY <1>2, Peers
  <2> QED
    BY <1>1, <2>1
<1>6. ResendsNeedLoss
  BY DEF Init, ResendsNeedLoss
<1>7. ASSUME NEW c \in Clients
      PROVE  WayOf(c)
  <2>1. inSeqNo[Peer(c)] = 0 /\ shown[Peer(c)] = <<>> /\ Len(shown[Peer(c)]) = 0
    BY <1>2, Peers
  <2>2. \A i \in 1..Len(wire[c]) : i = 1 /\ wire[c][i].text = 0 /\ Num(wire[c][i]) = 0
    <3>1. \A i \in 1..Len(wire[c]) : i = 1
      <4>1. Len(wire[c]) = 1
        BY <1>2
      <4> QED
        BY <4>1
    <3> DEFINE n == NotifyLayer(c)
    <3>2. wire[c][1] = n /\ n.text = 0 /\ Num(n) = 0
      BY <1>1, <1>2
    <3> HIDE DEF n
    <3> QED
      BY <3>1, <3>2
  <2>3. Way(wire[c], outSeqNo[c], inSeqNo[Peer(c)], texts[c], shown[Peer(c)])
    BY <1>2, <2>1, <2>2 DEF Way
  <2>4. Intact(wire[c], outSeqNo[c], inSeqNo[Peer(c)])
    BY <1>2, <2>1, <2>2 DEF Intact
  <2> QED
    BY <2>3, <2>4 DEF WayOf
<1> QED
  BY <1>3, <1>4, <1>5, <1>6, <1>7 DEF IInv

-----------------------------------------------------------------------------
(* Theorems.                                                               *)

\* The invariant holds in every state the two clients reach.
THEOREM Invariant == Spec => []IInv
<1>1. Init => IInv
  BY InitInvariant
<1>2. IInv /\ [Next]_vars => IInv'
  <2> SUFFICES ASSUME IInv, [Next]_vars
               PROVE  IInv'
    OBVIOUS
  <2>1. CASE \E c \in Clients : Send(c)
    BY <2>1, SendStep
  <2>2. CASE \E c \in Clients : Receive(c)
    BY <2>2, ReceiveStep
  <2>3. CASE \E c \in Clients : Lose(c)
    BY <2>3, LoseStep
  <2>4. CASE \E c \in Clients : Overtake(c)
    BY <2>4, OvertakeStep
  <2>5. CASE \E c \in Clients : Kill(c)
    BY <2>5, KillStep
  <2>6. CASE UNCHANGED vars
    BY <2>6 DEF vars, IInv, TypeOK, SavedIsCurrent, NoneRefused, ResendsNeedLoss, WayOf, FromPeer
  <2> QED
    BY <2>1, <2>2, <2>3, <2>4, <2>5, <2>6 DEF Next
<1> QED
  BY <1>1, <1>2, PTL DEF Spec

\* The counts of telegram.cpp and of the file, and the messages under way, have
\* their types.
THEOREM TypeCorrect == Spec => []TypeOK
<1>1. IInv => TypeOK
  BY DEF IInv
<1> QED
  BY <1>1, Invariant, PTL

\* The check of decrypter.cpp:132 refuses no message of an honest peer, whatever
\* is lost and whoever is killed.
THEOREM NoneIsRefused == Spec => []NoneRefused
<1>1. IInv => NoneRefused
  BY DEF IInv
<1> QED
  BY <1>1, Invariant, PTL

\* Neither a repeated message nor a restart makes a client ask for messages
\* again (telegram.cpp:531).
THEOREM OnlyLossIsAnswered == Spec => []ResendsNeedLoss
<1>1. IInv => ResendsNeedLoss
  BY DEF IInv
<1> QED
  BY <1>1, Invariant, PTL

\* A text that is processed is one the peer sent, later than all shown.
LEMMA DecryptShows ==
  ASSUME IInv, NEW c \in Clients, NEW w, wire[Peer(c)] # <<>>,
         Decrypt(c, w, Head(wire[Peer(c)])), texts' = texts
  PROVE  Channel!Show(Peer(c), c) \/ shown' = shown
<1> DEFINE p == Peer(c)
<1> DEFINE m == Head(wire[p])
<1>1. p \in Clients /\ wire[p] \in Seq(Messages) /\ Peer(p) = c
  BY Peers, ClientTypes DEF IInv
<1>2. m \in Messages /\ m = wire[p][1] /\ 1 \in 1..Len(wire[p]) /\ m.text \in Nat
  BY <1>1, WayTail
<1>3. Way(wire[p], outSeqNo[p], inSeqNo[c], texts[p], shown[c]) /\ texts[p] \in Nat
  BY <1>1, ClientTypes DEF IInv, WayOf
<1>4. Decrypt(c, w, m)
  OBVIOUS
<1> HIDE DEF p, m
<1>5. CASE Process(c, w, m) /\ IsExpected(c, m) /\ m.text > 0
  <2>1. shown' = [shown EXCEPT ![c] = Append(@, m.text)]
    BY <1>5 DEF Process, ShownWith
  <2>2. m.text \in 1..texts[p]
    <3>1. m.text <= texts[p]
      BY <1>2, <1>3 DEF Way
    <3> QED
      BY <1>2, <1>3, <1>5, <3>1
  <2>3. \A i \in 1..Len(shown[c]) : shown[c][i] < m.text
    <3>1. Num(wire[p][1]) >= inSeqNo[c] /\ wire[p][1].text > 0
      <4>1. Num(m) = inSeqNo[c] /\ inSeqNo[c] \in Nat
        BY <1>5, ClientTypes DEF IsExpected, Num, IInv
      <4> QED
        BY <1>2, <1>5, <4>1
    <3>2. \A i \in 1..Len(shown[c]) : shown[c][i] < wire[p][1].text
      BY <1>2, <1>3, <3>1 DEF Way
    <3> QED
      BY <1>2, <3>2
  <2>4. Channel!Show(p, c)
    BY <2>1, <2>2, <2>3 DEF Channel!Show
  <2> QED
    BY <2>4 DEF p
<1>6. CASE Process(c, w, m) /\ ~(m.text > 0)
  BY <1>6 DEF Process, ShownWith
<1>7. CASE OnSequenceNumberGap(c, w, m)
  BY <1>7 DEF OnSequenceNumberGap
<1>8. CASE UNCHANGED shown
  BY <1>8
<1> QED
  BY <1>4, <1>5, <1>6, <1>7, <1>8 DEF Decrypt

\* The chat implements the channel its users rely on: a text is shown at most
\* once, after it was sent and in the order of sending, over losses, repeats,
\* overtaking and kills.
THEOREM Implements == Spec => ChannelSpec
<1>1. Init => Channel!Init
  BY DEF Init, Channel!Init
<1>2. IInv /\ [Next]_vars => [Channel!Next]_Channel!vars
  <2> SUFFICES ASSUME IInv, [Next]_vars
               PROVE  Channel!Next \/ UNCHANGED <<texts, shown>>
    BY DEF Channel!vars
  <2>1. ASSUME NEW c \in Clients, Send(c)
        PROVE  Channel!Next
    BY <2>1 DEF Send, Channel!Next, Channel!Send
  <2>2. ASSUME NEW c \in Clients, Receive(c)
        PROVE  Channel!Next \/ UNCHANGED <<texts, shown>>
    <3>1. texts' = texts /\ wire[Peer(c)] # <<>>
          /\ \E w : Decrypt(c, w, Head(wire[Peer(c)]))
      BY <2>2 DEF Receive
    <3>2. Channel!Show(Peer(c), c) \/ shown' = shown
      BY <3>1, DecryptShows
    <3>3. Peer(c) \in Clients /\ c \in Clients \ {Peer(c)}
      BY Peers
    <3> QED
      BY <3>1, <3>2, <3>3 DEF Channel!Next
  <2>3. ASSUME NEW c \in Clients, Lose(c) \/ Overtake(c) \/ Kill(c)
        PROVE  UNCHANGED <<texts, shown>>
    BY <2>3 DEF Lose, Overtake, Kill, Disturb
  <2>4. CASE UNCHANGED vars
    BY <2>4 DEF vars
  <2> QED
    BY <2>1, <2>2, <2>3, <2>4 DEF Next
<1> QED
  BY <1>1, <1>2, Invariant, PTL DEF Spec, ChannelSpec, Channel!Spec
=============================================================================
