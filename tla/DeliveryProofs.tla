--------------------------- MODULE DeliveryProofs ---------------------------
(***************************************************************************)
(* Two promises of delivery.  The three stream writers implement           *)
(* OrderedStream, for any numbers of packets, bytes and errors and any     *)
(* reordering window.  And the outbox of the receipt acknowledgements      *)
(* keeps what it has taken, for any streams, batch, faults and restarts.   *)
(* The two models share no variable and no definition.                     *)
(***************************************************************************)
EXTENDS StreamWriter, ReceiptOutbox, WellFoundedInduction, TLAPS

----------------------------------------------------------------------------
(* Least numbers and sequences.                                            *)

\* A set of naturals has a least element.
LEMMA LeastNumber ==
  ASSUME NEW T \in SUBSET Nat, T # {} PROVE \E n \in T : \A m \in T : n <= m
<1>1. IsWellFoundedOn(OpToRel(<, Nat), Nat)
  BY NatLessThanWellFounded
<1>2. PICK n \in T : \A m \in T : ~(<<m, n>> \in OpToRel(<, Nat))
  BY <1>1, WFMin
<1>3. ASSUME NEW m \in T PROVE n <= m
  <2>1. <<m, n>> \notin OpToRel(<, Nat)
    BY <1>2
  <2>2. ~(m < n)
    BY <2>1, Zenon DEF OpToRel
  <2> QED BY <2>2
<1> QED BY <1>3

\* Sequences are equal when their elements are.
LEMMA SeqEqual ==
  ASSUME NEW S, NEW s \in Seq(S), NEW t \in Seq(S), Len(s) = Len(t), \A i \in 1 .. Len(s) : s[i] = t[i]
  PROVE  s = t
OBVIOUS

\* What concatenation and SubSeq return.
LEMMA ConcatProperties ==
  ASSUME NEW S, NEW s \in Seq(S), NEW t \in Seq(S)
  PROVE  /\ s \o t \in Seq(S) /\ Len(s \o t) = Len(s) + Len(t)
         /\ \A i \in 1 .. Len(s) + Len(t) : (s \o t)[i] = IF i <= Len(s) THEN s[i] ELSE t[i - Len(s)]
OBVIOUS

LEMMA EmptySeq == ASSUME NEW S PROVE <<>> \in Seq(S) /\ Len(<<>>) = 0
OBVIOUS

LEMMA ConcatEmptySeq ==
  ASSUME NEW S, NEW s \in Seq(S) PROVE s \o <<>> = s /\ <<>> \o s = s
<1>1. <<>> \in Seq(S) /\ Len(<<>>) = 0
  OBVIOUS
<1>2. s \o <<>> = s
  BY <1>1, ConcatProperties, SeqEqual
<1>3. <<>> \o s = s
  BY <1>1, ConcatProperties, SeqEqual
<1> QED BY <1>2, <1>3

LEMMA SubSeqFull ==
  ASSUME NEW S, NEW s \in Seq(S) PROVE SubSeq(s, 1, Len(s)) = s
<1>1. SubSeq(s, 1, Len(s)) \in Seq(S) /\ Len(SubSeq(s, 1, Len(s))) = Len(s)
      /\ \A i \in 1 .. Len(s) : SubSeq(s, 1, Len(s))[i] = s[i]
  OBVIOUS
<1> QED BY <1>1, SeqEqual

LEMMA SubSeqEmpty == ASSUME NEW s PROVE SubSeq(s, 1, 0) = <<>>
OBVIOUS

----------------------------------------------------------------------------
(* What Flat computes.                                                     *)

\* g is the function that Flat(b, k) unfolds.
Flattens(g, b, k) == g = [i \in 0 .. k |-> IF i = 0 THEN <<>> ELSE g[i - 1] \o b[i]]

LEMMA FlatUnfolds == ASSUME NEW b, NEW k PROVE Flat(b, k) = (CHOOSE g : Flattens(g, b, k))[k]
BY Zenon DEF Flat, Flattens

\* That function exists, by induction on k.
LEMMA FlattensExists ==
  ASSUME NEW b, NEW k \in Nat PROVE Flattens(CHOOSE g : Flattens(g, b, k), b, k)
<1> SUFFICES \E g : Flattens(g, b, k)
  OBVIOUS
<1> DEFINE bad == {m \in Nat : ~ \E g : Flattens(g, b, m)}
<1> SUFFICES ASSUME bad # {} PROVE FALSE
  OBVIOUS
<1>1. PICK m \in bad : \A n \in bad : m <= n
  <2>1. bad \in SUBSET Nat
    OBVIOUS
  <2> HIDE DEF bad
  <2> QED BY <2>1, LeastNumber
<1>2. CASE m = 0
  <2> DEFINE g == [i \in 0 .. m |-> <<>>]
  <2>1. Flattens(g, b, m)
    BY <1>2 DEF Flattens
  <2> QED BY <2>1
<1>3. CASE m # 0
  <2>1. m \in Nat /\ m - 1 \in Nat /\ m - 1 \notin bad
    BY <1>1, <1>3
  <2>2. PICK h : Flattens(h, b, m - 1)
    BY <2>1
  <2> DEFINE value(f, i) == IF i = 0 THEN <<>> ELSE f[i - 1] \o b[i]
             g == [i \in 0 .. m |-> value(h, i)]
  <2>3. ASSUME NEW i \in 0 .. m - 1 PROVE g[i] = h[i]
    <3>1. i \in 0 .. m
      BY <2>1
    <3>2. h[i] = value(h, i)
      BY Zenon, <2>2 DEF Flattens
    <3> QED BY <3>1, <3>2
  <2>4. ASSUME NEW i \in 0 .. m PROVE value(g, i) = value(h, i)
    <3>1. CASE i = 0
      BY <3>1
    <3>2. CASE i # 0
      <4>1. i - 1 \in 0 .. m - 1
        BY <2>1, <3>2
      <4>2. g[i - 1] = h[i - 1]
        BY Zenon, <2>3, <4>1
      <4> HIDE DEF g
      <4> QED BY <3>2, <4>2
    <3> QED BY <3>1, <3>2
  <2>5. g = [i \in 0 .. m |-> value(g, i)]
    BY Zenon, <2>4
  <2>6. Flattens(g, b, m)
    <3> HIDE DEF g
    <3> QED BY Zenon, <2>5 DEF Flattens
  <2> QED BY <2>6
<1> QED BY <1>2, <1>3

\* It depends only on the elements up to k.
LEMMA FlattensUnique ==
  ASSUME NEW b, NEW k \in Nat, NEW j \in 0 .. k, NEW g, NEW h, Flattens(g, b, j), Flattens(h, b, k)
  PROVE  \A i \in 0 .. j : g[i] = h[i]
<1> DEFINE bad == {i \in 0 .. j : g[i] # h[i]}
<1> SUFFICES ASSUME bad # {} PROVE FALSE
  OBVIOUS
<1>1. PICK m \in bad : \A n \in bad : m <= n
  <2>1. bad \in SUBSET Nat
    OBVIOUS
  <2> HIDE DEF bad
  <2> QED BY <2>1, LeastNumber
<1>2. m \in 0 .. j /\ m \in 0 .. k /\ g[m] # h[m]
  BY <1>1
<1>3. /\ g[m] = IF m = 0 THEN <<>> ELSE g[m - 1] \o b[m]
      /\ h[m] = IF m = 0 THEN <<>> ELSE h[m - 1] \o b[m]
  BY Zenon, <1>2 DEF Flattens
<1>4. m # 0 /\ g[m - 1] # h[m - 1]
  BY <1>2, <1>3
<1>5. m - 1 \in bad
  BY <1>2, <1>4
<1> QED BY <1>1, <1>2, <1>5

LEMMA FlatNone == ASSUME NEW b PROVE Flat(b, 0) = <<>>
<1> DEFINE h == CHOOSE g : Flattens(g, b, 0)
<1>1. Flattens(h, b, 0) /\ Flat(b, 0) = h[0]
  BY FlattensExists, FlatUnfolds
<1>2. 0 \in 0 .. 0
  OBVIOUS
<1> HIDE DEF h
<1> QED BY Zenon, <1>1, <1>2 DEF Flattens

\* One more element.
LEMMA FlatNext == ASSUME NEW b, NEW n \in Nat \ {0} PROVE Flat(b, n) = Flat(b, n - 1) \o b[n]
<1> DEFINE h == CHOOSE g : Flattens(g, b, n)
           f == CHOOSE g : Flattens(g, b, n - 1)
<1>1. Flattens(h, b, n) /\ Flattens(f, b, n - 1)
  BY FlattensExists
<1>2. Flat(b, n) = h[n] /\ Flat(b, n - 1) = f[n - 1]
  BY FlatUnfolds, Zenon
<1> HIDE DEF h, f
<1>3. n \in 0 .. n /\ n # 0 /\ n - 1 \in 0 .. n /\ n - 1 \in 0 .. n - 1 /\ n \in Nat
  OBVIOUS
<1>4. h[n] = h[n - 1] \o b[n]
  BY Zenon, <1>1, <1>3 DEF Flattens
<1>5. f[n - 1] = h[n - 1]
  <2>1. \A i \in 0 .. n - 1 : f[i] = h[i]
    BY <1>1, <1>3, FlattensUnique
  <2> QED BY <1>3, <2>1
<1> QED BY Zenon, <1>2, <1>4, <1>5

\* The elements are sequences: so is the result.
LEMMA FlatType ==
  ASSUME NEW S, NEW b, NEW k \in Nat, \A n \in 1 .. k : b[n] \in Seq(S)
  PROVE  Flat(b, k) \in Seq(S)
<1> DEFINE bad == {i \in 0 .. k : Flat(b, i) \notin Seq(S)}
<1> SUFFICES ASSUME bad # {} PROVE FALSE
  OBVIOUS
<1>1. PICK m \in bad : \A n \in bad : m <= n
  <2>1. bad \in SUBSET Nat
    OBVIOUS
  <2> HIDE DEF bad
  <2> QED BY <2>1, LeastNumber
<1>2. m \in 0 .. k /\ Flat(b, m) \notin Seq(S)
  BY <1>1
<1>3. m # 0
  BY Zenon, <1>2, FlatNone, EmptySeq
<1>4. m \in Nat \ {0} /\ m - 1 \in 0 .. k /\ m \in 1 .. k /\ m - 1 \notin bad
  BY <1>1, <1>2, <1>3
<1>5. Flat(b, m - 1) \in Seq(S)
  BY <1>4
<1>6. Flat(b, m) = Flat(b, m - 1) \o b[m] /\ b[m] \in Seq(S)
  BY Zenon, <1>4, FlatNext
<1> QED BY <1>2, <1>5, <1>6, ConcatProperties

\* Beginnings of a concatenation.
LEMMA PrefixStays ==
  ASSUME NEW S, NEW s \in Seq(S), NEW t \in Seq(S), NEW j \in 0 .. Len(s)
  PROVE  SubSeq(s \o t, 1, j) = SubSeq(s, 1, j) /\ j \in 0 .. Len(s \o t)
OBVIOUS

LEMMA PrefixOfConcat ==
  ASSUME NEW S, NEW s \in Seq(S), NEW t \in Seq(S), NEW k \in 0 .. Len(t)
  PROVE  /\ s \o SubSeq(t, 1, k) = SubSeq(s \o t, 1, Len(s) + k)
         /\ Len(s) + k \in 0 .. Len(s \o t)
OBVIOUS

\* A beginning of one of the elements after those before it is a beginning of the whole.
LEMMA FlatPrefix ==
  ASSUME NEW S, NEW b, NEW m \in Nat, \A n \in 1 .. m : b[n] \in Seq(S),
         NEW d \in 0 .. m - 1, NEW k \in 0 .. Len(b[d + 1])
  PROVE  LET j == Len(Flat(b, d)) + k
         IN  /\ j \in 0 .. Len(Flat(b, m))
             /\ Flat(b, d) \o SubSeq(b[d + 1], 1, k) = SubSeq(Flat(b, m), 1, j)
<1> DEFINE s == Flat(b, d)
           t == b[d + 1]
           j == Len(s) + k
           Begins(n) == j \in 0 .. Len(Flat(b, n)) /\ s \o SubSeq(t, 1, k) = SubSeq(Flat(b, n), 1, j)
           bad == {n \in d + 1 .. m : ~Begins(n)}
<1> SUFFICES ASSUME bad # {} PROVE FALSE
  OBVIOUS
<1>1. PICK n \in bad : \A i \in bad : n <= i
  <2>1. bad \in SUBSET Nat
    OBVIOUS
  <2> HIDE DEF bad
  <2> QED BY <2>1, LeastNumber
<1>2. n \in d + 1 .. m /\ n \in Nat /\ ~Begins(n) /\ n \in Nat \ {0} /\ b[n] \in Seq(S) /\ n \in 1 .. m
  BY <1>1
<1>3. \A i \in 0 .. m : Flat(b, i) \in Seq(S)
  BY FlatType
<1>4. Flat(b, n) = Flat(b, n - 1) \o b[n]
  BY Zenon, <1>2, FlatNext
<1>5. s \in Seq(S) /\ t \in Seq(S) /\ Flat(b, n - 1) \in Seq(S) /\ k \in Nat /\ k <= Len(t)
      /\ Len(s) \in Nat /\ Len(t) \in Nat
  <2>1. d \in 0 .. m /\ n - 1 \in 0 .. m /\ d + 1 \in 1 .. m
    BY <1>2
  <2>2. s \in Seq(S) /\ t \in Seq(S) /\ Flat(b, n - 1) \in Seq(S)
    BY <1>3, <2>1
  <2>3. k \in 0 .. Len(t)
    OBVIOUS
  <2> HIDE DEF s, t
  <2> QED BY <2>2, <2>3
<1> HIDE DEF s, t, bad
<1>6. CASE n = d + 1
  <2>1. Flat(b, n) = s \o t
    BY <1>4, <1>6 DEF s, t
  <2>2. s \o SubSeq(t, 1, k) = SubSeq(s \o t, 1, j) /\ j \in 0 .. Len(s \o t)
    BY <1>5, PrefixOfConcat
  <2> QED BY <1>2, <2>1, <2>2
<1>7. CASE n # d + 1
  <2>1. n - 1 \in d + 1 .. m /\ n - 1 \notin bad
    BY <1>1, <1>2, <1>7
  <2>2. Begins(n - 1)
    BY <2>1 DEF bad
  <2> DEFINE u == Flat(b, n - 1)
  <2>3. u \in Seq(S) /\ b[n] \in Seq(S) /\ j \in 0 .. Len(u)
    BY <1>2, <1>5, <2>2
  <2> HIDE DEF u
  <2>4. SubSeq(u \o b[n], 1, j) = SubSeq(u, 1, j) /\ j \in 0 .. Len(u \o b[n])
    <3> HIDE DEF j
    <3> QED BY <2>3, PrefixStays
  <2> QED BY Zenon, <1>2, <1>4, <2>2, <2>4 DEF u
<1> QED BY <1>6, <1>7

----------------------------------------------------------------------------
(* The invariant.                                                          *)

Byte == Nat \X Nat

\* The socket has taken the packets before number d, and k bytes of that one.
Upto(d, k) == Flat(Bytes, d) \o SubSeq(Bytes[d + 1], 1, k)
At(d, k) == written = Upto(d, k)

Over == Ended \/ shuttingDown

Packet == [seq : Numbers, skip : 0 .. MaxBytes]

Types ==
    /\ kind \in {"sorted", "exit", "unsorted"} /\ length \in [Numbers -> 0 .. MaxBytes]
    /\ final \in Numbers
    /\ channel \in Seq(Packet) /\ \A i \in DOMAIN channel : channel[i].skip = 0
    /\ sends \in Nat
    /\ task \in {"parked", "reading", "writing", "done", "failed"}
    /\ shuttingDown \in BOOLEAN /\ closed \in BOOLEAN /\ open \in BOOLEAN
    /\ buffer \in [next : Numbers, exhausted : BOOLEAN, packets : SUBSET Packet]
    /\ \A p \in buffer.packets : p.skip <= length[p.seq]
    /\ shuttingDown => task \in {"parked", "done"} /\ kind # "unsorted"

\* A sorted writer: what is kept is wanted, one packet of each number, and only the next
\* one may be written in part.
Sorted ==
    /\ \A p, q \in buffer.packets : p.seq = q.seq => p = q
    /\ \A p \in buffer.packets : buffer.next <= p.seq /\ (buffer.next = p.seq \/ p.skip = 0)
    /\ ~Over =>
        /\ ~buffer.exhausted /\ buffer.next <= final
        /\ \A p \in Ready(buffer) : At(buffer.next, p.skip)
        /\ Ready(buffer) = {} => At(buffer.next, 0)

\* The unsorted writer: the channel holds the packets after the one at hand.
Unsorted ==
    LET next == sends - Len(channel)
    IN /\ sends <= MaxSequence + 1 /\ Len(channel) <= sends
       /\ \A i \in DOMAIN channel : channel[i].seq = next + i - 1
       /\ \/ buffer.packets = {} /\ At(next, 0)
          \/ \E p \in buffer.packets : buffer.packets = {p} /\ p.seq = next - 1 /\ At(p.seq, p.skip)

\* The inductive invariant.
WriterInv == Types /\ ~panicked /\ (kind = "unsorted" => Unsorted) /\ (kind # "unsorted" => Sorted)

----------------------------------------------------------------------------
(* The content.                                                            *)

LEMMA ContentIsFlat ==
  ASSUME Types PROVE Content = Flat(Bytes, Count) /\ Count \in 1 .. MaxSequence + 1
BY WriterAssumption DEF Content, Types, Count, Numbers

LEMMA BytesType ==
  ASSUME Types, NEW n \in 1 .. MaxSequence + 1
  PROVE  /\ Bytes[n] \in Seq(Byte) /\ Len(Bytes[n]) = length[n - 1] /\ length[n - 1] \in Nat
         /\ \A i \in 1 .. length[n - 1] : Bytes[n][i] = <<n - 1, i>>
<1> USE WriterAssumption
<1>1. n - 1 \in Numbers /\ n - 1 \in Nat
  BY DEF Numbers
<1>2. length[n - 1] \in Nat
  BY <1>1 DEF Types
<1>3. Bytes[n] = [i \in 1 .. length[n - 1] |-> <<n - 1, i>>]
  BY DEF Bytes
<1>4. \A i \in 1 .. length[n - 1] : <<n - 1, i>> \in Byte
  BY <1>1, <1>2 DEF Byte
<1> QED BY <1>2, <1>3, <1>4

\* What is before a place in a packet is a beginning of the content.
LEMMA StandsInContent ==
  ASSUME Types, NEW d \in 0 .. Count - 1, NEW k \in 0 .. length[d]
  PROVE  /\ Len(Upto(d, k)) \in 0 .. Len(Content)
         /\ Upto(d, k) = SubSeq(Content, 1, Len(Upto(d, k)))
         /\ Len(Upto(d, k)) = Len(Flat(Bytes, d)) + k /\ Len(Flat(Bytes, d)) \in Nat
<1> USE WriterAssumption
<1>1. Content = Flat(Bytes, Count) /\ Count \in 1 .. MaxSequence + 1
  BY ContentIsFlat
<1>2. \A n \in 1 .. Count : Bytes[n] \in Seq(Byte)
  BY <1>1, BytesType
<1>3. d + 1 \in 1 .. MaxSequence + 1 /\ k \in 0 .. Len(Bytes[d + 1]) /\ Bytes[d + 1] \in Seq(Byte)
  BY <1>1, BytesType
<1> DEFINE j == Len(Flat(Bytes, d)) + k
<1>4. j \in 0 .. Len(Content) /\ Upto(d, k) = SubSeq(Content, 1, j)
  BY <1>1, <1>2, <1>3, FlatPrefix DEF Upto
<1>5. Flat(Bytes, d) \in Seq(Byte) /\ Content \in Seq(Byte)
  <2>1. d \in Nat /\ \A n \in 1 .. d : Bytes[n] \in Seq(Byte)
    BY <1>1, <1>2
  <2> QED BY <1>1, <1>2, <2>1, FlatType
<1>6. Len(Upto(d, k)) = j
  <2> HIDE DEF j
  <2> QED BY <1>4, <1>5
<1> QED BY <1>4, <1>5, <1>6

\* With its last byte a packet is written.
LEMMA PacketIsWritten ==
  ASSUME Types, NEW d \in 0 .. MaxSequence
  PROVE  Upto(d, length[d]) = Upto(d + 1, 0) /\ Upto(d, length[d]) = Flat(Bytes, d + 1)
<1> USE WriterAssumption
<1>1. d + 1 \in 1 .. MaxSequence + 1 /\ d + 1 \in Nat \ {0} /\ (d + 1) - 1 = d
  OBVIOUS
<1>2. Bytes[d + 1] \in Seq(Byte) /\ Len(Bytes[d + 1]) = length[d]
  BY <1>1, BytesType
<1>3. SubSeq(Bytes[d + 1], 1, length[d]) = Bytes[d + 1]
  BY <1>2, SubSeqFull
<1>4. Flat(Bytes, d + 1) = Flat(Bytes, d) \o Bytes[d + 1]
  BY Zenon, <1>1, <1>2, FlatNext
<1>5. Flat(Bytes, d + 1) \in Seq(Byte)
  <2>1. \A n \in 1 .. d + 1 : Bytes[n] \in Seq(Byte)
    BY BytesType
  <2> QED BY <1>1, <2>1, FlatType
<1>6. SubSeq(Bytes[(d + 1) + 1], 1, 0) = <<>>
  BY SubSeqEmpty
<1> QED BY Zenon, <1>3, <1>4, <1>5, <1>6, ConcatEmptySeq DEF Upto

\* A beginning grows by what comes next.
LEMMA PrefixGrows ==
  ASSUME NEW S, NEW t \in Seq(S), NEW k \in 0 .. Len(t),
         NEW count \in 0 .. Len(t) - k, NEW more \in Seq(S), Len(more) = count,
         \A i \in 1 .. count : more[i] = t[k + i]
  PROVE  SubSeq(t, 1, k) \o more = SubSeq(t, 1, k + count)
<1> DEFINE first == SubSeq(t, 1, k)
<1>1. k \in Nat /\ count \in Nat /\ Len(t) \in Nat /\ k + count <= Len(t)
  OBVIOUS
<1>2. first \in Seq(S) /\ Len(first) = k /\ \A i \in 1 .. k : first[i] = t[i]
  BY <1>1
<1>3. SubSeq(t, 1, k + count) \in Seq(S) /\ Len(SubSeq(t, 1, k + count)) = k + count
      /\ \A i \in 1 .. k + count : SubSeq(t, 1, k + count)[i] = t[i]
  BY <1>1
<1> HIDE DEF first
<1>4. first \o more \in Seq(S) /\ Len(first \o more) = k + count
  BY Zenon, <1>1, <1>2, ConcatProperties
<1>5. ASSUME NEW i \in 1 .. k + count PROVE (first \o more)[i] = t[i]
  <2>1. (first \o more)[i] = IF i <= k THEN first[i] ELSE more[i - k]
    BY Zenon, <1>1, <1>2, ConcatProperties
  <2>2. CASE i <= k
    BY <1>1, <1>2, <2>1, <2>2
  <2>3. CASE ~(i <= k)
    <3>1. i - k \in 1 .. count /\ k + (i - k) = i
      BY <1>1, <2>3
    <3>2. more[i - k] = t[k + (i - k)]
      BY <3>1
    <3> QED BY <2>1, <2>3, <3>1, <3>2
  <2> QED BY Zenon, <2>2, <2>3
<1> QED BY <1>3, <1>4, <1>5, SeqEqual DEF first

\* Concatenation is associative.
LEMMA Regrouped == \A s, t, u \in Seq(Byte) : (s \o t) \o u = s \o (t \o u)
<1> SUFFICES ASSUME NEW s \in Seq(Byte), NEW t \in Seq(Byte), NEW u \in Seq(Byte)
             PROVE  (s \o t) \o u = s \o (t \o u)
  OBVIOUS
<1>1. s \o t \in Seq(Byte) /\ t \o u \in Seq(Byte) /\ (s \o t) \o u \in Seq(Byte) /\ s \o (t \o u) \in Seq(Byte)
      /\ Len((s \o t) \o u) = Len(s \o (t \o u))
  OBVIOUS
<1>2. ASSUME NEW i \in 1 .. Len(s \o (t \o u)) PROVE ((s \o t) \o u)[i] = (s \o (t \o u))[i]
  BY <1>1, ConcatProperties
<1> QED BY <1>1, <1>2, SeqEqual

\* The socket takes some more bytes of a packet.
LEMMA MoreBytes ==
  ASSUME Types, NEW d \in 0 .. MaxSequence, NEW k \in 0 .. length[d],
         NEW count \in 0 .. length[d] - k
  PROVE  Upto(d, k) \o [i \in 1 .. count |-> <<d, k + i>>] = Upto(d, k + count)
<1> USE WriterAssumption
<1> DEFINE more == [i \in 1 .. count |-> <<d, k + i>>]
           s == Flat(Bytes, d)
           t == Bytes[d + 1]
<1>1. d + 1 \in 1 .. MaxSequence + 1 /\ (d + 1) - 1 = d
  OBVIOUS
<1>2. /\ t \in Seq(Byte) /\ Len(t) = length[d] /\ length[d] \in Nat
      /\ \A i \in 1 .. length[d] : t[i] = <<d, i>>
  BY <1>1, BytesType
<1>0. k \in Nat /\ count \in Nat /\ k + count <= length[d] /\ length[d] \in Nat
  BY <1>2
<1>3. s \in Seq(Byte)
  <2>1. \A n \in 1 .. d : Bytes[n] \in Seq(Byte)
    BY BytesType
  <2> QED BY <2>1, FlatType
<1>4. more \in Seq(Byte) /\ Len(more) = count /\ \A i \in 1 .. count : more[i] = t[k + i]
  <2>1. d \in Nat /\ \A i \in 1 .. count : k + i \in Nat /\ k + i \in 1 .. length[d]
    BY <1>0
  <2>2. \A i \in 1 .. count : <<d, k + i>> \in Byte
    BY <2>1 DEF Byte
  <2>3. more \in Seq(Byte) /\ Len(more) = count
    <3>1. more \in [1 .. count -> Byte]
      BY <2>2
    <3> HIDE DEF more
    <3> QED BY <1>0, <3>1
  <2> QED BY Zenon, <1>2, <2>1, <2>3
<1>5. (s \o SubSeq(t, 1, k)) \o more = s \o SubSeq(t, 1, k + count)
  <2> HIDE DEF s, t, more
  <2>1. k \in 0 .. Len(t) /\ count \in 0 .. Len(t) - k /\ more \in Seq(Byte)
    BY <1>0, <1>2, <1>4
  <2>2. SubSeq(t, 1, k) \o more = SubSeq(t, 1, k + count)
    BY Zenon, <1>2, <1>4, <2>1, PrefixGrows
  <2>3. SubSeq(t, 1, k) \in Seq(Byte)
    BY <1>0, <1>2
  <2>4. (s \o SubSeq(t, 1, k)) \o more = s \o (SubSeq(t, 1, k) \o more)
    BY <1>3, <2>1, <2>3, Regrouped, Zenon
  <2> QED BY <2>2, <2>4, Zenon
<1> QED BY Zenon, <1>5 DEF Upto

----------------------------------------------------------------------------
(* The steps.                                                              *)

\* The packets' bytes do not change.
LEMMA UptoStays ==
  ASSUME UNCHANGED length, NEW d, NEW k PROVE Upto(d, k)' = Upto(d, k)
BY DEF Upto, Bytes, Flat

\* A writer starts with nothing written.
LEMMA WriterStarts == ASSUME WriterInit PROVE WriterInv
<1> USE WriterAssumption DEF WriterInit
<1>1. Types
  <2>1. channel \in Seq(Packet) /\ DOMAIN channel = {}
    BY EmptySeq
  <2>2. buffer \in [next : Numbers, exhausted : BOOLEAN, packets : SUBSET Packet] /\ buffer.packets = {}
    BY DEF EmptyBuffer, Numbers
  <2> QED BY <2>1, <2>2, Zenon DEF Types
<1>2. At(0, 0)
  <2>1. Flat(Bytes, 0) = <<>>
    BY FlatNone
  <2>2. SubSeq(Bytes[0 + 1], 1, 0) = <<>>
    BY SubSeqEmpty
  <2>3. <<>> \o <<>> = <<>>
    BY EmptySeq, ConcatEmptySeq
  <2> QED BY <2>1, <2>2, <2>3 DEF At, Upto
<1>3. Unsorted
  BY <1>2 DEF Unsorted, EmptyBuffer
<1>4. Sorted
  BY <1>2 DEF Sorted, EmptyBuffer, Ready, Numbers
<1> QED BY <1>1, <1>3, <1>4 DEF WriterInv

\* The packet that a writer is at: the socket has what is before it, and its beginning.
LEMMA WritingAt ==
  ASSUME WriterInv, NEW p \in buffer.packets, Writing(p)
  PROVE  /\ p \in Packet /\ p.skip \in 0 .. length[p.seq] /\ length[p.seq] \in Nat /\ p.seq \in Numbers
         /\ ~Over /\ At(p.seq, p.skip) /\ p.seq \in 0 .. Count - 1
         /\ task \in {"reading", "writing"}
         /\ kind = "unsorted" => buffer.packets = {p} /\ p.seq = sends - Len(channel) - 1
         /\ kind # "unsorted" => p.seq = buffer.next /\ ~buffer.exhausted /\ buffer.next <= final
<1> USE WriterAssumption
<1>1. /\ p \in Packet /\ p.skip \in 0 .. length[p.seq] /\ length[p.seq] \in Nat /\ p.seq \in Numbers
      /\ p.seq \in Nat /\ final \in Nat
  BY DEF WriterInv, Types, Packet, Numbers
<1>2. task \in {"reading", "writing"} /\ ~Over
  BY DEF Writing, WriterInv, Types, Over, Ended
<1>3. CASE kind = "unsorted"
  <2>1. \E q \in buffer.packets : buffer.packets = {q} /\ q.seq = sends - Len(channel) - 1 /\ At(q.seq, q.skip)
    BY <1>3 DEF WriterInv, Unsorted
  <2>2. p.seq <= MaxSequence
    BY <1>1 DEF Numbers
  <2> QED BY SMTT(30), <1>1, <1>2, <1>3, <2>1, <2>2 DEF Count
<1>4. CASE kind # "unsorted"
  <2>1. Sorted /\ p \in Ready(buffer)
    BY <1>4 DEF WriterInv, Writing, Current
  <2> QED BY <1>1, <1>2, <1>4, <2>1 DEF Sorted, Ready, Count
<1> QED BY <1>3, <1>4

\* Putting back what is left of a packet is proper, and moves nothing else.
LEMMA PutBackKeeps ==
  ASSUME WriterInv, NEW p \in buffer.packets, Writing(p), NEW k \in 0 .. length[p.seq], PutBack(p, k)
  PROVE  /\ ~panicked'
         /\ buffer' = [buffer EXCEPT !.packets = (@ \ {p}) \cup {[p EXCEPT !.skip = k]}]
<1> USE WriterAssumption
<1> DEFINE rest == [p EXCEPT !.skip = k]
<1>1. /\ p \in Packet /\ p.seq \in Numbers
      /\ kind = "unsorted" => buffer.packets = {p}
      /\ kind # "unsorted" => p.seq = buffer.next /\ ~buffer.exhausted
  BY WritingAt
<1>2. rest.seq = p.seq
  BY <1>1 DEF Packet
<1>3. buffer \in [next : Numbers, exhausted : BOOLEAN, packets : SUBSET Packet] /\ ~panicked
  BY DEF WriterInv, Types
<1>4. CASE kind = "unsorted"
  BY <1>1, <1>3, <1>4 DEF PutBack
<1>5. CASE kind # "unsorted"
  <2>1. buffer' = Repush(Polled(buffer, p), rest) /\ panicked' = ~RepushIsProper(Polled(buffer, p), rest)
    BY <1>5 DEF PutBack
  <2>2. RepushIsProper(Polled(buffer, p), rest)
    <3> HIDE DEF rest
    <3>1. rest.seq = buffer.next /\ buffer.next \in Int /\ MaxSequence \in Int /\ buffer.next <= MaxSequence
      BY <1>1, <1>2, <1>5 DEF Numbers
    <3> DEFINE polled == Polled(buffer, p)
    <3>2. polled.exhausted = (buffer.next = MaxSequence)
      BY DEF Polled
    <3>3. polled.next = IF buffer.next < MaxSequence THEN buffer.next + 1 ELSE buffer.next
      BY DEF Polled
    <3> HIDE DEF polled
    <3>4. CASE buffer.next = MaxSequence
      <4>1. polled.exhausted /\ rest.seq = MaxSequence
        BY <3>1, <3>2, <3>4, Zenon
      <4> QED BY <4>1, Zenon DEF RepushIsProper, polled
    <3>5. CASE buffer.next # MaxSequence
      <4>1. ~polled.exhausted
        BY <3>2, <3>5, Zenon
      <4>2. rest.seq = polled.next - 1
        BY <3>1, <3>3, <3>5
      <4> QED BY <4>1, <4>2, Zenon DEF RepushIsProper, polled
    <3> QED BY <3>4, <3>5
  <2>3. Repush(Polled(buffer, p), rest)
        = [next |-> p.seq, exhausted |-> FALSE, packets |-> (buffer.packets \ {p}) \cup {rest}]
    BY <1>2 DEF Repush, Polled
  <2>4. buffer' = [buffer EXCEPT !.packets = (@ \ {p}) \cup {rest}]
    <3> HIDE DEF rest
    <3>1. buffer' = [next |-> buffer.next, exhausted |-> buffer.exhausted, packets |-> (buffer.packets \ {p}) \cup {rest}]
      BY Zenon, <1>1, <1>3, <1>5, <2>1, <2>3
    <3> QED BY <1>3, <3>1
  <2> QED BY Zenon, <2>1, <2>2, <2>4
<1> QED BY <1>4, <1>5

\* A refused write puts the packet back as it was.
LEMMA PutBackSame ==
  ASSUME WriterInv, NEW p \in buffer.packets, Writing(p), PutBack(p, p.skip)
  PROVE  ~panicked' /\ buffer' = buffer
<1>1. p \in Packet /\ p.skip \in 0 .. length[p.seq]
  BY WritingAt
<1>2. /\ ~panicked'
      /\ buffer' = [buffer EXCEPT !.packets = (@ \ {p}) \cup {[p EXCEPT !.skip = p.skip]}]
  BY <1>1, PutBackKeeps
<1>3. [p EXCEPT !.skip = p.skip] = p
  BY <1>1 DEF Packet
<1>4. (buffer.packets \ {p}) \cup {p} = buffer.packets
  OBVIOUS
<1>5. buffer \in [next : Numbers, exhausted : BOOLEAN, packets : SUBSET Packet]
  BY DEF WriterInv, Types
<1> QED BY <1>2, <1>3, <1>4, <1>5

\* A step that neither writes nor moves a packet, and does not reopen the stream.
LEMMA QuietStep ==
  ASSUME WriterInv, UNCHANGED <<given, channel, sends, buffer, written>>, ~panicked',
         task' \in {"parked", "reading", "writing", "done", "failed"},
         shuttingDown' \in BOOLEAN, closed' \in BOOLEAN, open' \in BOOLEAN,
         shuttingDown' => task' \in {"parked", "done"} /\ kind # "unsorted",
         Over => Over'
  PROVE  WriterInv'
<1> USE DEF given
<1>1. Types'
  BY DEF WriterInv, Types
<1>2. \A d, k : At(d, k)' <=> At(d, k)
  BY UptoStays DEF At
<1>3. kind = "unsorted" => Unsorted'
  BY <1>2 DEF WriterInv, Unsorted
<1>4. kind # "unsorted" => Sorted'
  BY <1>2 DEF WriterInv, Sorted, Ready
<1> QED BY <1>1, <1>3, <1>4 DEF WriterInv

LEMMA CloseInv == ASSUME WriterInv, Close \/ Writable PROVE WriterInv'
<1>1. CASE Close
  BY Zenon, <1>1, QuietStep DEF Close, WriterInv, Types, Over, Ended
<1>2. CASE Writable
  BY <1>2, QuietStep DEF Writable, WriterInv, Types, Over, Ended
<1> QED BY <1>1, <1>2

LEMMA WakeInv == ASSUME WriterInv, Wake PROVE WriterInv'
BY QuietStep DEF Wake, WriterInv, Types, Over, Ended

LEMMA EndsInv == ASSUME WriterInv, ReadEnds \/ WriteEnds PROVE WriterInv'
<1>1. CASE ReadEnds
  BY <1>1, QuietStep DEF ReadEnds, WriterInv, Types, Over, Ended
<1>2. CASE WriteEnds
  BY <1>2, QuietStep DEF WriteEnds, WriterInv, Types, Over, Ended
<1> QED BY <1>1, <1>2

LEMMA RefusedInv ==
  ASSUME WriterInv, NEW p \in buffer.packets, WriteError(p) \/ WriteNotReady(p)
  PROVE  WriterInv' /\ written' = written
<1>1. /\ UNCHANGED <<given, channel, open, sends, written, closed, shuttingDown>> /\ ~Over
      /\ task' \in {"parked", "reading", "writing", "failed"}
  BY WritingAt DEF WriteError, WriteNotReady
<1>2. UNCHANGED buffer /\ ~panicked'
  BY PutBackSame DEF WriteError, WriteNotReady, WriterInv
<1> QED BY SMTT(30), <1>1, <1>2, QuietStep DEF WriterInv, Types, Over

LEMMA SendPacketInv == ASSUME WriterInv, NEW n \in Numbers, SendPacket(n) PROVE WriterInv'
<1> USE WriterAssumption DEF SendPacket, given
<1> DEFINE packet == [seq |-> n, skip |-> 0]
<1>1. packet \in Packet /\ packet.seq = n /\ packet.skip = 0 /\ channel' = Append(channel, packet)
  BY DEF Packet
<1> HIDE DEF packet
<1>2. /\ channel \in Seq(Packet) /\ channel' \in Seq(Packet) /\ Len(channel') = Len(channel) + 1
      /\ Len(channel) \in Nat
      /\ \A i \in DOMAIN channel' : IF i = Len(channel) + 1 THEN channel'[i] = packet
                                    ELSE i \in DOMAIN channel /\ channel'[i] = channel[i]
  BY <1>1 DEF WriterInv, Types
<1>3. Types'
  BY <1>1, <1>2 DEF WriterInv, Types
<1>4. \A d, k : At(d, k)' <=> At(d, k)
  BY UptoStays DEF At
<1>5. kind = "unsorted" => Unsorted'
  <2>1. SUFFICES ASSUME kind = "unsorted" PROVE Unsorted'
    OBVIOUS
  <2>2. n = sends /\ Unsorted /\ sends \in Nat
    BY <2>1 DEF WriterInv, Types
  <2>3. sends' - Len(channel') = sends - Len(channel)
    BY <1>2, <2>2
  <2>4. \A i \in DOMAIN channel' : channel'[i].seq = sends - Len(channel) + i - 1
    BY <1>1, <1>2, <2>2 DEF Unsorted
  <2>5. sends' <= MaxSequence + 1 /\ Len(channel') <= sends'
    BY <1>2, <2>2 DEF Unsorted, Numbers
  <2> QED BY SMTT(30), <1>4, <2>2, <2>3, <2>4, <2>5 DEF Unsorted
<1>6. kind # "unsorted" => Sorted'
  BY <1>4 DEF WriterInv, Sorted, Ready, Over, Ended
<1> QED BY <1>3, <1>5, <1>6 DEF WriterInv

\* A packet out of the channel: push keeps it only when it is wanted.
LEMMA ReadPacketInv == ASSUME WriterInv, ReadPacket PROVE WriterInv'
<1> USE WriterAssumption DEF ReadPacket, given
<1>0. PICK head : head = Head(channel)
  OBVIOUS
<1>1. /\ channel \in Seq(Packet) /\ channel # <<>> /\ Len(channel) \in Nat \ {0}
      /\ head \in Packet /\ head = channel[1] /\ head.skip = 0 /\ 1 \in DOMAIN channel
      /\ channel' \in Seq(Packet) /\ Len(channel') = Len(channel) - 1
      /\ \A i \in DOMAIN channel' : i \in Nat /\ i + 1 \in DOMAIN channel /\ channel'[i] = channel[i + 1]
  BY <1>0 DEF WriterInv, Types
<1>2. /\ buffer \in [next : Numbers, exhausted : BOOLEAN, packets : SUBSET Packet]
      /\ length \in [Numbers -> 0 .. MaxBytes] /\ sends \in Nat
  BY DEF WriterInv, Types
<1>3. buffer' = IF kind = "unsorted" THEN [buffer EXCEPT !.packets = {head}] ELSE Push(buffer, head)
  BY <1>0
<1>4. head.seq \in Numbers /\ head.seq \in Nat /\ 0 <= length[head.seq]
  BY <1>1, <1>2 DEF Packet, Numbers
<1>5. /\ buffer' \in [next : Numbers, exhausted : BOOLEAN, packets : SUBSET Packet]
      /\ buffer'.next = buffer.next /\ buffer'.exhausted = buffer.exhausted
      /\ buffer'.packets \subseteq buffer.packets \cup {head}
  BY SMTT(30), <1>1, <1>2, <1>3 DEF Push
<1>6. Types'
  <2>1. \A i \in DOMAIN channel' : channel'[i].skip = 0
    BY <1>1 DEF WriterInv, Types
  <2>2. \A p \in buffer'.packets : p.skip <= length[p.seq]
    BY <1>1, <1>4, <1>5 DEF WriterInv, Types
  <2> QED BY <1>1, <1>5, <2>1, <2>2 DEF WriterInv, Types
<1>7. \A d, k : At(d, k)' <=> At(d, k)
  BY UptoStays DEF At
<1>8. ASSUME kind = "unsorted" PROVE Unsorted'
  <2>1. Unsorted /\ buffer.packets = {} /\ buffer'.packets = {head}
    BY Zenon, <1>2, <1>3, <1>8 DEF WriterInv
  <2>2. At(sends - Len(channel), 0) /\ head.seq = sends - Len(channel)
    <3>1. head.seq = sends - Len(channel) + 1 - 1
      BY <1>1, <2>1 DEF Unsorted
    <3>2. At(sends - Len(channel), 0)
      BY <2>1, Zenon DEF Unsorted
    <3> QED BY <1>1, <1>2, <3>1, <3>2
  <2>3. sends' - Len(channel') = sends - Len(channel) + 1
    BY <1>1, <1>2
  <2>4. \A i \in DOMAIN channel' : channel'[i].seq = sends - Len(channel) + 1 + i - 1
    BY SMTT(30), <1>1, <1>2, <2>1 DEF Unsorted
  <2>5. \E p \in buffer'.packets : /\ buffer'.packets = {p} /\ p.seq = sends' - Len(channel') - 1
                                   /\ At(p.seq, p.skip)'
    <3>1. At(head.seq, head.skip)'
      BY <1>1, <1>7, <2>2
    <3>2. head.seq = sends' - Len(channel') - 1
      BY <1>1, <1>2, <2>2, <2>3
    <3> QED BY <2>1, <3>1, <3>2, Zenon
  <2>6. sends' <= MaxSequence + 1 /\ Len(channel') <= sends'
    BY <1>1, <1>2, <2>1 DEF Unsorted
  <2>7. \A i \in DOMAIN channel' : channel'[i].seq = sends' - Len(channel') + i - 1
    BY <2>3, <2>4
  <2> QED BY <2>5, <2>6, <2>7, Zenon DEF Unsorted
<1>9. ASSUME kind # "unsorted" PROVE Sorted'
  <2>1. Sorted /\ buffer' = Push(buffer, head) /\ buffer.next \in Nat
    BY <1>2, <1>3, <1>9 DEF WriterInv, Numbers
  <2>2. CASE buffer' = buffer
    BY Zenon, <1>7, <2>1, <2>2 DEF Sorted, Ready, Over, Ended
  <2>3. CASE /\ head.seq \notin Seen(buffer) /\ ~(head.seq < buffer.next)
             /\ buffer'.packets = buffer.packets \cup {head}
    <3>1. \A q \in buffer.packets : q.seq # head.seq
      BY <2>3 DEF Seen
    <3>2. \A p, q \in buffer'.packets : p.seq = q.seq => p = q
      BY <2>1, <2>3, <3>1 DEF Sorted
    <3>3. \A p \in buffer'.packets : buffer.next <= p.seq /\ (buffer.next = p.seq \/ p.skip = 0)
      BY <1>1, <1>4, <2>1, <2>3 DEF Sorted
    <3>4. ASSUME ~Over'
          PROVE  /\ \A p \in Ready(buffer') : At(buffer.next, p.skip)
                 /\ Ready(buffer') = {} => At(buffer.next, 0)
      <4>1. ~Over
        BY <3>4 DEF Over, Ended
      <4>2. CASE head.seq = buffer.next
        <5>1. Ready(buffer) = {}
          BY <3>1, <4>2 DEF Ready
        <5>2. Ready(buffer') = {head}
          BY SMTT(30), <1>5, <2>3, <4>2, <5>1 DEF Ready
        <5> QED BY Zenon, <1>1, <2>1, <4>1, <5>1, <5>2 DEF Sorted
      <4>3. CASE head.seq # buffer.next
        <5>1. Ready(buffer') = Ready(buffer)
          BY <1>5, <2>3, <4>3 DEF Ready
        <5> QED BY ZenonT(60), <2>1, <4>1, <5>1 DEF Sorted
      <4> QED BY Zenon, <4>2, <4>3
    <3>5. ~Over' => ~Over
      BY DEF Over, Ended
    <3>6. ~Over => ~buffer.exhausted /\ buffer.next <= final
      BY <2>1 DEF Sorted
    <3> QED BY Zenon, <1>5, <1>7, <3>2, <3>3, <3>4, <3>5, <3>6 DEF Sorted
  <2> QED BY <1>2, <2>1, <2>2, <2>3 DEF Push
<1> QED BY <1>6, <1>8, <1>9 DEF WriterInv

\* The socket takes bytes of the packet that the writer is at.
LEMMA WriteBytesAt ==
  ASSUME WriterInv, NEW p \in buffer.packets, NEW count \in 0 .. MaxBytes, WriteBytes(p, count)
  PROVE  /\ p.skip + count \in 0 .. length[p.seq] /\ count \in 0 .. length[p.seq] - p.skip
         /\ \A d, k : Upto(d, k)' = Upto(d, k)
         /\ written' = Upto(p.seq, p.skip + count) /\ At(p.seq, p.skip + count)'
<1> USE WriterAssumption
<1>1. /\ Writing(p) /\ count <= length[p.seq] - p.skip /\ UNCHANGED length
      /\ written' = written \o [i \in 1 .. count |-> <<p.seq, p.skip + i>>]
  BY DEF WriteBytes, given
<1>2. /\ p.skip \in 0 .. length[p.seq] /\ length[p.seq] \in Nat /\ p.seq \in 0 .. MaxSequence
      /\ At(p.seq, p.skip)
  BY <1>1, WritingAt DEF Numbers
<1>3. count \in 0 .. length[p.seq] - p.skip /\ p.skip + count \in 0 .. length[p.seq]
  BY <1>1, <1>2
<1>4. written' = Upto(p.seq, p.skip + count)
  <2>1. Upto(p.seq, p.skip) \o [i \in 1 .. count |-> <<p.seq, p.skip + i>>] = Upto(p.seq, p.skip + count)
    BY Zenon, <1>2, <1>3, MoreBytes DEF WriterInv
  <2>2. written = Upto(p.seq, p.skip)
    BY <1>2 DEF At
  <2> QED BY ZenonT(60), <1>1, <2>1, <2>2, Zenon
<1>5. \A d, k : Upto(d, k)' = Upto(d, k)
  BY <1>1, UptoStays
<1>6. At(p.seq, p.skip + count)'
  BY <1>4, <1>5, Zenon DEF At
<1> QED BY <1>3, <1>4, <1>5, <1>6

\* Part of a packet is written, and the rest goes back.
LEMMA WritePartInv ==
  ASSUME WriterInv, NEW p \in buffer.packets, NEW count \in 0 .. MaxBytes, WriteBytes(p, count),
         count < length[p.seq] - p.skip
  PROVE  WriterInv'
<1> USE WriterAssumption DEF given
<1>0. count # length[p.seq] - p.skip /\ count < length[p.seq] - p.skip
  <2>1. Writing(p)
    BY DEF WriteBytes
  <2> QED BY <2>1, WritingAt
<1>1. /\ Writing(p) /\ PutBack(p, p.skip + count)
      /\ UNCHANGED <<given, channel, open, sends, closed, task>> /\ shuttingDown' = FALSE
  BY Zenon, <1>0 DEF WriteBytes
<1>2. /\ p \in Packet /\ length[p.seq] \in Nat /\ p.seq \in Numbers
      /\ ~Over /\ task \in {"reading", "writing"}
      /\ kind = "unsorted" => buffer.packets = {p} /\ p.seq = sends - Len(channel) - 1
      /\ kind # "unsorted" => p.seq = buffer.next /\ ~buffer.exhausted /\ buffer.next <= final
  BY <1>1, WritingAt
<1>3. p.skip + count \in 0 .. length[p.seq] /\ At(p.seq, p.skip + count)'
  BY WriteBytesAt
<1>4. PICK rest : rest = [p EXCEPT !.skip = p.skip + count]
  BY Zenon
<1>5. ~panicked' /\ buffer' = [buffer EXCEPT !.packets = (@ \ {p}) \cup {rest}]
  BY <1>1, <1>3, <1>4, PutBackKeeps
<1>6. length[p.seq] \in 0 .. MaxBytes
  BY <1>2 DEF WriterInv, Types
<1>7. rest \in Packet /\ rest.seq = p.seq /\ rest.skip = p.skip + count
  BY SMTT(30), <1>2, <1>3, <1>4, <1>6 DEF Packet
<1>8. /\ buffer \in [next : Numbers, exhausted : BOOLEAN, packets : SUBSET Packet]
      /\ buffer' \in [next : Numbers, exhausted : BOOLEAN, packets : SUBSET Packet]
      /\ buffer'.next = buffer.next /\ buffer'.exhausted = buffer.exhausted
      /\ buffer'.packets = (buffer.packets \ {p}) \cup {rest}
  BY <1>5, <1>7 DEF WriterInv, Types
<1>9. Types'
  <2>1. \A q \in buffer'.packets : q.skip <= length[q.seq]
    BY <1>2, <1>3, <1>7, <1>8 DEF WriterInv, Types
  <2> QED BY ZenonT(60), <1>1, <1>2, <1>8, <2>1 DEF WriterInv, Types
<1>10. ASSUME kind = "unsorted" PROVE Unsorted'
  <2>1. buffer'.packets = {rest}
    BY <1>2, <1>8, <1>10
  <2>2. At(rest.seq, rest.skip)'
    BY <1>3, <1>7
  <2>3. Unsorted /\ rest.seq = sends' - Len(channel') - 1
    BY SMTT(30), <1>1, <1>2, <1>7, <1>10 DEF WriterInv
  <2> QED BY <1>1, <2>1, <2>2, <2>3, Zenon DEF Unsorted
<1>11. ASSUME kind # "unsorted" PROVE Sorted'
  <2>1. Sorted /\ p.seq = buffer.next /\ buffer.next \in Nat
    BY <1>2, <1>11 DEF WriterInv, Numbers
  <2>2. \A a, b \in buffer'.packets : a.seq = b.seq => a = b
    BY <1>7, <1>8, <2>1 DEF Sorted
  <2>3. \A a \in buffer'.packets : buffer.next <= a.seq /\ (buffer.next = a.seq \/ a.skip = 0)
    BY SMTT(30), <1>7, <1>8, <2>1 DEF Sorted
  <2>4. Ready(buffer') = {rest}
    BY <1>7, <1>8, <2>1 DEF Ready, Sorted
  <2>5. At(buffer.next, rest.skip)'
    BY SMTT(30), <1>3, <1>7, <1>8, <2>1
  <2> QED BY SMTT(30), <1>1, <1>2, <1>8, <1>11, <2>2, <2>3, <2>4, <2>5 DEF Sorted
<1> QED BY SMTT(30), <1>1, <1>5, <1>9, <1>10, <1>11 DEF WriterInv

\* A packet is written to its end, and the one after it is next.
LEMMA WriteWholeInv ==
  ASSUME WriterInv, NEW p \in buffer.packets, NEW count \in 0 .. MaxBytes, WriteBytes(p, count),
         ~(count < length[p.seq] - p.skip)
  PROVE  WriterInv'
<1> USE WriterAssumption DEF given
<1>1. /\ p \in Packet /\ length[p.seq] \in Nat /\ p.seq \in Numbers /\ p.skip \in 0 .. length[p.seq]
      /\ ~Over /\ task \in {"reading", "writing"}
      /\ kind = "unsorted" => buffer.packets = {p} /\ p.seq = sends - Len(channel) - 1
      /\ kind # "unsorted" => p.seq = buffer.next /\ ~buffer.exhausted /\ buffer.next <= final
  BY SMTT(30), WritingAt DEF WriteBytes
<1>2. count = length[p.seq] - p.skip /\ p.skip + count = length[p.seq]
  BY <1>1, WriteBytesAt
<1>3. /\ UNCHANGED <<given, channel, open, sends, closed, panicked>>
      /\ shuttingDown' = (kind # "unsorted" /\ p.seq = final)
      /\ task' = IF ~shuttingDown' THEN task ELSE IF closed THEN "done" ELSE "parked"
      /\ buffer' = IF kind = "unsorted" THEN [buffer EXCEPT !.packets = {}] ELSE Polled(buffer, p)
  BY ZenonT(60), <1>2 DEF WriteBytes
<1>4. At(p.seq + 1, 0)'
  <2>1. Upto(p.seq, length[p.seq]) = Upto(p.seq + 1, 0)
    BY <1>1, PacketIsWritten DEF WriterInv, Numbers
  <2>2. written' = Upto(p.seq + 1, 0)
    BY <1>2, <2>1, WriteBytesAt
  <2> QED BY <2>2, WriteBytesAt DEF At
<1>5. /\ buffer \in [next : Numbers, exhausted : BOOLEAN, packets : SUBSET Packet]
      /\ buffer' \in [next : Numbers, exhausted : BOOLEAN, packets : SUBSET Packet]
      /\ buffer'.packets = buffer.packets \ {p}
  <2>1. buffer \in [next : Numbers, exhausted : BOOLEAN, packets : SUBSET Packet]
    BY DEF WriterInv, Types
  <2>2. CASE kind = "unsorted"
    BY SMTT(30), <1>1, <1>3, <2>1, <2>2
  <2>3. CASE kind # "unsorted"
    <3>1. (IF buffer.next < MaxSequence THEN buffer.next + 1 ELSE buffer.next) \in Numbers
      BY <2>1 DEF Numbers
    <3>2. buffer' = Polled(buffer, p)
      BY <1>3, <2>3
    <3> QED BY <2>1, <3>1, <3>2 DEF Polled
  <2> QED BY SMTT(30), <2>1, <2>2, <2>3
<1>6. Types'
  <2>1. \A q \in buffer'.packets : q.skip <= length[q.seq]
    BY <1>5 DEF WriterInv, Types
  <2> QED BY SMTT(30), <1>1, <1>3, <1>5, <2>1 DEF WriterInv, Types
<1>7. ASSUME kind = "unsorted" PROVE Unsorted'
  <2>1. buffer'.packets = {}
    BY <1>1, <1>5, <1>7
  <2>2. Unsorted /\ p.seq + 1 = sends' - Len(channel')
    BY <1>1, <1>3, <1>7 DEF WriterInv, Types
  <2>3. At(sends - Len(channel), 0)'
    BY <1>4, <2>2
  <2> QED BY SMTT(30), <1>3, <2>1, <2>2, <2>3 DEF Unsorted
<1>8. ASSUME kind # "unsorted" PROVE Sorted'
  <2>1. /\ Sorted /\ p.seq = buffer.next /\ buffer.next \in Nat /\ buffer.next <= MaxSequence
        /\ final \in Nat /\ final <= MaxSequence
        /\ \A q \in buffer.packets : q.seq \in Nat /\ q.seq <= MaxSequence
    BY <1>1, <1>5, <1>8 DEF WriterInv, Types, Numbers, Packet
  <2>2. /\ buffer'.next = IF buffer.next < MaxSequence THEN buffer.next + 1 ELSE buffer.next
        /\ buffer'.exhausted = (buffer.next = MaxSequence)
    BY <1>3, <1>8 DEF Polled
  <2>3. \A a, b \in buffer'.packets : a.seq = b.seq => a = b
    BY <1>5, <2>1 DEF Sorted
  <2>4. ASSUME NEW a \in buffer'.packets
        PROVE  buffer'.next <= a.seq /\ a.skip = 0 /\ a.seq > buffer.next
    BY SMTT(30), <1>5, <2>1, <2>2 DEF Sorted
  <2>5. ASSUME ~Over' PROVE buffer'.next = buffer.next + 1 /\ ~buffer'.exhausted /\ buffer'.next <= final
    <3>1. p.seq # final
      BY Zenon, <1>3, <1>8, <2>5 DEF Over
    <3>2. buffer.next < final
      BY <1>1, <1>8, <2>1, <3>1
    <3>3. buffer.next # MaxSequence /\ buffer.next < MaxSequence
      BY <2>1, <3>2
    <3>4. ~buffer'.exhausted
      BY <2>2, <3>3, Zenon
    <3> QED BY SMTT(30), <2>1, <2>2, <3>2, <3>3, <3>4
  <2>6. ASSUME NEW a \in Ready(buffer') PROVE a.skip = 0
    BY <2>4 DEF Ready
  <2>7. ASSUME ~Over' PROVE At(buffer.next, 0)'
    BY SMTT(30), <1>4, <2>1, <2>5, <2>7
  <2> QED BY SMTT(30), <1>3, <2>3, <2>4, <2>5, <2>6, <2>7 DEF Sorted
<1> QED BY SMTT(30), <1>3, <1>6, <1>7, <1>8 DEF WriterInv

----------------------------------------------------------------------------
(* The theorem.                                                            *)

LEMMA WriterStep == ASSUME WriterInv, [WriterNext]_writerVars PROVE WriterInv'
<1>1. CASE \E n \in Numbers : SendPacket(n)
  BY <1>1, SendPacketInv
<1>2. CASE Close \/ Writable
  BY <1>2, CloseInv
<1>3. CASE Wake
  BY <1>3, WakeInv
<1>4. CASE ReadPacket
  BY SMTT(30), <1>4, ReadPacketInv
<1>5. CASE ReadEnds \/ WriteEnds
  BY <1>5, EndsInv
<1>6. CASE \E p \in buffer.packets : Write(p)
  <2>1. PICK p \in buffer.packets : Write(p)
    BY <1>6
  <2>2. CASE WriteError(p) \/ WriteNotReady(p)
    BY <2>2, RefusedInv
  <2>3. CASE \E count \in 0 .. MaxBytes : WriteBytes(p, count)
    BY SMTT(30), <2>3, WritePartInv, WriteWholeInv
  <2> QED BY <2>1, <2>2, <2>3 DEF Write
<1>7. CASE UNCHANGED writerVars
  BY <1>7, QuietStep DEF writerVars, WriterInv, Types, Over, Ended
<1> QED BY SMTT(30), <1>1, <1>2, <1>3, <1>4, <1>5, <1>6, <1>7 DEF WriterNext

LEMMA ContentStays == ASSUME UNCHANGED given PROVE Content' = Content
BY Zenon DEF Content, Bytes, Count, given

\* A step that writes nothing: the stream goes on, or it ends here.
LEMMA WritesNothing ==
  ASSUME UNCHANGED <<given, written>>, Over => Over'
  PROVE  [Ordered!Next]_(Ordered!vars)
<1>1. Content' = Content
  BY ContentStays
<1>2. CASE Over' <=> Over
  <2>1. (Ended \/ shuttingDown)' = (Ended \/ shuttingDown)
    BY <1>2 DEF Over
  <2> QED BY <1>1, <2>1 DEF Ordered!vars
<1>3. CASE ~Over /\ Over'
  BY <1>1, <1>3 DEF Ordered!Next, Ordered!End, Over
<1> QED BY <1>2, <1>3

\* A step that writes: the socket's bytes remain a beginning of the content, and the
\* stream is shut down with the last of them only.
LEMMA WritesMore ==
  ASSUME WriterInv, NEW p \in buffer.packets, NEW count \in 0 .. MaxBytes, WriteBytes(p, count)
  PROVE  [Ordered!Next]_(Ordered!vars)
<1> USE WriterAssumption
<1> DEFINE k == p.skip + count
<1>1. /\ Types /\ p.seq \in 0 .. Count - 1 /\ p.seq \in 0 .. MaxSequence /\ ~Over /\ At(p.seq, p.skip)
      /\ p.skip \in 0 .. length[p.seq] /\ length[p.seq] \in Nat
  BY WritingAt DEF WriteBytes, WriterInv, Numbers
<1>2. k \in 0 .. length[p.seq] /\ written' = Upto(p.seq, k)
  BY WriteBytesAt
<1>3. UNCHANGED given /\ Content' = Content
  BY ContentStays DEF WriteBytes
<1>4. CASE count = 0
  <2>1. k = p.skip
    BY <1>1, <1>4
  <2>2. written' = written
    BY <1>1, <1>2, <2>1 DEF At
  <2> QED BY SMTT(30), <1>1, <1>3, <2>2, WritesNothing
<1>5. CASE count # 0
  <2>1. /\ written = Upto(p.seq, p.skip) /\ Len(written) = Len(Flat(Bytes, p.seq)) + p.skip
        /\ Len(Flat(Bytes, p.seq)) \in Nat
    BY Zenon, <1>1, StandsInContent DEF At
  <2>2. /\ Len(written') \in 0 .. Len(Content) /\ written' = SubSeq(Content, 1, Len(written'))
        /\ Len(written') = Len(Flat(Bytes, p.seq)) + k
    BY Zenon, <1>1, <1>2, StandsInContent
  <2>3. Len(written') \in Len(written) + 1 .. Len(Content)
    BY SMTT(30), <1>1, <1>5, <2>1, <2>2
  <2>4. ASSUME Over' PROVE Len(written') = Len(Content)
    <3>1. count = length[p.seq] - p.skip /\ kind # "unsorted" /\ p.seq = final
      <4>1. shuttingDown' \/ Ended'
        BY <2>4 DEF Over
      <4>2. shuttingDown'
        BY Zenon, <1>1, <4>1 DEF WriteBytes, Over, Ended
      <4> QED BY Zenon, <4>2 DEF WriteBytes
    <3>2. k = length[p.seq] /\ Count = p.seq + 1
      BY <1>1, <3>1 DEF Count
    <3>3. written' = Flat(Bytes, Count)
      BY SMTT(30), <1>1, <1>2, <3>2, PacketIsWritten
    <3> QED BY <1>1, <3>3, ContentIsFlat
  <2>5. Ordered!Write
    <3>1. (Ended \/ shuttingDown)' \in BOOLEAN /\ ~(Ended \/ shuttingDown)
      BY <1>1 DEF Over
    <3>2. written' = SubSeq(Content, 1, Len(written')) /\ ((Ended \/ shuttingDown)' => Len(written') = Len(Content))
      BY <2>2, <2>4 DEF Over
    <3> QED BY ZenonT(60), <1>3, <2>3, <3>1, <3>2 DEF Ordered!Write
  <2> QED BY <2>5 DEF Ordered!Next
<1> QED BY <1>4, <1>5

LEMMA WriterRefines ==
  ASSUME WriterInv, [WriterNext]_writerVars PROVE [Ordered!Next]_(Ordered!vars)
<1>1. CASE \E n \in Numbers : SendPacket(n)
  BY <1>1, WritesNothing DEF SendPacket, Over, Ended
<1>2. CASE Close \/ Writable
  BY <1>2, WritesNothing DEF Close, Writable, Over, Ended
<1>3. CASE Wake
  BY <1>3, WritesNothing DEF Wake, Over, Ended
<1>4. CASE ReadPacket
  BY <1>4, WritesNothing DEF ReadPacket, Over, Ended
<1>5. CASE ReadEnds \/ WriteEnds
  <2>1. Over => Over'
    BY <1>5 DEF ReadEnds, WriteEnds, Over, Ended
  <2> QED BY SMTT(30), <1>5, <2>1, WritesNothing DEF ReadEnds, WriteEnds
<1>6. CASE \E p \in buffer.packets : Write(p)
  <2>1. PICK p \in buffer.packets : Write(p)
    BY <1>6
  <2>2. CASE WriteError(p) \/ WriteNotReady(p)
    <3>1. Writing(p) /\ UNCHANGED <<given, written>>
      BY <2>2 DEF WriteError, WriteNotReady
    <3>2. ~Over
      BY <3>1, WritingAt
    <3> QED BY SMTT(30), <3>1, <3>2, WritesNothing
  <2>3. CASE \E count \in 0 .. MaxBytes : WriteBytes(p, count)
    BY <2>3, WritesMore
  <2> QED BY SMTT(30), <2>1, <2>2, <2>3 DEF Write
<1>7. CASE UNCHANGED writerVars
  BY <1>7, WritesNothing DEF writerVars, Over, Ended
<1> QED BY SMTT(30), <1>1, <1>2, <1>3, <1>4, <1>5, <1>6, <1>7 DEF WriterNext

\* Each of the three futures implements OrderedStream, and repush is never used
\* improperly: for every window, every u64::MAX and every length of the packets
\* (poll of StreamWriterSorted, StreamWriter and StreamWriterUnsorted; push, poll and
\* repush of SequenceBuffer).
THEOREM WriterInOrder == WriterSpec => WritesInOrder
<1>1. WriterInit => WriterInv
  BY WriterStarts
<1>2. WriterInit => Ordered!Init
  BY DEF WriterInit, Ordered!Init, Ended
<1>3. WriterInv /\ [WriterNext]_writerVars => WriterInv'
  BY WriterStep
<1>4. WriterInv /\ [WriterNext]_writerVars => [Ordered!Next]_(Ordered!vars)
  BY WriterRefines
<1>5. WriterInv => ~panicked
  BY DEF WriterInv
<1> QED BY <1>1, <1>2, <1>3, <1>4, <1>5, PTL DEF WriterSpec, WritesInOrder, Ordered!Spec

----------------------------------------------------------------------------
(* The acknowledgement outbox.                                             *)

\* What may be in the payer's hands: payloads the session has signed.
Any == {Payload(s[1], s[2], n) : s \in Streams, n \in Nat}
Signed(a) == a.n <= signed[<<a.epoch, a.provider>>]

\* The rows, the deliveries and the packages are signed payloads.
RowsInv ==
    /\ outbox \in Seq(Any) /\ deliveries \subseteq Any /\ network \subseteq Any
    /\ \A a \in Range(outbox) \cup deliveries \cup network : Signed(a)
    /\ \A i, j \in DOMAIN outbox : outbox[i].epoch = outbox[j].epoch => i = j

\* What was queued is in the outbox or was sent, itself or a later one.
QueueInv ==
    /\ queued \subseteq Any /\ sent \subseteq Any
    /\ \A a \in queued : \E b \in Range(outbox) \cup sent : Covers(b, a)
    /\ retry \/ Range(outbox) \subseteq deliveries \/ "load" \in faults

\* The three counters of a stream; those of a relay stay together.
CountInv ==
    /\ offered \in [Streams -> Nat] /\ signed \in [Streams -> Nat] /\ accepted \in [Streams -> Nat]
    /\ \A s \in Streams :
         /\ accepted[s] <= signed[s] /\ signed[s] <= offered[s]
         /\ s[2] \in Relays => offered[s] <= accepted[s] + 1

\* The inductive invariant.
OutboxInv == RowsInv /\ QueueInv /\ CountInv

\* A payload is that of a stream.
LEMMA PayloadOf ==
  ASSUME NEW a \in Any
  PROVE  <<a.epoch, a.provider>> \in Streams /\ a.n \in Nat /\ a = Payload(a.epoch, a.provider, a.n)
BY OutboxAssumption DEF Any, Payload

LEMMA AnyPayload == ASSUME NEW s \in Streams, NEW n \in Nat PROVE Payload(s[1], s[2], n) \in Any
BY DEF Any

LEMMA PayloadsAreAny == Payloads \subseteq Any
BY OutboxAssumption DEF Payloads, Any

\* Covering is an order.
LEMMA NumberOf == \A a \in Any : a.n \in Nat
BY PayloadOf

LEMMA CoversSelf == \A a \in Any : Covers(a, a)
<1>1. \A a \in Any : a.n >= a.n
  BY NumberOf
<1> QED BY <1>1 DEF Covers

LEMMA CoversTrans == \A a, b, c \in Any : Covers(c, b) /\ Covers(b, a) => Covers(c, a)
<1> SUFFICES ASSUME NEW a \in Any, NEW b \in Any, NEW c \in Any, Covers(c, b), Covers(b, a) PROVE Covers(c, a)
  OBVIOUS
<1>1. a.n \in Nat /\ b.n \in Nat /\ c.n \in Nat
  BY NumberOf
<1> QED BY <1>1 DEF Covers

\* Removing the row of an epoch leaves the others, in order.
LEMMA RowRemoved ==
  ASSUME RowsInv, NEW e
  PROVE  /\ Without(e) \in Seq(Any)
         /\ Range(Without(e)) = {r \in Range(outbox) : r.epoch # e}
         /\ \A i, j \in DOMAIN Without(e) : Without(e)[i].epoch = Without(e)[j].epoch => i = j
<1>1. outbox \in Seq(Any) /\ DOMAIN outbox = 1 .. Len(outbox) /\ Len(outbox) \in Nat
      /\ \A i, j \in DOMAIN outbox : outbox[i].epoch = outbox[j].epoch => i = j
  BY DEF RowsInv
<1>2. CASE RowOf(e) = {}
  <2>1. Without(e) = outbox
    BY <1>2 DEF Without
  <2>2. \A r \in Range(outbox) : r.epoch # e
    BY <1>2 DEF RowOf
  <2> QED BY <1>1, <2>1, <2>2
<1>3. CASE RowOf(e) # {}
  <2> DEFINE i == CHOOSE i \in DOMAIN outbox : outbox[i].epoch = e
  <2>1. i \in DOMAIN outbox /\ outbox[i].epoch = e
    BY <1>3 DEF RowOf, Range
  <2>2. Without(e) = SubSeq(outbox, 1, i - 1) \o SubSeq(outbox, i + 1, Len(outbox))
    BY <1>3 DEF Without
  <2> HIDE DEF i
  <2> DEFINE w == Without(e)
  <2>3. /\ w \in Seq(Any) /\ DOMAIN w = 1 .. Len(outbox) - 1
        /\ \A j \in DOMAIN w : w[j] = IF j < i THEN outbox[j] ELSE outbox[j + 1]
    <3> DEFINE a == SubSeq(outbox, 1, i - 1)
               b == SubSeq(outbox, i + 1, Len(outbox))
    <3>1. a \in Seq(Any) /\ Len(a) = i - 1 /\ \A j \in 1 .. i - 1 : a[j] = outbox[j]
      BY <1>1, <2>1
    <3>2. b \in Seq(Any) /\ Len(b) = Len(outbox) - i /\ \A j \in 1 .. Len(outbox) - i : b[j] = outbox[i + j]
      BY <1>1, <2>1
    <3>3. w = a \o b
      BY <2>2
    <3> HIDE DEF a, b, w
    <3>4. (i - 1) + (Len(outbox) - i) = Len(outbox) - 1
      BY <1>1, <2>1
    <3>5. /\ w \in Seq(Any) /\ Len(w) = Len(outbox) - 1 /\ DOMAIN w = 1 .. Len(outbox) - 1
          /\ \A j \in 1 .. Len(outbox) - 1 : w[j] = IF j <= i - 1 THEN a[j] ELSE b[j - (i - 1)]
      BY <3>1, <3>2, <3>3, <3>4, ConcatProperties
    <3>6. ASSUME NEW j \in 1 .. Len(outbox) - 1 PROVE w[j] = IF j < i THEN outbox[j] ELSE outbox[j + 1]
      <4>1. CASE j < i
        BY <1>1, <2>1, <3>1, <3>5, <4>1
      <4>2. CASE ~(j < i)
        <5>1. j - (i - 1) \in 1 .. Len(outbox) - i /\ i + (j - (i - 1)) = j + 1 /\ ~(j <= i - 1)
          BY <1>1, <2>1, <4>2
        <5> QED BY <3>2, <3>5, <4>2, <5>1
      <4> QED BY <4>1, <4>2
    <3> QED BY <3>5, <3>6
  <2> HIDE DEF w
  <2>4. \A j \in DOMAIN w : \E k \in DOMAIN outbox : k # i /\ w[j] = outbox[k] /\ k = IF j < i THEN j ELSE j + 1
    BY <1>1, <2>1, <2>3
  <2>5. \A k \in DOMAIN outbox : k # i => \E j \in DOMAIN w : w[j] = outbox[k]
    <3> SUFFICES ASSUME NEW k \in DOMAIN outbox, k # i PROVE \E j \in DOMAIN w : w[j] = outbox[k]
      OBVIOUS
    <3>1. CASE k < i
      BY <1>1, <2>1, <2>3, <3>1
    <3>2. CASE k > i
      <4>1. k - 1 \in DOMAIN w /\ ~(k - 1 < i) /\ (k - 1) + 1 = k
        BY <1>1, <2>1, <2>3, <3>2
      <4> QED BY <2>3, <4>1
    <3> QED BY <1>1, <2>1, <3>1, <3>2
  <2>6. Range(w) = {r \in Range(outbox) : r.epoch # e}
    <3>1. ASSUME NEW r \in Range(w) PROVE r \in Range(outbox) /\ r.epoch # e
      BY <1>1, <2>1, <2>4 DEF Range
    <3>2. ASSUME NEW r \in Range(outbox), r.epoch # e PROVE r \in Range(w)
      BY <2>1, <2>5, <3>2 DEF Range
    <3> QED BY <3>1, <3>2
  <2>7. \A j, k \in DOMAIN w : w[j].epoch = w[k].epoch => j = k
    BY <1>1, <2>1, <2>3, <2>4
  <2> QED BY <2>3, <2>6, <2>7 DEF w
<1> QED BY <1>2, <1>3

----------------------------------------------------------------------------
(* What the steps share.                                                   *)

\* The session only goes forward.
Forward == \A s \in Streams : signed[s] <= signed'[s]

LEMMA CountFrame ==
  ASSUME CountInv, UNCHANGED <<offered, signed, accepted>> PROVE CountInv' /\ Forward
BY DEF CountInv, Forward

LEMMA AcknowledgesForward ==
  ASSUME CountInv, NEW s \in Streams, NEW n, Acknowledges(s[1], s[2], n), UNCHANGED provider
  PROVE  CountInv' /\ Forward /\ n \in Nat /\ signed'[s] = n
<1>1. s = <<s[1], s[2]>>
  BY OutboxAssumption
<1>2. /\ offered \in [Streams -> Nat] /\ signed \in [Streams -> Nat] /\ accepted \in [Streams -> Nat]
      /\ offered' = offered /\ accepted' = accepted
  BY DEF CountInv, provider
<1>3. n \in 1 .. offered[s] /\ (n = signed[s] + 1 \/ n = signed[s]) /\ signed' = [signed EXCEPT ![s] = n]
  BY <1>1 DEF Acknowledges
<1>4. n \in Nat /\ n <= offered[s] /\ signed[s] <= n
  BY <1>2, <1>3
<1>5. signed' \in [Streams -> Nat] /\ \A t \in Streams : signed'[t] = IF t = s THEN n ELSE signed[t]
  BY <1>2, <1>3, <1>4
<1>6. Forward
  BY <1>2, <1>4, <1>5 DEF Forward
<1>7. CountInv'
  BY <1>2, <1>4, <1>5 DEF CountInv
<1> QED BY <1>4, <1>5, <1>6, <1>7

\* What is signed stays signed.
LEMMA StillSigned ==
  ASSUME CountInv, CountInv', Forward, NEW a \in Any, Signed(a) PROVE Signed(a)'
BY PayloadOf DEF CountInv, Forward, Signed

\* The rows stay, and nothing new is delivered but rows, nor sent but deliveries.
LEMMA RowsFrame ==
  ASSUME RowsInv, CountInv, CountInv', Forward, outbox' = outbox,
         deliveries' \subseteq deliveries \cup Range(outbox), network' \subseteq network \cup deliveries
  PROVE  RowsInv'
<1>1. Range(outbox) \subseteq Any
  BY DEF RowsInv, Range
<1>2. deliveries' \subseteq Any /\ network' \subseteq Any
  BY <1>1 DEF RowsInv
<1>3. \A a \in Range(outbox) \cup deliveries' \cup network' : a \in Any /\ Signed(a)
  BY <1>1, <1>2 DEF RowsInv
<1>4. \A a \in Range(outbox) \cup deliveries' \cup network' : Signed(a)'
  BY <1>3, StillSigned
<1>5. Range(outbox)' = Range(outbox)
  BY DEF Range
<1> QED BY <1>2, <1>4, <1>5 DEF RowsInv

LEMMA QueueFrame ==
  ASSUME QueueInv, outbox' = outbox, queued' = queued, sent \subseteq sent', sent' \subseteq Any,
         retry' \/ Range(outbox) \subseteq deliveries' \/ "load" \in faults'
  PROVE  QueueInv'
<1>1. Range(outbox)' = Range(outbox)
  BY DEF Range
<1>2. \A a \in queued : \E b \in Range(outbox) \cup sent' : Covers(b, a)
  BY DEF QueueInv
<1> QED BY <1>1, <1>2 DEF QueueInv, Covers

LEMMA AppendRow ==
  ASSUME NEW S, NEW w \in Seq(S), NEW a \in S
  PROVE  /\ Append(w, a) \in Seq(S) /\ DOMAIN Append(w, a) = 1 .. Len(w) + 1
         /\ \A i \in 1 .. Len(w) : Append(w, a)[i] = w[i]
         /\ Append(w, a)[Len(w) + 1] = a
         /\ Range(Append(w, a)) = Range(w) \cup {a}
<1>1. /\ Append(w, a) \in Seq(S) /\ DOMAIN Append(w, a) = 1 .. Len(w) + 1
      /\ \A i \in 1 .. Len(w) : Append(w, a)[i] = w[i]
      /\ Append(w, a)[Len(w) + 1] = a /\ Len(w) \in Nat /\ DOMAIN w = 1 .. Len(w)
  OBVIOUS
<1>2. ASSUME NEW r \in Range(Append(w, a)) PROVE r \in Range(w) \cup {a}
  <2>1. PICK i \in 1 .. Len(w) + 1 : r = Append(w, a)[i]
    BY <1>1 DEF Range
  <2>2. i \in 1 .. Len(w) \/ i = Len(w) + 1
    BY <1>1
  <2> QED BY <1>1, <2>1, <2>2 DEF Range
<1>3. ASSUME NEW r \in Range(w) PROVE r \in Range(Append(w, a))
  <2>1. PICK i \in 1 .. Len(w) : r = w[i]
    BY <1>1 DEF Range
  <2>2. i \in 1 .. Len(w) + 1
    BY <1>1
  <2> QED BY <1>1, <2>1, <2>2 DEF Range
<1>4. a \in Range(Append(w, a))
  <2>1. Len(w) + 1 \in 1 .. Len(w) + 1
    BY <1>1
  <2> QED BY <1>1, <2>1 DEF Range
<1> QED BY <1>1, <1>2, <1>3, <1>4

----------------------------------------------------------------------------
(* The providers and the network.                                          *)

LEMMA OfferInv ==
  ASSUME OutboxInv, NEW s \in Streams,
         \/ s[2] \in Relays /\ make_routing_receipt_offer(s[1], s[2])
         \/ s[2] \in Exits /\ make_service_receipt_offer(s[1], s[2])
  PROVE  OutboxInv'
<1>1. s = <<s[1], s[2]>>
  BY OutboxAssumption
<1>2. /\ offered' = [offered EXCEPT ![s] = @ + 1]
      /\ s[2] \in Relays => accepted[s] = offered[s]
      /\ UNCHANGED <<signed, outbox, deliveries, retry, network, accepted, faults, crashes, history>>
  BY <1>1, OutboxAssumption DEF make_routing_receipt_offer, make_service_receipt_offer
<1>3. CountInv' /\ Forward
  <2>1. /\ offered \in [Streams -> Nat] /\ signed \in [Streams -> Nat] /\ accepted \in [Streams -> Nat]
        /\ signed' = signed /\ accepted' = accepted
    BY <1>2 DEF OutboxInv, CountInv
  <2>2. offered' \in [Streams -> Nat] /\ \A t \in Streams : offered'[t] = IF t = s THEN offered[s] + 1 ELSE offered[t]
    BY <1>2, <2>1
  <2> QED BY <1>2, <2>1, <2>2 DEF OutboxInv, CountInv, Forward
<1>4. RowsInv'
  BY <1>2, <1>3, RowsFrame DEF OutboxInv
<1>5. QueueInv'
  BY <1>2, QueueFrame DEF OutboxInv, QueueInv, history
<1> QED BY <1>3, <1>4, <1>5 DEF OutboxInv

LEMMA AcceptInv ==
  ASSUME OutboxInv, NEW a \in network, accept_service_receipt(a) \/ lose(a) PROVE OutboxInv'
<1>1. /\ UNCHANGED <<offered, signed, outbox, deliveries, retry, faults, crashes, history>>
      /\ network' \subseteq network
      /\ \/ accepted' = [accepted EXCEPT ![<<a.epoch, a.provider>>] = IF a.n > @ THEN a.n ELSE @]
         \/ accepted' = accepted
  BY DEF accept_service_receipt, lose, provider
<1>2. a \in Any /\ Signed(a)
  BY DEF OutboxInv, RowsInv
<1>3. CountInv' /\ Forward
  <2> DEFINE s == <<a.epoch, a.provider>>
  <2>1. s \in Streams /\ a.n \in Nat /\ a.n <= signed[s]
    BY <1>2, PayloadOf DEF Signed
  <2> HIDE DEF s
  <2>2. /\ offered \in [Streams -> Nat] /\ signed \in [Streams -> Nat] /\ accepted \in [Streams -> Nat]
        /\ signed' = signed /\ offered' = offered
    BY <1>1 DEF OutboxInv, CountInv
  <2>3. /\ accepted' \in [Streams -> Nat]
        /\ \A t \in Streams : accepted[t] <= accepted'[t] /\ (accepted'[t] = accepted[t] \/ (t = s /\ accepted'[t] = a.n))
    <3>1. CASE accepted' = accepted
      BY <2>2, <3>1
    <3>2. CASE accepted' = [accepted EXCEPT ![s] = IF a.n > @ THEN a.n ELSE @]
      BY <2>1, <2>2, <3>2
    <3> QED BY <1>1, <3>1, <3>2 DEF s
  <2>4. ASSUME NEW t \in Streams
        PROVE  accepted'[t] <= signed'[t] /\ signed'[t] <= offered'[t] /\ (t[2] \in Relays => offered'[t] <= accepted'[t] + 1)
    BY <2>1, <2>2, <2>3 DEF OutboxInv, CountInv
  <2> QED BY <2>2, <2>3, <2>4 DEF CountInv, Forward
<1>4. RowsInv'
  BY <1>1, <1>3, RowsFrame DEF OutboxInv
<1>5. QueueInv'
  BY <1>1, QueueFrame DEF OutboxInv, QueueInv, history
<1> QED BY <1>3, <1>4, <1>5 DEF OutboxInv

----------------------------------------------------------------------------
(* The payer.                                                              *)

\* The first batch is all there is unless more rows wait for the next one.
LEMMA ReplayTakesRows ==
  ASSUME RowsInv
  PROVE  NextBatch \subseteq Range(outbox) /\ (Len(outbox) > Batch \/ Range(outbox) \subseteq NextBatch)
<1>1. outbox \in Seq(Any) /\ DOMAIN outbox = 1 .. Len(outbox) /\ Len(outbox) \in Nat /\ Batch \in Nat
  BY OutboxAssumption DEF RowsInv
<1>2. NextBatch \subseteq Range(outbox)
  BY DEF NextBatch, Range
<1>3. ASSUME ~(Len(outbox) > Batch), NEW r \in Range(outbox) PROVE r \in NextBatch
  <2>1. PICK i \in DOMAIN outbox : r = outbox[i]
    BY DEF Range
  <2>2. i <= Batch
    BY <1>1, <1>3
  <2> QED BY <2>1, <2>2 DEF NextBatch
<1> QED BY <1>2, <1>3

LEMMA ReplayInv ==
  ASSUME OutboxInv, CountInv', Forward, NEW before \in SUBSET deliveries,
         UNCHANGED <<outbox, network, history>>,
         \/ replay_persisted_receipt_acknowledgements(before) /\ UNCHANGED faults
         \/ load_fails(before)
  PROVE  OutboxInv'
<1>1. CASE replay_persisted_receipt_acknowledgements(before)
  <2>1. deliveries' \subseteq deliveries \cup Range(outbox) /\ (retry' \/ Range(outbox) \subseteq deliveries')
    BY <1>1, ReplayTakesRows DEF OutboxInv, replay_persisted_receipt_acknowledgements
  <2>2. RowsInv'
    BY <2>1, RowsFrame DEF OutboxInv
  <2>3. QueueInv'
    BY <2>1, QueueFrame DEF OutboxInv, QueueInv, history
  <2> QED BY <2>2, <2>3 DEF OutboxInv
<1>2. CASE load_fails(before)
  <2>1. deliveries' \subseteq deliveries /\ "load" \in faults'
    BY <1>2 DEF load_fails, Fault
  <2>2. RowsInv'
    BY <2>1, RowsFrame DEF OutboxInv
  <2>3. QueueInv'
    BY <2>1, QueueFrame DEF OutboxInv, QueueInv, history
  <2> QED BY <2>2, <2>3 DEF OutboxInv
<1> QED BY <1>1, <1>2

LEMMA RetryInv == ASSUME OutboxInv, RetryReceiptAcknowledgements PROVE OutboxInv'
<1>1. CountInv' /\ Forward
  BY CountFrame DEF OutboxInv, RetryReceiptAcknowledgements, provider
<1> QED BY <1>1, ReplayInv DEF RetryReceiptAcknowledgements

LEMMA RestartInv == ASSUME OutboxInv, restart PROVE OutboxInv'
<1>1. CountInv' /\ Forward
  <2>1. CASE UNCHANGED signed
    BY <2>1, CountFrame DEF OutboxInv, restart, provider
  <2>2. CASE \E s \in Streams : Acknowledges(s[1], s[2], signed[s] + 1)
    <3>1. PICK s \in Streams : Acknowledges(s[1], s[2], signed[s] + 1)
      BY <2>2
    <3> DEFINE n == signed[s] + 1
    <3>2. Acknowledges(s[1], s[2], n) /\ UNCHANGED provider
      BY <3>1 DEF restart
    <3> HIDE DEF n
    <3> QED BY <3>2, AcknowledgesForward DEF OutboxInv
  <2> QED BY <2>1, <2>2 DEF restart
<1> QED BY <1>1, ReplayInv DEF restart

LEMMA DeliverInv ==
  ASSUME OutboxInv, NEW a \in deliveries, deliver_receipt_acknowledgement(a) \/ delivery_fails(a)
  PROVE  OutboxInv'
<1>1. CountInv' /\ Forward
  BY CountFrame DEF OutboxInv, deliver_receipt_acknowledgement, delivery_fails, provider
<1>2. a \in Any
  BY DEF OutboxInv, RowsInv
<1>3. deliveries' = deliveries \ {a} /\ network' \subseteq network \cup {a} /\ queued' = queued
      /\ sent \subseteq sent' /\ sent' \subseteq sent \cup {a}
  BY DEF deliver_receipt_acknowledgement, delivery_fails, history
<1>4. CASE outbox' = outbox /\ (retry' \/ (a \notin Range(outbox) /\ UNCHANGED <<retry, faults>>))
  <2>1. RowsInv'
    BY <1>1, <1>3, <1>4, RowsFrame DEF OutboxInv
  <2>2. QueueInv'
    BY <1>2, <1>3, <1>4, QueueFrame DEF OutboxInv, QueueInv
  <2> QED BY <1>1, <2>1, <2>2 DEF OutboxInv
<1>5. CASE a \in Range(outbox) /\ outbox' = Without(a.epoch) /\ UNCHANGED <<retry, faults>> /\ sent' = sent \cup {a}
  <2>1. /\ outbox' \in Seq(Any)
        /\ Range(outbox)' = {r \in Range(outbox) : r.epoch # a.epoch}
        /\ \A i, j \in DOMAIN outbox' : outbox'[i].epoch = outbox'[j].epoch => i = j
    <3>1. Range(outbox)' = Range(outbox')
      BY DEF Range
    <3> QED BY <1>5, <3>1, RowRemoved DEF OutboxInv
  <2>2. RowsInv'
    <3>1. deliveries' \subseteq Any /\ network' \subseteq Any
          /\ \A b \in Range(outbox)' \cup deliveries' \cup network' : b \in Any /\ Signed(b)
      BY <1>3, <2>1 DEF OutboxInv, RowsInv, Range
    <3>2. \A b \in Range(outbox)' \cup deliveries' \cup network' : Signed(b)'
      BY <1>1, <3>1, StillSigned DEF OutboxInv
    <3> QED BY <2>1, <3>1, <3>2 DEF RowsInv
  <2>3. \A r \in Range(outbox) : r = a \/ r \in Range(outbox)'
    BY <1>5, <2>1 DEF OutboxInv, RowsInv, Range
  <2>4. \A b \in queued : \E c \in Range(outbox)' \cup sent' : Covers(c, b)
    BY <1>3, <1>5, <2>3 DEF OutboxInv, QueueInv
  <2>5. retry \/ Range(outbox)' \subseteq deliveries' \/ "load" \in faults
    BY <1>3, <2>1 DEF OutboxInv, QueueInv
  <2>6. QueueInv'
    BY <1>2, <1>3, <1>5, <2>4, <2>5 DEF OutboxInv, QueueInv, Covers
  <2> QED BY <1>1, <2>2, <2>6 DEF OutboxInv
<1>6. \/ outbox' = outbox /\ (retry' \/ (a \notin Range(outbox) /\ UNCHANGED <<retry, faults>>))
      \/ a \in Range(outbox) /\ outbox' = Without(a.epoch) /\ UNCHANGED <<retry, faults>> /\ sent' = sent \cup {a}
  BY DEF deliver_receipt_acknowledgement, delivery_fails, delete
<1> QED BY <1>4, <1>5, <1>6

LEMMA AcknowledgeInv ==
  ASSUME OutboxInv, NEW a \in Any, acknowledge(a.epoch, a.provider, a.n) PROVE OutboxInv'
<1> DEFINE s == <<a.epoch, a.provider>>
<1>1. s \in Streams /\ a = Payload(a.epoch, a.provider, a.n) /\ a.n \in Nat
  BY PayloadOf
<1>2. Acknowledges(s[1], s[2], a.n) /\ UNCHANGED <<provider, retry, network, crashes, sent>>
  BY DEF acknowledge
<1> HIDE DEF s
<1>3. CountInv' /\ Forward /\ signed'[s] = a.n
  BY <1>1, <1>2, AcknowledgesForward DEF OutboxInv
<1>4. Signed(a)'
  BY <1>1, <1>3 DEF Signed, s
<1>5. CASE UNCHANGED <<outbox, deliveries, queued>> /\ faults \subseteq faults'
  <2>1. RowsInv'
    BY <1>2, <1>3, <1>5, RowsFrame DEF OutboxInv
  <2>2. QueueInv'
    BY <1>2, <1>5, QueueFrame DEF OutboxInv, QueueInv
  <2> QED BY <1>3, <2>1, <2>2 DEF OutboxInv
<1>6. CASE /\ ~ IdentityMismatch(a) /\ outbox' = enqueue(a) /\ deliveries' = deliveries \cup {a}
           /\ queued' = queued \cup {a} /\ UNCHANGED faults
  <2>1. \A r \in RowOf(a.epoch) : r.provider = a.provider
    BY <1>6 DEF IdentityMismatch
  <2>2. Range(outbox)' = Range(outbox')
    BY DEF Range
  <2>3. /\ outbox' \in Seq(Any) /\ Range(outbox') \subseteq Range(outbox) \cup {a}
        /\ \A i, j \in DOMAIN outbox' : outbox'[i].epoch = outbox'[j].epoch => i = j
        /\ \A r \in Range(outbox) \cup {a} : \E b \in Range(outbox') : Covers(b, r)
    <3>1. CASE \E r \in RowOf(a.epoch) : r.n >= a.n
      <4>1. outbox' = outbox
        BY <1>6, <3>1 DEF enqueue
      <4>2. \E b \in Range(outbox) : Covers(b, a)
        BY <2>1, <3>1 DEF RowOf, Covers
      <4>3. \A r \in Range(outbox) : r \in Any
        BY DEF OutboxInv, RowsInv, Range
      <4>4. \A r \in Range(outbox) : Covers(r, r)
        BY <4>3, CoversSelf
      <4> QED BY <4>1, <4>2, <4>4 DEF OutboxInv, RowsInv
    <3>2. CASE ~ \E r \in RowOf(a.epoch) : r.n >= a.n
      <4> DEFINE w == Without(a.epoch)
      <4>1. outbox' = Append(w, a)
        BY <1>6, <3>2 DEF enqueue, Replaced
      <4>2. w \in Seq(Any) /\ Range(w) = {r \in Range(outbox) : r.epoch # a.epoch}
            /\ \A i, j \in DOMAIN w : w[i].epoch = w[j].epoch => i = j
        BY RowRemoved DEF OutboxInv
      <4> HIDE DEF w
      <4>3. /\ outbox' \in Seq(Any) /\ DOMAIN outbox' = 1 .. Len(w) + 1
            /\ \A i \in 1 .. Len(w) : outbox'[i] = w[i]
            /\ outbox'[Len(w) + 1] = a /\ Range(outbox') = Range(w) \cup {a}
        BY <4>1, <4>2, AppendRow
      <4>4. DOMAIN w = 1 .. Len(w) /\ Len(w) \in Nat
        BY <4>2
      <4>5. \A i \in 1 .. Len(w) : w[i].epoch # a.epoch
        BY <4>2, <4>4 DEF Range
      <4>6. \A i, j \in DOMAIN outbox' : outbox'[i].epoch = outbox'[j].epoch => i = j
        <5> SUFFICES ASSUME NEW i \in 1 .. Len(w) + 1, NEW j \in 1 .. Len(w) + 1,
                            outbox'[i].epoch = outbox'[j].epoch
                     PROVE  i = j
          BY <4>3
        <5>1. (i \in 1 .. Len(w) \/ i = Len(w) + 1) /\ (j \in 1 .. Len(w) \/ j = Len(w) + 1)
          BY <4>4
        <5> QED BY <4>2, <4>3, <4>4, <4>5, <5>1
      <4>7. ASSUME NEW r \in Range(outbox) \cup {a} PROVE \E b \in Range(outbox') : Covers(b, r)
        <5>1. r \in Any
          BY DEF OutboxInv, RowsInv, Range
        <5>2. CASE r.epoch # a.epoch
          BY <4>2, <4>3, <5>1, <5>2, CoversSelf
        <5>3. CASE r.epoch = a.epoch
          <6>1. r = a \/ (r.provider = a.provider /\ ~(r.n >= a.n))
            BY <2>1, <3>2, <5>3 DEF RowOf
          <6>2. Covers(a, r)
            <7>1. a.n \in Nat /\ r.n \in Nat
              BY <1>1, <5>1, NumberOf
            <7>2. a.n >= r.n
              BY <6>1, <7>1
            <7> QED BY <5>3, <6>1, <7>2 DEF Covers
          <6> QED BY <4>3, <6>2
        <5> QED BY <5>2, <5>3
      <4> QED BY <4>2, <4>3, <4>6, <4>7
    <3> QED BY <3>1, <3>2
  <2>4. RowsInv'
    <3>1. /\ deliveries' \subseteq Any /\ network' \subseteq Any
          /\ \A b \in Range(outbox') \cup deliveries' \cup network' : b = a \/ (b \in Any /\ Signed(b))
      <4>1. deliveries \subseteq Any /\ network \subseteq Any /\ Range(outbox) \subseteq Any
            /\ \A b \in Range(outbox) \cup deliveries \cup network : Signed(b)
        BY DEF OutboxInv, RowsInv, Range
      <4> QED BY <1>2, <1>6, <2>3, <4>1
    <3>2. \A b \in Range(outbox)' \cup deliveries' \cup network' : Signed(b)'
      BY <1>3, <1>4, <2>2, <3>1, StillSigned DEF OutboxInv
    <3> QED BY <2>3, <3>1, <3>2 DEF RowsInv
  <2>5. \A b \in queued' : \E c \in Range(outbox') \cup sent : Covers(c, b)
    <3> SUFFICES ASSUME NEW b \in queued' PROVE \E c \in Range(outbox') \cup sent : Covers(c, b)
      OBVIOUS
    <3>1. CASE b = a
      BY <2>3, <3>1
    <3>2. CASE b \in queued
      <4>1. PICK c \in Range(outbox) \cup sent : Covers(c, b)
        BY <3>2 DEF OutboxInv, QueueInv
      <4>2. CASE c \in sent
        BY <4>1, <4>2
      <4>3. CASE c \in Range(outbox)
        <5>1. PICK d \in Range(outbox') : Covers(d, c)
          BY <2>3, <4>3
        <5>2. b \in Any /\ c \in Any /\ d \in Any
          BY <2>3, <3>2, <4>3 DEF OutboxInv, QueueInv, RowsInv, Range
        <5>3. Covers(d, b)
          BY <4>1, <5>1, <5>2, CoversTrans
        <5> QED BY <5>3
      <4> QED BY <4>2, <4>3
    <3> QED BY <1>6, <3>1, <3>2
  <2>6. retry \/ Range(outbox') \subseteq deliveries' \/ "load" \in faults
    BY <1>6, <2>3 DEF OutboxInv, QueueInv
  <2>7. QueueInv'
    BY <1>2, <1>6, <2>2, <2>5, <2>6 DEF OutboxInv, QueueInv, Covers
  <2> QED BY <1>3, <2>4, <2>7 DEF OutboxInv
<1>7. \/ UNCHANGED <<outbox, deliveries, queued>> /\ faults \subseteq faults'
      \/ /\ ~ IdentityMismatch(a) /\ outbox' = enqueue(a) /\ deliveries' = deliveries \cup {a}
         /\ queued' = queued \cup {a} /\ UNCHANGED faults
  BY <1>1 DEF acknowledge, Fault
<1> QED BY <1>5, <1>6, <1>7

----------------------------------------------------------------------------
LEMMA OutboxStarts == ASSUME Init PROVE OutboxInv
<1>1. Range(<<>>) = {} /\ <<>> \in Seq(Any) /\ DOMAIN <<>> = {}
  BY DEF Range
<1>2. RowsInv
  BY <1>1 DEF Init, RowsInv
<1>3. QueueInv
  BY <1>1 DEF Init, QueueInv
<1>4. CountInv
  BY DEF Init, CountInv
<1> QED BY <1>2, <1>3, <1>4 DEF OutboxInv

LEMMA OutboxStep == ASSUME OutboxInv, [Next]_vars PROVE OutboxInv'
<1>1. CASE \E s \in Streams : s[2] \in Relays /\ make_routing_receipt_offer(s[1], s[2])
  BY <1>1, OfferInv
<1>2. CASE \E s \in Streams : s[2] \in Exits /\ make_service_receipt_offer(s[1], s[2])
  BY <1>2, OfferInv
<1>3. CASE \E a \in network : accept_service_receipt(a) \/ lose(a)
  BY <1>3, AcceptInv
<1>4. CASE \E a \in Payloads : acknowledge(a.epoch, a.provider, a.n)
  BY <1>4, AcknowledgeInv, PayloadsAreAny
<1>5. CASE \E a \in deliveries : deliver_receipt_acknowledgement(a) \/ delivery_fails(a)
  BY <1>5, DeliverInv
<1>6. CASE RetryReceiptAcknowledgements
  BY <1>6, RetryInv
<1>7. CASE restart
  BY <1>7, RestartInv
<1>8. CASE UNCHANGED vars
  <2>1. CountInv' /\ Forward
    BY <1>8, CountFrame DEF OutboxInv, vars
  <2>2. RowsInv'
    BY <1>8, <2>1, RowsFrame DEF OutboxInv, vars
  <2>3. QueueInv'
    BY <1>8, QueueFrame DEF OutboxInv, QueueInv, vars, history
  <2> QED BY <2>1, <2>2, <2>3 DEF OutboxInv
<1> QED BY <1>1, <1>2, <1>3, <1>4, <1>5, <1>6, <1>7, <1>8 DEF Next

(* An acknowledgement the outbox has taken is not lost, its rows are       *)
(* delivered or replayed, one per route epoch, and a relay and its payer   *)
(* stay within the pending receipt: for any streams, batch size, faults    *)
(* and restarts.                                                           *)
THEOREM AcknowledgementsKept == Spec => []AcknowledgementIsKept
<1>1. Init => OutboxInv
  BY OutboxStarts
<1>2. OutboxInv /\ [Next]_vars => OutboxInv'
  BY OutboxStep
<1>3. OutboxInv => AcknowledgementIsKept
  <2> SUFFICES ASSUME OutboxInv PROVE AcknowledgementIsKept
    OBVIOUS
  <2>1. IsInjective([i \in DOMAIN outbox |-> outbox[i].epoch])
    BY DEF OutboxInv, RowsInv, IsInjective
  <2>2. \A s \in Streams : s[2] \in Relays =>
          accepted[s] <= signed[s] /\ signed[s] <= offered[s] /\ offered[s] <= accepted[s] + 1
    BY DEF OutboxInv, CountInv
  <2> QED BY <2>1, <2>2 DEF OutboxInv, QueueInv, AcknowledgementIsKept
<1> QED BY <1>1, <1>2, <1>3, PTL DEF Spec
============================================================================
