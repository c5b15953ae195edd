---------------------------- MODULE FramingProofs ---------------------------
(***************************************************************************)
(* Blocks keep their own units, messages arrive in order and a close loses *)
(* nothing, for any messages, buffer and record sizes and any faults.      *)
(*                                                                         *)
(* The units of all messages, one after the other, are one stream (All).   *)
(* A reader of it is at a cursor: behind so many units, with so many more  *)
(* missing of the block it is in.  A record that begins a block may be     *)
(* read by one who misses nothing, a record that goes on with it by one    *)
(* who misses at least its units, and either takes the reader to another   *)
(* cursor.  The invariant is that the receiver's state is that of a reader *)
(* at some cursor, that the records on the wire lead from there to another *)
(* and that the records still to be written lead from that to the end of   *)
(* what the sender has packed; after a stall the last does not matter.  A  *)
(* partial read is a record taken in two parts.                            *)
(*                                                                         *)
(* Before counts the units of the first messages.  No message is empty, so *)
(* it is injective: where a block ends tells the messages that it has.     *)
(***************************************************************************)
EXTENDS Framing, SelectionProofs

-----------------------------------------------------------------------------
\* Two sequences, one after the other, element by element,
LEMMA ConcatIs ==
    ASSUME NEW S, NEW s \in Seq(S), NEW t \in Seq(S)
    PROVE  /\ s \o t \in Seq(S) /\ Len(s) \in Nat /\ Len(t) \in Nat
           /\ Len(s \o t) = Len(s) + Len(t)
           /\ \A i \in 1 .. Len(s) : (s \o t)[i] = s[i]
           /\ \A i \in 1 .. Len(t) : (s \o t)[Len(s) + i] = t[i]
OBVIOUS

\* and when they are the same.
LEMMA SameElements ==
    ASSUME NEW S, NEW s \in Seq(S), NEW t \in Seq(S), Len(s) = Len(t),
           \A i \in 1 .. Len(s) : s[i] = t[i]
    PROVE  s = t
OBVIOUS

-----------------------------------------------------------------------------
(***************************************************************************)
(* The recursion of Payload.                                               *)
(***************************************************************************)
\* f lists the payloads of every beginning of ms up to its first n messages.
Fills(f, ms, n) ==
    f = [j \in 0 .. n |-> IF j = 0 THEN << >> ELSE f[j - 1] \o Encoding(ms[j])]

\* There is such a function,
LEMMA FillsExist ==
    ASSUME NEW ms, NEW n \in Nat
    PROVE  \E f : Fills(f, ms, n)
<1>. DEFINE Good == {i \in Nat : \E f : Fills(f, ms, i)}
<1>1. 0 \in Good
  <2>1. Fills([j \in 0 .. 0 |-> << >>], ms, 0)
    BY DEF Fills
  <2>. QED  BY <2>1
<1>2. ASSUME NEW i \in 0 .. n - 1, i \in Good
      PROVE  i + 1 \in Good
  <2>1. PICK f : Fills(f, ms, i)
    BY <1>2
  <2>. DEFINE g == [j \in 0 .. i + 1 |-> IF j <= i THEN f[j] ELSE f[i] \o Encoding(ms[i + 1])]
  <2>2. \A j \in 0 .. i : f[j] = IF j = 0 THEN << >> ELSE f[j - 1] \o Encoding(ms[j])
    BY <2>1 DEF Fills
  <2>3. \A j \in 0 .. i + 1 : g[j] = IF j = 0 THEN << >> ELSE g[j - 1] \o Encoding(ms[j])
    <3>. SUFFICES ASSUME NEW j \in 0 .. i + 1
                  PROVE  g[j] = IF j = 0 THEN << >> ELSE g[j - 1] \o Encoding(ms[j])
      OBVIOUS
    <3>1. CASE j <= i
      <4>1. g[j] = f[j] /\ (j # 0 => g[j - 1] = f[j - 1])
        BY <3>1
      <4>2. j \in 0 .. i
        BY <3>1
      <4>. HIDE DEF g
      <4>. QED  BY <2>2, <4>1, <4>2
    <3>2. CASE j = i + 1
      BY <3>2
    <3>. QED  BY <3>1, <3>2
  <2>4. g = [j \in 0 .. i + 1 |-> IF j = 0 THEN << >> ELSE g[j - 1] \o Encoding(ms[j])]
    <3>1. g = [j \in 0 .. i + 1 |-> g[j]]
      OBVIOUS
    <3>. HIDE DEF g
    <3>. QED  BY <2>3, <3>1
  <2>. HIDE DEF g
  <2>5. Fills(g, ms, i + 1)
    BY <2>4 DEF Fills
  <2>6. i + 1 \in Nat
    OBVIOUS
  <2>. QED  BY <2>5, <2>6
<1>. HIDE DEF Good
<1>3. n \in Good
  BY <1>1, <1>2, UpTo
<1>. QED  BY <1>3 DEF Good

\* and it is the same for two sequences that begin alike.
LEMMA FillsAgree ==
    ASSUME NEW s, NEW t, NEW n \in Nat, NEW m \in Nat, n <= m,
           \A i \in 1 .. n : s[i] = t[i],
           NEW f, Fills(f, s, n), NEW g, Fills(g, t, m)
    PROVE  f[n] = g[n]
<1>. DEFINE Good == {i \in 0 .. n : f[i] = g[i]}
<1>1. /\ \A i \in 0 .. n : f[i] = IF i = 0 THEN << >> ELSE f[i - 1] \o Encoding(s[i])
      /\ \A i \in 0 .. m : g[i] = IF i = 0 THEN << >> ELSE g[i - 1] \o Encoding(t[i])
  BY DEF Fills
<1>2. 0 \in Good
  BY <1>1
<1>3. ASSUME NEW i \in 0 .. n - 1, i \in Good
      PROVE  i + 1 \in Good
  <2>1. i + 1 \in 0 .. n /\ i + 1 \in 0 .. m /\ i + 1 \in 1 .. n /\ i + 1 # 0 /\ (i + 1) - 1 = i
    OBVIOUS
  <2>2. f[i] = g[i] /\ s[i + 1] = t[i + 1]
    BY <1>3, <2>1
  <2>3. f[i + 1] = f[i] \o Encoding(s[i + 1]) /\ g[i + 1] = g[i] \o Encoding(t[i + 1])
    BY <1>1, <2>1
  <2>. QED  BY <2>1, <2>2, <2>3
<1>. HIDE DEF Good
<1>4. n \in Good
  BY <1>2, <1>3, UpTo
<1>. QED  BY <1>4 DEF Good

\* Payload is the last value of such a function.
LEMMA PayloadIsLast ==
    ASSUME NEW ms, Len(ms) \in Nat
    PROVE  \E f : Fills(f, ms, Len(ms)) /\ Payload(ms) = f[Len(ms)]
<1>1. PICK g : Fills(g, ms, Len(ms))
  BY FillsExist
<1>. DEFINE f[j \in 0 .. Len(ms)] == IF j = 0 THEN << >> ELSE f[j - 1] \o Encoding(ms[j])
<1>2. f = [j \in 0 .. Len(ms) |-> IF j = 0 THEN << >> ELSE f[j - 1] \o Encoding(ms[j])]
  BY <1>1 DEF Fills
<1>3. Payload(ms) = f[Len(ms)]
  BY DEF Payload
<1>. HIDE DEF f
<1>. QED  BY <1>2, <1>3 DEF Fills

\* No message makes no payload, and one more message adds its encoding.
LEMMA PayloadRecursion ==
    /\ Payload(<< >>) = << >>
    /\ \A D : \A s \in Seq(D), x \in D : Payload(Append(s, x)) = Payload(s) \o Encoding(x)
<1>1. Payload(<< >>) = << >>
  <2>1. Len(<< >>) = 0
    OBVIOUS
  <2>2. PICK f : Fills(f, << >>, 0) /\ Payload(<< >>) = f[0]
    BY <2>1, PayloadIsLast
  <2>. QED  BY <2>2 DEF Fills
<1>2. ASSUME NEW D, NEW s \in Seq(D), NEW x \in D
      PROVE  Payload(Append(s, x)) = Payload(s) \o Encoding(x)
  <2>. DEFINE t == Append(s, x)
              n == Len(s)
  <2>1. n \in Nat /\ Len(t) = n + 1 /\ t[n + 1] = x /\ \A i \in 1 .. n : s[i] = t[i]
    OBVIOUS
  <2>. HIDE DEF t, n
  <2>2. PICK f : Fills(f, s, n) /\ Payload(s) = f[n]
    BY <2>1, PayloadIsLast DEF n
  <2>3. PICK g : Fills(g, t, n + 1) /\ Payload(t) = g[n + 1]
    BY <2>1, PayloadIsLast
  <2>4. f[n] = g[n]
    <3>1. n + 1 \in Nat /\ n <= n + 1
      BY <2>1
    <3>. QED  BY <2>1, <2>2, <2>3, <3>1, FillsAgree
  <2>5. g[n + 1] = g[n] \o Encoding(t[n + 1])
    <3>1. n + 1 \in 0 .. n + 1 /\ n + 1 # 0 /\ (n + 1) - 1 = n
      BY <2>1
    <3>. QED  BY <2>3, <3>1 DEF Fills
  <2>. QED  BY <2>1, <2>2, <2>3, <2>4, <2>5 DEF t
<1>. QED  BY <1>1, <1>2

-----------------------------------------------------------------------------
(***************************************************************************)
(* The units of messages.                                                  *)
(***************************************************************************)
Msgs  == 1 .. Len(Size)
Units == [is : {"part"}, of : Msgs, at : Nat \ {0}]

\* There is a message, and none is empty.
LEMMA Sizes ==
    Len(Size) \in Nat \ {0} /\ DOMAIN Size = Msgs /\ \A m \in Msgs : Size[m] \in Nat \ {0}
BY SizesAssumption DEF Msgs

\* The encoding of a message is as many units as its size says.
LEMMA EncodingTyped ==
    ASSUME NEW m \in Msgs
    PROVE  Encoding(m) \in Seq(Units) /\ Len(Encoding(m)) = Size[m]
<1>1. Size[m] \in Nat \ {0}
  BY Sizes
<1>2. \A i \in 1 .. Size[m] : Part(m, i) \in Units
  BY <1>1 DEF Part, Units
<1>3. Encoding(m) \in [1 .. Size[m] -> Units]
  BY <1>2 DEF Encoding
<1>. QED  BY <1>1, <1>3

\* A payload is units.
LEMMA PayloadTyped == \A ms \in Seq(Msgs) : Payload(ms) \in Seq(Units)
<1>. DEFINE Good == {ms \in Seq(Msgs) : Payload(ms) \in Seq(Units)}
<1>1. << >> \in Good
  <2>1. << >> \in Seq(Msgs) /\ << >> \in Seq(Units)
    OBVIOUS
  <2>. QED  BY <2>1, PayloadRecursion
<1>2. ASSUME NEW s \in Seq(Msgs), NEW x \in Msgs, s \in Good
      PROVE  Append(s, x) \in Good
  <2>1. Append(s, x) \in Seq(Msgs)
    OBVIOUS
  <2>2. PICK p \in Seq(Units) : p = Payload(s)
    BY <1>2
  <2>3. PICK q \in Seq(Units) : q = Encoding(x)
    BY EncodingTyped
  <2>4. p \o q \in Seq(Units)
    OBVIOUS
  <2>. QED  BY <2>1, <2>2, <2>3, <2>4, PayloadRecursion
<1>. HIDE DEF Good
<1>. QED  BY <1>1, <1>2, ByAppending DEF Good

\* The payload of two batches is that of the one and then that of the other.
LEMMA PayloadConcat ==
    ASSUME NEW s \in Seq(Msgs)
    PROVE  \A t \in Seq(Msgs) : Payload(s \o t) = Payload(s) \o Payload(t)
<1>. DEFINE Good == {t \in Seq(Msgs) : Payload(s \o t) = Payload(s) \o Payload(t)}
<1>0. PICK p \in Seq(Units) : p = Payload(s)
  BY PayloadTyped
<1>1. << >> \in Good
  <2>1. << >> \in Seq(Msgs) /\ s \o << >> = s /\ p \o << >> = p
    OBVIOUS
  <2>. QED  BY <1>0, <2>1, PayloadRecursion
<1>2. ASSUME NEW t \in Seq(Msgs), NEW x \in Msgs, t \in Good
      PROVE  Append(t, x) \in Good
  <2>1. Append(t, x) \in Seq(Msgs) /\ s \o t \in Seq(Msgs) /\ s \o Append(t, x) = Append(s \o t, x)
    OBVIOUS
  <2>2. PICK q \in Seq(Units) : q = Payload(t)
    BY PayloadTyped
  <2>3. PICK e \in Seq(Units) : e = Encoding(x)
    BY EncodingTyped
  <2>4. (p \o q) \o e = p \o (q \o e)
    OBVIOUS
  <2>5. Payload(s \o t) = p \o q
    BY <1>0, <1>2, <2>2
  <2>6. Payload(Append(t, x)) = q \o e
    BY <2>2, <2>3, PayloadRecursion
  <2>7. Payload(Append(s \o t, x)) = (p \o q) \o e
    <3>. DEFINE u == s \o t
    <3>1. u \in Seq(Msgs)
      BY <2>1
    <3>. HIDE DEF u
    <3>2. Payload(Append(u, x)) = Payload(u) \o Encoding(x)
      BY <3>1, PayloadRecursion
    <3>. QED  BY <2>3, <2>5, <3>2 DEF u
  <2>. QED  BY <1>0, <2>1, <2>4, <2>6, <2>7
<1>. HIDE DEF Good
<1>. QED  BY <1>1, <1>2, ByAppending DEF Good

\* The payload of one message is its encoding.
LEMMA PayloadOfOne == ASSUME NEW m \in Msgs PROVE Payload(<<m>>) = Encoding(m)
<1>1. << >> \in Seq(Msgs) /\ Append(<< >>, m) = <<m>>
  OBVIOUS
<1>2. PICK e \in Seq(Units) : e = Encoding(m)
  BY EncodingTyped
<1>3. << >> \o e = e
  OBVIOUS
<1>. QED  BY <1>1, <1>2, <1>3, PayloadRecursion

\* The messages after p up to q, as they are numbered.
From(p, q) == [i \in 1 .. q - p |-> p + i]

\* The messages after p up to q are so many messages,
LEMMA FromTyped ==
    ASSUME NEW p \in 0 .. Len(Size), NEW q \in p .. Len(Size)
    PROVE  From(p, q) \in Seq(Msgs) /\ Len(From(p, q)) = q - p
<1>1. Len(Size) \in Nat /\ q - p \in Nat
  BY Sizes
<1>2. From(p, q) \in [1 .. q - p -> Msgs]
  BY <1>1 DEF From, Msgs
<1>. QED  BY <1>1, <1>2

\* those after p up to r are those up to q and those after q,
LEMMA FromConcat ==
    ASSUME NEW p \in 0 .. Len(Size), NEW q \in p .. Len(Size), NEW r \in q .. Len(Size)
    PROVE  From(p, r) = From(p, q) \o From(q, r)
<1>1. Len(Size) \in Nat /\ q \in 0 .. Len(Size) /\ r \in p .. Len(Size)
  BY Sizes
<1>2. /\ From(p, r) \in Seq(Msgs) /\ Len(From(p, r)) = r - p
      /\ From(p, q) \in Seq(Msgs) /\ Len(From(p, q)) = q - p
      /\ From(q, r) \in Seq(Msgs) /\ Len(From(q, r)) = r - q
  BY <1>1, FromTyped
<1>3. PICK s \in Seq(Msgs) : s = From(p, q)
  BY <1>2
<1>4. PICK t \in Seq(Msgs) : t = From(q, r)
  BY <1>2
<1>5. PICK u \in Seq(Msgs) : u = s \o t
  BY ConcatIs
<1>6. /\ Len(u) = Len(s) + Len(t) /\ \A i \in 1 .. Len(s) : u[i] = s[i]
      /\ \A i \in 1 .. Len(t) : u[Len(s) + i] = t[i]
  BY <1>5, ConcatIs
<1>7. Len(s) = q - p /\ Len(t) = r - q /\ Len(u) = r - p
  BY <1>1, <1>2, <1>3, <1>4, <1>6
<1>8. \A i \in 1 .. r - p : u[i] = p + i
  <2>. SUFFICES ASSUME NEW i \in 1 .. r - p
                PROVE  u[i] = p + i
    OBVIOUS
  <2>1. CASE i <= q - p
    <3>1. i \in 1 .. q - p
      BY <1>1, <2>1
    <3>. QED  BY <1>3, <1>6, <1>7, <3>1 DEF From
  <2>2. CASE ~(i <= q - p)
    <3>1. i - (q - p) \in 1 .. r - q /\ (q - p) + (i - (q - p)) = i /\ q + (i - (q - p)) = p + i
      BY <1>1, <2>2
    <3>2. t[i - (q - p)] = p + i
      BY <1>4, <3>1 DEF From
    <3>. QED  BY <1>6, <1>7, <3>1, <3>2
  <2>. QED  BY <2>1, <2>2
<1>9. PICK v \in Seq(Msgs) : v = From(p, r)
  BY <1>2
<1>10. Len(v) = Len(u) /\ \A i \in 1 .. Len(v) : v[i] = u[i]
  BY <1>2, <1>7, <1>8, <1>9 DEF From
<1>11. v = u
  BY <1>10, SameElements
<1>. QED  BY <1>3, <1>4, <1>5, <1>9, <1>11

\* and the next one alone is a batch.
LEMMA FromOne ==
    ASSUME NEW p \in 0 .. Len(Size) - 1
    PROVE  /\ From(p, p + 1) = <<p + 1>> /\ p + 1 \in p .. Len(Size) /\ p + 1 \in Msgs
           /\ p \in 0 .. Len(Size) /\ p + 1 \in 0 .. Len(Size)
<1>1. Len(Size) \in Nat
  BY Sizes
<1>2. (p + 1) - p = 1
  BY <1>1
<1>. QED  BY <1>1, <1>2 DEF From, Msgs

-----------------------------------------------------------------------------
(***************************************************************************)
(* Where a message begins and ends in the stream of all of them.           *)
(***************************************************************************)
All == Payload(From(0, Len(Size)))

\* The units of the first m messages.
Before(m) == Len(Payload(From(0, m)))

\* s is what the stream has after the first g units.
Stands(s, g) == g + Len(s) <= Len(All) /\ \A i \in 1 .. Len(s) : s[i] = All[g + i]

\* The payload of such a batch is units,
LEMMA BatchTyped ==
    ASSUME NEW p \in 0 .. Len(Size), NEW q \in p .. Len(Size)
    PROVE  Payload(From(p, q)) \in Seq(Units)
BY FromTyped, PayloadTyped

\* so is the stream.
LEMMA AllTyped == All \in Seq(Units) /\ Len(All) \in Nat
<1>1. 0 \in 0 .. Len(Size) /\ Len(Size) \in 0 .. Len(Size)
  BY Sizes
<1>2. All \in Seq(Units)
  BY <1>1, BatchTyped DEF All
<1>. QED  BY <1>2

\* A batch takes the stream from before its messages to behind them.
LEMMA BeforeNext ==
    ASSUME NEW p \in 0 .. Len(Size), NEW q \in p .. Len(Size)
    PROVE  /\ Before(p) \in Nat /\ Before(q) \in Nat
           /\ Before(q) = Before(p) + Len(Payload(From(p, q)))
<1>1. Len(Size) \in Nat /\ q \in 0 .. Len(Size) /\ 0 \in 0 .. Len(Size)
  BY Sizes
<1>2. From(0, q) = From(0, p) \o From(p, q)
  BY <1>1, FromConcat
<1>3. From(0, p) \in Seq(Msgs) /\ From(p, q) \in Seq(Msgs)
  BY <1>1, FromTyped
<1>4. Payload(From(0, q)) = Payload(From(0, p)) \o Payload(From(p, q))
  BY <1>2, <1>3, PayloadConcat
<1>5. PICK s \in Seq(Units) : s = Payload(From(0, p))
  BY <1>3, PayloadTyped
<1>6. PICK t \in Seq(Units) : t = Payload(From(p, q))
  BY <1>3, PayloadTyped
<1>7. Len(s \o t) = Len(s) + Len(t) /\ Len(s) \in Nat /\ Len(t) \in Nat
  OBVIOUS
<1>. QED  BY <1>4, <1>5, <1>6, <1>7 DEF Before

\* Nothing is before the first message, and only it before the second.
LEMMA BeforeFirst == Before(0) = 0 /\ Before(1) = Size[1]
<1>1. From(0, 0) = << >>
  BY DEF From
<1>2. Before(0) = 0
  BY <1>1, PayloadRecursion DEF Before
<1>3. 0 \in 0 .. Len(Size) - 1
  BY Sizes
<1>4. From(0, 1) = <<1>> /\ 1 \in Msgs
  BY <1>3, FromOne
<1>5. Payload(<<1>>) = Encoding(1) /\ Len(Encoding(1)) = Size[1]
  BY <1>4, PayloadOfOne, EncodingTyped
<1>. QED  BY <1>2, <1>4, <1>5 DEF Before

\* No message is empty: the numbers are strictly increasing.
LEMMA BeforeIncreases ==
    ASSUME NEW p \in 0 .. Len(Size), NEW q \in 0 .. Len(Size)
    PROVE  p < q => Before(p) < Before(q)
<1>. SUFFICES ASSUME p < q PROVE Before(p) < Before(q)
  OBVIOUS
<1>1. /\ Len(Size) \in Nat /\ p \in 0 .. Len(Size) - 1
      /\ q \in p + 1 .. Len(Size)
  BY Sizes
<1>2. From(p, p + 1) = <<p + 1>> /\ p + 1 \in p .. Len(Size) /\ p + 1 \in Msgs
      /\ p + 1 \in 0 .. Len(Size)
  BY <1>1, FromOne
<1>3. Len(Payload(From(p, p + 1))) = Size[p + 1] /\ Size[p + 1] \in Nat \ {0}
  BY <1>2, PayloadOfOne, EncodingTyped, Sizes
<1>4. Before(p + 1) = Before(p) + Size[p + 1] /\ Before(p) \in Nat
  BY <1>2, <1>3, BeforeNext
<1>5. Before(q) = Before(p + 1) + Len(Payload(From(p + 1, q)))
  BY <1>1, <1>2, BeforeNext
<1>6. Len(Payload(From(p + 1, q))) \in Nat
  <2>1. Payload(From(p + 1, q)) \in Seq(Units)
    BY <1>1, <1>2, BatchTyped
  <2>. QED  BY <2>1
<1>. QED  BY <1>3, <1>4, <1>5, <1>6

\* Where the stream stands tells the messages before it.
LEMMA BeforeInjective ==
    ASSUME NEW p \in 0 .. Len(Size), NEW q \in 0 .. Len(Size), Before(p) = Before(q)
    PROVE  p = q
<1>1. Before(p) \in Nat /\ Before(q) \in Nat
  <2>1. p \in p .. Len(Size) /\ q \in q .. Len(Size)
    BY Sizes
  <2>. QED  BY <2>1, BeforeNext
<1>2. ~(p < q) /\ ~(q < p)
  BY <1>1, BeforeIncreases
<1>. QED  BY <1>2, Sizes

\* A batch stands where its first message begins.
LEMMA BatchStands ==
    ASSUME NEW p \in 0 .. Len(Size), NEW q \in p .. Len(Size)
    PROVE  Stands(Payload(From(p, q)), Before(p))
<1>1. /\ Len(Size) \in Nat /\ q \in 0 .. Len(Size) /\ 0 \in 0 .. Len(Size)
      /\ Len(Size) \in q .. Len(Size)
      /\ p \in 0 .. Len(Size) /\ Len(Size) \in p .. Len(Size)
  BY Sizes
<1>2. From(0, Len(Size)) = From(0, p) \o From(p, Len(Size))
  BY <1>1, FromConcat
<1>3. From(p, Len(Size)) = From(p, q) \o From(q, Len(Size))
  BY <1>1, FromConcat
<1>4. /\ From(0, p) \in Seq(Msgs) /\ From(p, Len(Size)) \in Seq(Msgs)
      /\ From(p, q) \in Seq(Msgs) /\ From(q, Len(Size)) \in Seq(Msgs)
  BY <1>1, FromTyped
<1>5. All = Payload(From(0, p)) \o Payload(From(p, Len(Size)))
  BY <1>2, <1>4, PayloadConcat DEF All
<1>6. Payload(From(p, Len(Size))) = Payload(From(p, q)) \o Payload(From(q, Len(Size)))
  BY <1>3, <1>4, PayloadConcat
<1>7. PICK a \in Seq(Units) : a = Payload(From(0, p))
  BY <1>4, PayloadTyped
<1>8. PICK b \in Seq(Units) : b = Payload(From(p, q))
  BY <1>4, PayloadTyped
<1>9. PICK c \in Seq(Units) : c = Payload(From(q, Len(Size)))
  BY <1>4, PayloadTyped
<1>10. PICK bc \in Seq(Units) : bc = b \o c
  <2>1. b \o c \in Seq(Units)
    OBVIOUS
  <2>. QED  BY <2>1
<1>11. /\ Len(bc) = Len(b) + Len(c) /\ Len(b) \in Nat /\ Len(c) \in Nat
       /\ \A i \in 1 .. Len(b) : bc[i] = b[i]
  BY <1>10
<1>12. /\ Len(a \o bc) = Len(a) + Len(bc) /\ Len(a) \in Nat
       /\ \A i \in 1 .. Len(bc) : (a \o bc)[Len(a) + i] = bc[i]
  OBVIOUS
<1>13. All = a \o bc /\ Before(p) = Len(a)
  BY <1>5, <1>6, <1>7, <1>8, <1>9, <1>10 DEF Before
<1>14. \A i \in 1 .. Len(b) : i \in 1 .. Len(bc)
  BY <1>11
<1>15. Len(a) + Len(b) <= Len(a) + Len(bc)
  BY <1>11, <1>12
<1>. QED  BY <1>8, <1>11, <1>12, <1>13, <1>14, <1>15 DEF Stands

\* What stands in the same place and is of the same length is the same.
LEMMA StandsUnique ==
    ASSUME NEW s \in Seq(Units), NEW t \in Seq(Units), NEW g \in Nat,
           Stands(s, g), Stands(t, g), Len(s) = Len(t)
    PROVE  s = t
<1>1. \A i \in 1 .. Len(s) : s[i] = t[i]
  BY DEF Stands
<1>. QED  BY <1>1

-----------------------------------------------------------------------------
(***************************************************************************)
(* The messages that begin in a payload.                                   *)
(***************************************************************************)
Firsts == {Part(m, 1) : m \in DOMAIN Size}

\* The messages of the units that begin one.
Of(s) == [i \in DOMAIN s |-> s[i].of]

\* What begins in a payload are the messages of the first units in it.
LEMMA BegunIs == \A s : Begun(s) = Of(Picked(s, Firsts))
BY DEF Begun, Of, Firsts

\* Units are of messages,
LEMMA OfTyped == ASSUME NEW s \in Seq(Units) PROVE Of(s) \in Seq(Msgs) /\ Len(Of(s)) = Len(s)
<1>1. \A i \in 1 .. Len(s) : s[i].of \in Msgs
  <2>1. \A i \in 1 .. Len(s) : s[i] \in Units
    OBVIOUS
  <2>. QED  BY <2>1 DEF Units
<1>2. Of(s) \in [1 .. Len(s) -> Msgs] /\ Len(s) \in Nat
  BY <1>1 DEF Of
<1>. QED  BY <1>2

\* one sequence after the other.
LEMMA OfConcat ==
    ASSUME NEW s \in Seq(Units), NEW t \in Seq(Units)
    PROVE  Of(s \o t) = Of(s) \o Of(t)
<1>1. s \o t \in Seq(Units) /\ Len(s \o t) = Len(s) + Len(t) /\ Len(s) \in Nat /\ Len(t) \in Nat
  OBVIOUS
<1>2. PICK u \in Seq(Units) : u = s \o t
  BY <1>1
<1>3. PICK a \in Seq(Msgs) : a = Of(s) /\ Len(a) = Len(s)
  BY OfTyped
<1>4. PICK b \in Seq(Msgs) : b = Of(t) /\ Len(b) = Len(t)
  BY OfTyped
<1>5. PICK c \in Seq(Msgs) : c = Of(u) /\ Len(c) = Len(u)
  BY OfTyped
<1>6. PICK d \in Seq(Msgs) : d = a \o b
  BY ConcatIs
<1>7. /\ Len(u) = Len(s) + Len(t) /\ \A i \in 1 .. Len(s) : u[i] = s[i]
      /\ \A i \in 1 .. Len(t) : u[Len(s) + i] = t[i]
  BY <1>2, ConcatIs
<1>8. /\ Len(d) = Len(a) + Len(b) /\ \A i \in 1 .. Len(a) : d[i] = a[i]
      /\ \A i \in 1 .. Len(b) : d[Len(a) + i] = b[i]
  BY <1>6, ConcatIs
<1>9. /\ \A i \in 1 .. Len(s) : a[i] = s[i].of
      /\ \A i \in 1 .. Len(t) : b[i] = t[i].of
      /\ \A i \in 1 .. Len(u) : c[i] = u[i].of
  BY <1>3, <1>4, <1>5 DEF Of
<1>10. \A i \in 1 .. Len(u) : c[i] = d[i]
  <2>. SUFFICES ASSUME NEW i \in 1 .. Len(u)
                PROVE  c[i] = d[i]
    OBVIOUS
  <2>1. CASE i <= Len(s)
    <3>1. i \in 1 .. Len(s)
      BY <1>1, <2>1
    <3>. QED  BY <1>3, <1>7, <1>8, <1>9, <3>1
  <2>2. CASE ~(i <= Len(s))
    <3>1. i - Len(s) \in 1 .. Len(t) /\ Len(s) + (i - Len(s)) = i
      BY <1>1, <1>7, <2>2
    <3>2. d[i] = b[i - Len(s)] /\ u[i] = t[i - Len(s)]
      BY <1>3, <1>4, <1>7, <1>8, <3>1
    <3>. QED  BY <1>9, <3>1, <3>2
  <2>. QED  BY <2>1, <2>2
<1>11. c = d
  <2>1. Len(c) = Len(d)
    BY <1>3, <1>4, <1>5, <1>7, <1>8
  <2>. QED  BY <1>5, <1>10, <2>1, SameElements
<1>. QED  BY <1>2, <1>3, <1>4, <1>5, <1>6, <1>11

\* What begins first in a payload, and then in its rest.
LEMMA PickedFirst ==
    ASSUME NEW s \in Seq(Units), s # << >>, s[1] \in Firsts
    PROVE  Picked(s, Firsts) = <<s[1]>> \o Picked(Tail(s), Firsts)
<1>1. Tail(s) \in Seq(Units) /\ <<s[1]>> \in Seq(Units) /\ s = <<s[1]>> \o Tail(s)
  OBVIOUS
<1>2. \A i \in DOMAIN <<s[1]>> : <<s[1]>>[i] \in Firsts
  OBVIOUS
<1>3. Picked(<<s[1]>>, Firsts) = <<s[1]>>
  BY <1>1, <1>2, PickedAllOrNone
<1>4. Picked(<<s[1]>> \o Tail(s), Firsts) = Picked(<<s[1]>>, Firsts) \o Picked(Tail(s), Firsts)
  BY <1>1, PickedConcat
<1>. QED  BY <1>1, <1>3, <1>4

\* What is picked of units are units.
LEMMA PickedUnits ==
    ASSUME NEW s \in Seq(Units)
    PROVE  Picked(s, Firsts) \in Seq(Units)
<1>1. Picked(s, Firsts) \in Seq(Units \cap Firsts)
  BY PickedTyped
<1>2. Seq(Units \cap Firsts) \subseteq Seq(Units)
  BY SeqWidens
<1>. QED  BY <1>1, <1>2

\* If a payload begins with the first unit of m, then m is what first begins in it.
LEMMA BegunFirst ==
    ASSUME NEW s \in Seq(Units), s # << >>, NEW m \in Msgs, s[1] = Part(m, 1)
    PROVE  Begun(s) # << >> /\ Begun(s)[1] = m
<1>1. s[1] \in Firsts /\ s[1] \in Units
  BY Sizes DEF Firsts, Part, Units
<1>2. Tail(s) \in Seq(Units)
  OBVIOUS
<1>3. PICK t \in Seq(Units) : t = Picked(Tail(s), Firsts)
  BY <1>2, PickedUnits
<1>4. Picked(s, Firsts) = <<s[1]>> \o t
  BY <1>1, <1>3, PickedFirst
<1>5. PICK u \in Seq(Units) : u = <<s[1]>> \o t
  <2>1. <<s[1]>> \o t \in Seq(Units)
    BY <1>1
  <2>. QED  BY <2>1
<1>6. u[1] = s[1] /\ Len(u) >= 1 /\ 1 \in DOMAIN u
  BY <1>1, <1>5
<1>7. Begun(s) = Of(u)
  BY <1>4, <1>5, BegunIs
<1>8. Of(u)[1] = m /\ Of(u) \in Seq(Msgs) /\ Len(Of(u)) = Len(u)
  BY <1>6, OfTyped DEF Of, Part
<1>. QED  BY <1>6, <1>7, <1>8

\* In the encoding of a message that message begins.
LEMMA BegunEncoding ==
    ASSUME NEW m \in Msgs
    PROVE  Begun(Encoding(m)) = <<m>>
<1>1. PICK s \in Seq(Units) : s = Encoding(m) /\ Len(s) = Size[m]
  BY EncodingTyped
<1>2. Size[m] \in Nat \ {0}
  BY Sizes
<1>3. s # << >> /\ \A i \in 1 .. Len(s) : s[i] = Part(m, i)
  BY <1>1, <1>2 DEF Encoding
<1>4. s[1] \in Firsts /\ s[1] \in Units /\ s[1] = Part(m, 1)
  BY <1>1, <1>2, <1>3, Sizes DEF Firsts, Part, Units
<1>5. PICK t \in Seq(Units) : t = Tail(s)
  <2>1. Tail(s) \in Seq(Units)
    BY <1>3
  <2>. QED  BY <2>1
<1>6. \A i \in DOMAIN t : t[i] = Part(m, i + 1) /\ i + 1 # 1 /\ i \in Nat
  BY <1>3, <1>5
<1>7. \A i \in DOMAIN t : t[i] \notin Firsts
  BY <1>6 DEF Firsts, Part
<1>8. Picked(t, Firsts) = << >>
  BY <1>7, PickedAllOrNone
<1>9. Picked(s, Firsts) = <<s[1]>> \o << >>
  BY <1>3, <1>4, <1>5, <1>8, PickedFirst
<1>10. Picked(s, Firsts) = <<Part(m, 1)>>
  BY <1>4, <1>9
<1>11. Of(<<Part(m, 1)>>) = <<m>>
  BY DEF Of, Part
<1>. QED  BY <1>1, <1>10, <1>11, BegunIs

\* What begins in the one payload and then in the other.
LEMMA BegunConcat ==
    ASSUME NEW s \in Seq(Units), NEW t \in Seq(Units)
    PROVE  Begun(s \o t) = Begun(s) \o Begun(t)
<1>1. Picked(s \o t, Firsts) = Picked(s, Firsts) \o Picked(t, Firsts)
  BY PickedConcat
<1>2. Picked(s, Firsts) \in Seq(Units) /\ Picked(t, Firsts) \in Seq(Units)
  BY PickedUnits
<1>. QED  BY <1>1, <1>2, BegunIs, OfConcat

\* from_msgpack of what to_msgpack made.
LEMMA BegunPayload == \A ms \in Seq(Msgs) : Begun(Payload(ms)) = ms
<1>. DEFINE Good == {ms \in Seq(Msgs) : Begun(Payload(ms)) = ms}
<1>1. << >> \in Good
  <2>1. << >> \in Seq(Msgs) /\ Payload(<< >>) = << >> /\ Picked(<< >>, Firsts) = << >>
    BY PayloadRecursion, PickedRecursion
  <2>2. Of(<< >>) = << >>
    BY DEF Of
  <2>. QED  BY <2>1, <2>2, BegunIs
<1>2. ASSUME NEW s \in Seq(Msgs), NEW x \in Msgs, s \in Good
      PROVE  Append(s, x) \in Good
  <2>1. Append(s, x) \in Seq(Msgs) /\ s \o <<x>> = Append(s, x)
    OBVIOUS
  <2>2. Payload(s) \in Seq(Units) /\ Encoding(x) \in Seq(Units)
    BY PayloadTyped, EncodingTyped
  <2>3. Begun(Payload(s) \o Encoding(x)) = Begun(Payload(s)) \o Begun(Encoding(x))
    BY <2>2, BegunConcat
  <2>4. Begun(Payload(s)) = s /\ Begun(Encoding(x)) = <<x>>
    BY <1>2, BegunEncoding
  <2>5. Payload(Append(s, x)) = Payload(s) \o Encoding(x)
    BY PayloadRecursion
  <2>. QED  BY <2>1, <2>3, <2>4, <2>5
<1>. HIDE DEF Good
<1>. QED  BY <1>1, <1>2, ByAppending DEF Good

-----------------------------------------------------------------------------
(***************************************************************************)
(* The inductive invariant.                                                *)
(***************************************************************************)
\* What a record is made of.
Wired == Units \cup {Header(n) : n \in Nat}

WireRecords == {r \in Seq(Wired) : Len(r) \in 1 .. RecordUnits}

\* Where a reader of the stream is: behind the first so many units of messages, with so
\* many units missing of the block it is in.
Cursors == [at : Nat, need : Nat]
Cursor(g, n) == [at |-> g, need |-> n]

\* r begins a block of the messages after p up to q; that of the handshake has it only.
Opens(r, a) ==
    /\ a.need = 0 /\ Len(r) >= 2
    /\ \E p \in 0 .. Len(Size), q \in 0 .. Len(Size) :
          /\ p < q /\ (p = 0 => q = 1)
          /\ a.at = Before(p) /\ r[1] = Header(Before(q) - Before(p))
          /\ Len(r) - 1 <= Before(q) - Before(p)
    /\ Stands(Tail(r), a.at)

\* r goes on with the block.
Carries(r, a) == Len(r) \in 1 .. a.need /\ Stands(r, a.at)

Takes(r, a, b) ==
    \/ Opens(r, a) /\ b = Cursor(a.at + (Len(r) - 1), r[1].size - (Len(r) - 1))
    \/ Carries(r, a) /\ b = Cursor(a.at + Len(r), a.need - Len(r))

\* The records ws take a reader from a to b.
Leads(ws, a, b) ==
    \E c \in [1 .. Len(ws) + 1 -> Cursors] :
        /\ c[1] = a /\ c[Len(ws) + 1] = b
        /\ \A k \in 1 .. Len(ws) : Takes(ws[k], c[k], c[k + 1])

\* The last message the receiver has seen.
Seen == IF mode = "wait" THEN 0 ELSE Len(received) + 1

\* The block that is put together begins behind message p.
Gathers(p, a) ==
    /\ block \in [payload_size : Nat, payload : Seq(Units)]
    /\ applied = Len(block.payload) /\ applied >= 1
    /\ \E q \in 0 .. Len(Size) : /\ p < q /\ (p = 0 => q = 1)
                                 /\ block.payload_size = Before(q) - Before(p)
                                 /\ applied <= Before(q) - Before(p)
                                 /\ a = Cursor(Before(p) + applied, Before(q) - Before(p) - applied)
    /\ Stands(block.payload, Before(p))

ReceiverAt(a) ==
    /\ reading => Receives /\ Gathers(Seen, a)
    /\ ~reading /\ Receives => a = Cursor(Before(Seen), 0)

\* The receiver is somewhere in the stream, what is on the wire follows from there, and
\* what the sender has still to write follows that, unless the link has stalled.
StreamIsWhole ==
    \E a \in Cursors, b \in Cursors :
        /\ ReceiverAt(a)
        /\ Leads(wire, a, b)
        /\ link # "stalled" => Leads(unwritten, b, Cursor(Before(packed), 0))

\* What the proof needs of the types.
StreamTypes ==
    /\ queued \in 0 .. Len(Size) /\ packed \in 0 .. queued
    /\ wire \in Seq(WireRecords) /\ unwritten \in Seq(WireRecords)
    /\ link \in {"open", "stalled", "closed"}
    /\ mode \in {"wait", "serving", "timed out", "ended"}
    /\ reading \in BOOLEAN /\ (~reading => block = EmptyBlock /\ applied = 0)

ReceivedInOrder ==
    /\ received \in Seq(Msgs) /\ Len(received) + 1 <= Len(Size)
    /\ received = From(1, Len(received) + 1)
    /\ mode = "wait" => received = << >>

EndedIsComplete ==
    mode = "ended" =>
        /\ link = "closed" /\ ~reading
        /\ packed > 0 /\ unwritten = << >> => Len(received) + 1 = packed

FramingInvariant == StreamTypes /\ ReceivedInOrder /\ StreamIsWhole /\ EndedIsComplete

-----------------------------------------------------------------------------
(***************************************************************************)
(* Records one after the other.                                            *)
(***************************************************************************)
LEMMA CursorIs ==
    ASSUME NEW g \in Nat, NEW n \in Nat
    PROVE  Cursor(g, n) \in Cursors /\ Cursor(g, n).at = g /\ Cursor(g, n).need = n
BY DEF Cursor, Cursors

\* No records lead nowhere,
LEMMA LeadsNowhere ==
    /\ \A a \in Cursors : Leads(<< >>, a, a)
    /\ \A a, b : Leads(<< >>, a, b) => a = b
<1>1. ASSUME NEW a \in Cursors
      PROVE  Leads(<< >>, a, a)
  <2>. DEFINE c == [k \in 1 .. Len(<< >>) + 1 |-> a]
  <2>1. c \in [1 .. Len(<< >>) + 1 -> Cursors] /\ c[1] = a /\ c[Len(<< >>) + 1] = a
    OBVIOUS
  <2>. HIDE DEF c
  <2>. QED  BY <2>1 DEF Leads
<1>. QED  BY <1>1 DEF Leads

\* one more record leads further,
LEMMA LeadsAppended ==
    ASSUME NEW S, NEW ws \in Seq(S), NEW r \in S, NEW a, NEW b, NEW d \in Cursors,
           Leads(ws, a, b), Takes(r, b, d)
    PROVE  Leads(Append(ws, r), a, d)
<1>1. PICK c \in [1 .. Len(ws) + 1 -> Cursors] :
         /\ c[1] = a /\ c[Len(ws) + 1] = b
         /\ \A k \in 1 .. Len(ws) : Takes(ws[k], c[k], c[k + 1])
  BY DEF Leads
<1>2. /\ Len(Append(ws, r)) = Len(ws) + 1 /\ Len(ws) \in Nat /\ Append(ws, r)[Len(ws) + 1] = r
      /\ \A k \in 1 .. Len(ws) : Append(ws, r)[k] = ws[k]
  OBVIOUS
<1>. DEFINE n == Len(ws)
            v == Append(ws, r)
            e == [k \in 1 .. n + 2 |-> IF k <= n + 1 THEN c[k] ELSE d]
<1>3. e \in [1 .. n + 2 -> Cursors] /\ e[1] = a /\ e[n + 2] = d /\ e[n + 1] = b
  BY <1>1, <1>2
<1>4. \A k \in 1 .. n : e[k] = c[k] /\ e[k + 1] = c[k + 1]
  BY <1>2
<1>. HIDE DEF e, n, v
<1>5. \A k \in 1 .. n + 1 : Takes(v[k], e[k], e[k + 1])
  <2>. SUFFICES ASSUME NEW k \in 1 .. n + 1
                PROVE  Takes(v[k], e[k], e[k + 1])
    OBVIOUS
  <2>1. CASE k = n + 1
    <3>1. v[k] = r /\ e[k] = b /\ e[k + 1] = d
      <4>1. (n + 1) + 1 = n + 2
        BY <1>2 DEF n
      <4>. QED  BY <1>2, <1>3, <2>1, <4>1 DEF n, v
    <3>. QED  BY <3>1
  <2>2. CASE k # n + 1
    <3>1. k \in 1 .. n
      BY <1>2, <2>2 DEF n
    <3>2. v[k] = ws[k]
      BY <1>2, <3>1 DEF n, v
    <3>. QED  BY <1>1, <1>4, <3>1, <3>2 DEF n
  <2>. QED  BY <2>1, <2>2
<1>6. Len(v) = n + 1 /\ (n + 1) + 1 = n + 2
  BY <1>2 DEF n, v
<1>7. Leads(v, a, d)
  BY <1>3, <1>5, <1>6 DEF Leads
<1>. QED  BY <1>7 DEF v

\* the first of the records leads to where the others begin,
LEMMA LeadsSplit ==
    ASSUME NEW S, NEW ws \in Seq(S), ws # << >>, NEW a, NEW b, Leads(ws, a, b)
    PROVE  \E d \in Cursors : Takes(Head(ws), a, d) /\ Leads(Tail(ws), d, b)
<1>1. PICK c \in [1 .. Len(ws) + 1 -> Cursors] :
         /\ c[1] = a /\ c[Len(ws) + 1] = b
         /\ \A k \in 1 .. Len(ws) : Takes(ws[k], c[k], c[k + 1])
  BY DEF Leads
<1>. DEFINE n == Len(ws) - 1
            v == Tail(ws)
            e == [k \in 1 .. n + 1 |-> c[k + 1]]
<1>2. /\ Len(v) = n /\ n \in Nat /\ Len(ws) = n + 1 /\ Head(ws) = ws[1]
      /\ \A k \in 1 .. n : v[k] = ws[k + 1] /\ k + 1 \in 1 .. Len(ws)
  OBVIOUS
<1>. HIDE DEF n, v
<1>3. e \in [1 .. n + 1 -> Cursors] /\ e[1] = c[2] /\ e[n + 1] = b
  <2>1. \A k \in 1 .. n + 1 : k + 1 \in 1 .. Len(ws) + 1
    BY <1>2
  <2>2. 1 \in 1 .. n + 1 /\ n + 1 \in 1 .. n + 1 /\ (n + 1) + 1 = Len(ws) + 1 /\ 1 + 1 = 2
    BY <1>2
  <2>. QED  BY <1>1, <2>1, <2>2
<1>4. \A k \in 1 .. n : e[k] = c[k + 1] /\ e[k + 1] = c[(k + 1) + 1]
  <2>1. \A k \in 1 .. n : k \in 1 .. n + 1 /\ k + 1 \in 1 .. n + 1
    BY <1>2
  <2>. QED  BY <2>1
<1>. HIDE DEF e
<1>5. \A k \in 1 .. n : Takes(v[k], e[k], e[k + 1])
  BY <1>1, <1>2, <1>4
<1>6. Leads(v, c[2], b)
  BY <1>2, <1>3, <1>5 DEF Leads
<1>7. c[2] \in Cursors /\ Takes(Head(ws), a, c[2])
  <2>1. 1 \in 1 .. Len(ws) /\ 1 + 1 = 2 /\ 2 \in 1 .. Len(ws) + 1
    BY <1>2
  <2>. QED  BY <1>1, <1>2, <2>1
<1>. QED  BY <1>6, <1>7 DEF v

\* and a record before them is taken first.
LEMMA LeadsPrepended ==
    ASSUME NEW S, NEW ws \in Seq(S), NEW r \in S, NEW a \in Cursors, NEW d, NEW b,
           Takes(r, a, d), Leads(ws, d, b)
    PROVE  Leads(<<r>> \o ws, a, b)
<1>1. PICK c \in [1 .. Len(ws) + 1 -> Cursors] :
         /\ c[1] = d /\ c[Len(ws) + 1] = b
         /\ \A k \in 1 .. Len(ws) : Takes(ws[k], c[k], c[k + 1])
  BY DEF Leads
<1>. DEFINE n == Len(ws)
            v == <<r>> \o ws
            e == [k \in 1 .. n + 2 |-> IF k = 1 THEN a ELSE c[k - 1]]
<1>2. /\ Len(v) = n + 1 /\ n \in Nat /\ v[1] = r
      /\ \A k \in 1 .. n : v[k + 1] = ws[k]
  OBVIOUS
<1>. HIDE DEF n, v
<1>3. e \in [1 .. n + 2 -> Cursors] /\ e[1] = a /\ e[n + 2] = b /\ e[2] = d
  <2>1. \A k \in 1 .. n + 2 : k # 1 => k - 1 \in 1 .. n + 1
    BY <1>2
  <2>2. 1 \in 1 .. n + 2 /\ 2 \in 1 .. n + 2 /\ n + 2 \in 1 .. n + 2 /\ n + 2 # 1
        /\ (n + 2) - 1 = n + 1 /\ 2 - 1 = 1
    BY <1>2
  <2>. QED  BY <1>1, <2>1, <2>2 DEF n
<1>4. \A k \in 1 .. n : e[k + 1] = c[k] /\ e[(k + 1) + 1] = c[k + 1]
  <2>1. \A k \in 1 .. n : /\ k + 1 \in 1 .. n + 2 /\ (k + 1) + 1 \in 1 .. n + 2
                          /\ k + 1 # 1 /\ (k + 1) + 1 # 1
                          /\ (k + 1) - 1 = k /\ ((k + 1) + 1) - 1 = k + 1
    BY <1>2
  <2>. QED  BY <2>1
<1>. HIDE DEF e
<1>5. \A k \in 1 .. n + 1 : Takes(v[k], e[k], e[k + 1])
  <2>. SUFFICES ASSUME NEW k \in 1 .. n + 1
                PROVE  Takes(v[k], e[k], e[k + 1])
    OBVIOUS
  <2>1. CASE k = 1
    <3>1. k + 1 = 2
      BY <2>1
    <3>. QED  BY <1>2, <1>3, <2>1, <3>1
  <2>2. CASE k # 1
    <3>1. PICK j \in 1 .. n : k = j + 1
      <4>1. k - 1 \in 1 .. n /\ k = (k - 1) + 1
        BY <1>2, <2>2
      <4>. QED  BY <4>1
    <3>2. Takes(ws[j], c[j], c[j + 1]) /\ v[j + 1] = ws[j]
      BY <1>1, <1>2 DEF n
    <3>. QED  BY <1>4, <3>1, <3>2
  <2>. QED  BY <2>1, <2>2
<1>6. (n + 1) + 1 = n + 2
  BY <1>2
<1>7. Leads(v, a, b)
  BY <1>2, <1>3, <1>5, <1>6 DEF Leads
<1>. QED  BY <1>7 DEF v

\* The first of the records lead somewhere, too.
LEMMA LeadsShortened ==
    ASSUME NEW S, NEW ws \in Seq(S), NEW n \in 0 .. Len(ws), NEW a, NEW b, Leads(ws, a, b)
    PROVE  \E d \in Cursors : Leads(SubSeq(ws, 1, n), a, d)
<1>1. PICK c \in [1 .. Len(ws) + 1 -> Cursors] :
         /\ c[1] = a /\ c[Len(ws) + 1] = b
         /\ \A k \in 1 .. Len(ws) : Takes(ws[k], c[k], c[k + 1])
  BY DEF Leads
<1>. DEFINE v == SubSeq(ws, 1, n)
            e == [k \in 1 .. n + 1 |-> c[k]]
<1>2. Len(v) = n /\ n \in Nat /\ \A k \in 1 .. n : v[k] = ws[k] /\ k \in 1 .. Len(ws)
  OBVIOUS
<1>. HIDE DEF v
<1>3. e \in [1 .. n + 1 -> Cursors] /\ e[1] = a /\ e[n + 1] \in Cursors
  <2>1. \A k \in 1 .. n + 1 : k \in 1 .. Len(ws) + 1
    OBVIOUS
  <2>2. 1 \in 1 .. n + 1 /\ n + 1 \in 1 .. n + 1
    BY <1>2
  <2>. QED  BY <1>1, <2>1, <2>2
<1>4. \A k \in 1 .. n : e[k] = c[k] /\ e[k + 1] = c[k + 1]
  BY <1>2
<1>. HIDE DEF e
<1>5. \A k \in 1 .. n : Takes(v[k], e[k], e[k + 1])
  BY <1>1, <1>2, <1>4
<1>6. Leads(v, a, e[n + 1])
  BY <1>2, <1>3, <1>5 DEF Leads
<1>. QED  BY <1>3, <1>6 DEF v

-----------------------------------------------------------------------------
(***************************************************************************)
(* A read.                                                                 *)
(***************************************************************************)
LEMMA TailIs ==
    ASSUME NEW S, NEW r \in Seq(S), r # << >>
    PROVE  /\ Tail(r) \in Seq(S) /\ Len(Tail(r)) = Len(r) - 1 /\ Len(r) \in Nat
           /\ \A i \in 1 .. Len(r) - 1 : Tail(r)[i] = r[i + 1]
OBVIOUS

\* A part of a sequence, element by element.
LEMMA PartIs ==
    ASSUME NEW S, NEW r \in Seq(S), NEW m \in 1 .. Len(r), NEW n \in m .. Len(r)
    PROVE  /\ SubSeq(r, m, n) \in Seq(S) /\ Len(SubSeq(r, m, n)) = n - m + 1
           /\ \A i \in 1 .. n - m + 1 : SubSeq(r, m, n)[i] = r[m + i - 1]
OBVIOUS

\* What comes before a number of units stands, too.
LEMMA StandsPart ==
    ASSUME NEW S, NEW r \in Seq(S), NEW g \in Nat, Stands(r, g),
           NEW m \in 1 .. Len(r), NEW n \in m .. Len(r)
    PROVE  Stands(SubSeq(r, m, n), g + (m - 1))
<1>1. /\ Len(SubSeq(r, m, n)) = n - m + 1 /\ Len(r) \in Nat
      /\ \A i \in 1 .. n - m + 1 : SubSeq(r, m, n)[i] = r[m + i - 1]
  BY PartIs
<1>2. g + Len(r) <= Len(All) /\ \A i \in 1 .. Len(r) : r[i] = All[g + i]
  BY DEF Stands
<1>3. \A i \in 1 .. n - m + 1 : m + i - 1 \in 1 .. Len(r) /\ g + (m + i - 1) = g + (m - 1) + i
  BY <1>1
<1>4. g + (m - 1) + (n - m + 1) <= Len(All)
  BY <1>1, <1>2, AllTyped
<1>. QED  BY <1>1, <1>2, <1>3, <1>4 DEF Stands

\* What a header says.
LEMMA HeaderIs == \A n : Header(n).is = "header" /\ Header(n).size = n
BY DEF Header

\* Sums that a read in two parts leads to.
LEMMA Shifted ==
    ASSUME NEW g \in Nat, NEW l \in Nat, NEW n \in Nat
    PROVE  /\ g + (n - 1) + (l - n) = g + (l - 1) /\ (g - (n - 1)) - (l - n) = g - (l - 1)
           /\ g + n + (l - n) = g + l /\ (g - n) - (l - n) = g - l
OBVIOUS

\* A record that is read in two parts is taken in two parts, if the first has the header
\* and more.
LEMMA TakesSplit ==
    ASSUME NEW S, NEW r \in Seq(S), NEW a \in Cursors, NEW b, Takes(r, a, b),
           NEW n \in 2 .. Len(r) - 1
    PROVE  \E d \in Cursors : /\ Takes(SubSeq(r, 1, n), a, d)
                              /\ Takes(SubSeq(r, n + 1, Len(r)), d, b)
<1>. DEFINE s == SubSeq(r, 1, n)
            t == SubSeq(r, n + 1, Len(r))
<1>0. /\ a.at \in Nat /\ a.need \in Nat /\ Len(r) \in Nat
      /\ 1 \in 1 .. Len(r) /\ n \in 1 .. Len(r) /\ n + 1 \in 1 .. Len(r)
      /\ Len(r) \in n + 1 .. Len(r)
  BY DEF Cursors
<1>1. /\ s \in Seq(S) /\ Len(s) = n /\ t \in Seq(S) /\ Len(t) = Len(r) - n
      /\ \A i \in 1 .. n : s[i] = r[i]
      /\ \A i \in 1 .. Len(r) - n : t[i] = r[n + i]
  OBVIOUS
<1>. HIDE DEF s, t
<1>2. CASE Opens(r, a) /\ b = Cursor(a.at + (Len(r) - 1), r[1].size - (Len(r) - 1))
  <2>1. PICK p \in 0 .. Len(Size), q \in 0 .. Len(Size) :
           /\ p < q /\ (p = 0 => q = 1)
           /\ a.at = Before(p) /\ r[1] = Header(Before(q) - Before(p))
           /\ Len(r) - 1 <= Before(q) - Before(p)
    BY <1>2 DEF Opens
  <2>. DEFINE L == Before(q) - Before(p)
  <2>2. L \in Nat
    <3>1. Before(p) \in Nat /\ Before(q) \in Nat
      <4>1. p \in p .. Len(Size) /\ q \in q .. Len(Size)
        BY Sizes
      <4>. QED  BY <4>1, BeforeNext
    <3>. QED  BY <1>0, <2>1, <3>1
  <2>3. r[1].size = L /\ s[1] = r[1] /\ Len(r) - 1 <= L
    BY <1>1, <2>1, HeaderIs
  <2>. HIDE DEF L
  <2>4. n - 1 \in Nat /\ n - 1 < L /\ L - (n - 1) \in Nat \ {0} /\ a.at + (n - 1) \in Nat
        /\ Len(r) - n \in 1 .. L - (n - 1)
    BY <1>0, <2>2, <2>3
  <2>5. n - 1 <= L
    BY <2>2, <2>4
  <2>. DEFINE d == Cursor(a.at + (n - 1), L - (n - 1))
  <2>6. d \in Cursors /\ d.at = a.at + (n - 1) /\ d.need = L - (n - 1)
    BY <2>4, CursorIs
  <2>7. Stands(Tail(r), a.at)
    BY <1>2 DEF Opens
  <2>8. PICK x \in Seq(S) : /\ x = Tail(r) /\ Len(x) = Len(r) - 1
                            /\ \A i \in 1 .. Len(r) - 1 : x[i] = r[i + 1]
    <3>1. r # << >>
      BY <1>0
    <3>. QED  BY <3>1, TailIs
  <2>9. a.at + (Len(r) - 1) <= Len(All) /\ \A i \in 1 .. Len(r) - 1 : r[i + 1] = All[a.at + i]
    BY <2>7, <2>8 DEF Stands
  <2>0. a.at + (n - 1) <= Len(All) /\ a.at + (n - 1) + (Len(r) - n) <= Len(All)
    <3>1. PICK g \in Nat : g = a.at
      BY <1>0
    <3>2. PICK l \in Nat : l = Len(r)
      BY <1>0
    <3>3. PICK A \in Nat : A = Len(All)
      BY AllTyped
    <3>4. g + (l - 1) <= A /\ n \in 2 .. l - 1
      BY <2>9, <3>1, <3>2, <3>3
    <3>5. g + (n - 1) <= A /\ g + (n - 1) + (l - n) <= A
      BY <3>4
    <3>. QED  BY <3>1, <3>2, <3>3, <3>5
  <2>10. Stands(Tail(s), a.at)
    <3>1. PICK y \in Seq(S) : /\ y = Tail(s) /\ Len(y) = n - 1
                              /\ \A i \in 1 .. n - 1 : y[i] = s[i + 1]
      <4>1. s # << >>
        BY <1>0, <1>1
      <4>2. /\ Tail(s) \in Seq(S) /\ Len(Tail(s)) = Len(s) - 1
            /\ \A i \in 1 .. Len(s) - 1 : Tail(s)[i] = s[i + 1]
        BY <1>1, <4>1, TailIs
      <4>. QED  BY <1>1, <4>2
    <3>2. \A i \in 1 .. n - 1 : i \in 1 .. Len(r) - 1 /\ i + 1 \in 1 .. n
      BY <1>0
    <3>3. a.at + (n - 1) <= Len(All)
      BY <2>0
    <3>4. \A i \in 1 .. n - 1 : y[i] = All[a.at + i]
      <4>1. \A i \in 1 .. n - 1 : y[i] = r[i + 1]
        BY <1>1, <3>1, <3>2
      <4>. QED  BY <2>9, <3>2, <4>1
    <3>. QED  BY <3>1, <3>3, <3>4 DEF Stands
  <2>11. Stands(t, a.at + (n - 1))
    <3>1. \A i \in 1 .. Len(r) - n : /\ (n - 1) + i \in 1 .. Len(r) - 1
                                     /\ ((n - 1) + i) + 1 = n + i
                                     /\ a.at + ((n - 1) + i) = a.at + (n - 1) + i
      <4>1. PICK g \in Nat : g = a.at
        BY <1>0
      <4>2. \A i \in Nat : g + ((n - 1) + i) = g + (n - 1) + i
        BY <1>0
      <4>. QED  BY <1>0, <4>1, <4>2
    <3>2. a.at + (n - 1) + Len(t) <= Len(All)
      BY <1>1, <2>0
    <3>3. \A i \in 1 .. Len(r) - n : t[i] = All[a.at + (n - 1) + i]
      <4>. SUFFICES ASSUME NEW i \in 1 .. Len(r) - n
                    PROVE  t[i] = All[a.at + (n - 1) + i]
        OBVIOUS
      <4>1. t[i] = r[((n - 1) + i) + 1]
        BY <1>1, <3>1
      <4>2. r[((n - 1) + i) + 1] = All[a.at + ((n - 1) + i)]
        BY <2>9, <3>1
      <4>. QED  BY <3>1, <4>1, <4>2
    <3>. QED  BY <1>1, <3>2, <3>3 DEF Stands
  <2>. HIDE DEF d
  <2>12. Opens(s, a)
    BY <1>0, <1>1, <1>2, <2>1, <2>3, <2>5, <2>10 DEF Opens, L
  <2>13. Carries(t, d)
    BY <1>1, <2>4, <2>6, <2>11 DEF Carries
  <2>14. d = Cursor(a.at + (Len(s) - 1), s[1].size - (Len(s) - 1))
    BY <1>1, <2>3 DEF d
  <2>15. b = Cursor(d.at + Len(t), d.need - Len(t))
    <3>1. d.at + Len(t) = a.at + (Len(r) - 1) /\ d.need - Len(t) = L - (Len(r) - 1)
      <4>1. n \in Nat
        OBVIOUS
      <4>2. a.at + (n - 1) + (Len(r) - n) = a.at + (Len(r) - 1)
        <5>1. PICK g \in Nat : g = a.at
          BY <1>0
        <5>2. PICK l \in Nat : l = Len(r)
          BY <1>0
        <5>3. g + (n - 1) + (l - n) = g + (l - 1)
          BY <4>1
        <5>. QED  BY <5>1, <5>2, <5>3
      <4>3. (L - (n - 1)) - (Len(r) - n) = L - (Len(r) - 1)
        BY <1>0, <2>2, <4>1, Shifted
      <4>. QED  BY <1>1, <2>6, <4>2, <4>3
    <3>. QED  BY <1>2, <2>3, <3>1
  <2>. QED  BY <2>6, <2>12, <2>13, <2>14, <2>15 DEF Takes, s, t
<1>3. CASE Carries(r, a) /\ b = Cursor(a.at + Len(r), a.need - Len(r))
  <2>1. Len(r) \in 1 .. a.need /\ Stands(r, a.at)
    BY <1>3 DEF Carries
  <2>2. n \in Nat /\ a.at + n \in Nat /\ a.need - n \in Nat \ {0} /\ n \in 1 .. a.need
        /\ Len(r) - n \in 1 .. a.need - n
    BY <1>0, <2>1
  <2>. DEFINE d == Cursor(a.at + n, a.need - n)
  <2>3. d \in Cursors /\ d.at = a.at + n /\ d.need = a.need - n
    BY <2>2, CursorIs
  <2>4. Stands(s, a.at + (1 - 1)) /\ Stands(t, a.at + ((n + 1) - 1))
    BY <1>0, <2>1, StandsPart DEF s, t
  <2>5. a.at + (1 - 1) = a.at /\ a.at + ((n + 1) - 1) = a.at + n
    BY <1>0
  <2>. HIDE DEF d
  <2>6. Carries(s, a) /\ Carries(t, d)
    BY <1>1, <2>2, <2>3, <2>4, <2>5 DEF Carries
  <2>7. d = Cursor(a.at + Len(s), a.need - Len(s))
    BY <1>1 DEF d
  <2>8. b = Cursor(d.at + Len(t), d.need - Len(t))
    <3>1. d.at + Len(t) = a.at + Len(r) /\ d.need - Len(t) = a.need - Len(r)
      <4>1. n \in Nat
        OBVIOUS
      <4>2. a.at + n + (Len(r) - n) = a.at + Len(r)
        BY <1>0, <4>1, Shifted
      <4>3. (a.need - n) - (Len(r) - n) = a.need - Len(r)
        BY <1>0, <4>1, Shifted
      <4>. QED  BY <1>1, <2>3, <4>2, <4>3
    <3>. QED  BY <1>3, <3>1
  <2>. QED  BY <2>3, <2>6, <2>7, <2>8 DEF Takes, s, t
<1>. QED  BY <1>2, <1>3 DEF Takes

\* A read takes the reader further on the wire.
LEMMA ReadTakes ==
    ASSUME NEW a \in Cursors, NEW b, wire \in Seq(WireRecords), wire # << >>, Leads(wire, a, b)
    PROVE  /\ Chunk.read \in Seq(Wired) /\ Chunk.rest \in Seq(WireRecords)
           /\ \E d \in Cursors : Takes(Chunk.read, a, d) /\ Leads(Chunk.rest, d, b)
<1>1. PICK r \in WireRecords : r = wire[1] /\ r = Head(wire)
  OBVIOUS
<1>0. r \in Seq(Wired) /\ Len(r) \in 1 .. RecordUnits /\ RecordUnits \in Nat
  BY SizesAssumption DEF WireRecords
<1>2. PICK t \in Seq(WireRecords) : t = Tail(wire)
  <2>1. Tail(wire) \in Seq(WireRecords)
    OBVIOUS
  <2>. QED  BY <2>1
<1>3. PICK e \in Cursors : Takes(r, a, e) /\ Leads(t, e, b)
  <2>1. wire \in Seq(WireRecords) /\ wire # << >> /\ Leads(wire, a, b)
    OBVIOUS
  <2>. QED  BY <1>1, <1>2, <2>1, LeadsSplit
<1>4. Len(r) \in Nat \ {0}
  BY <1>0
<1>5. BufferUnits \in Nat \ {0, 1}
  BY SizesAssumption
<1>6. PICK n : n = IF BufferUnits < Len(r) THEN BufferUnits ELSE Len(r)
  OBVIOUS
<1>7. Chunk = [read |-> SubSeq(r, 1, n),
               rest |-> IF n = Len(r) THEN t ELSE <<SubSeq(r, n + 1, Len(r))>> \o t]
  BY <1>1, <1>2, <1>6 DEF Chunk
<1>8. CASE n = Len(r)
  <2>1. SubSeq(r, 1, n) = r
    BY <1>0, <1>8
  <2>2. Chunk.read = r /\ Chunk.rest = t
    BY <1>7, <1>8, <2>1
  <2>. QED  BY <1>0, <1>2, <1>3, <2>2
<1>9. CASE n # Len(r)
  <2>1. n = BufferUnits /\ n \in 2 .. Len(r) - 1
    BY <1>4, <1>5, <1>6, <1>9
  <2>2. PICK u \in WireRecords : u = SubSeq(r, n + 1, Len(r))
    <3>1. n + 1 \in 1 .. Len(r) /\ Len(r) \in n + 1 .. Len(r)
      BY <1>4, <2>1
    <3>2. /\ SubSeq(r, n + 1, Len(r)) \in Seq(Wired)
          /\ Len(SubSeq(r, n + 1, Len(r))) = Len(r) - (n + 1) + 1
      BY <1>0, <3>1, PartIs
    <3>3. Len(r) - (n + 1) + 1 \in 1 .. RecordUnits
      BY <1>0, <2>1
    <3>. QED  BY <3>2, <3>3 DEF WireRecords
  <2>3. PICK d \in Cursors : Takes(SubSeq(r, 1, n), a, d) /\ Takes(u, d, e)
    BY <1>0, <1>3, <2>1, <2>2, TakesSplit
  <2>4. Chunk.read = SubSeq(r, 1, n) /\ Chunk.rest = <<u>> \o t
    BY <1>7, <1>9, <2>2
  <2>5. Leads(<<u>> \o t, d, b)
    BY <1>3, <2>3, LeadsPrepended
  <2>6. <<u>> \o t \in Seq(WireRecords)
    OBVIOUS
  <2>7. SubSeq(r, 1, n) \in Seq(Wired)
    BY <1>0, <1>4, <2>1
  <2>. QED  BY <2>3, <2>4, <2>5, <2>6, <2>7
<1>. QED  BY <1>8, <1>9

-----------------------------------------------------------------------------
(***************************************************************************)
(* How a block is cut into records.                                        *)
(***************************************************************************)
Count(n) == (n + RecordUnits - 1) \div RecordUnits

\* The units in the first k records of n units.
Cut(k, n) == IF k * RecordUnits < n THEN k * RecordUnits ELSE n

\* The cuts lead from nothing to all of the units, by at least one and at most a record.
LEMMA Cuts ==
    ASSUME NEW n \in Nat, n >= 2
    PROVE  /\ Count(n) \in Nat \ {0}
           /\ Cut(0, n) = 0 /\ Cut(1, n) \in 2 .. n /\ Cut(Count(n), n) = n
           /\ \A k \in 1 .. Count(n) :
                 /\ Cut(k - 1, n) = (k - 1) * RecordUnits
                 /\ Cut(k - 1, n) \in 0 .. n - 1 /\ Cut(k, n) \in Cut(k - 1, n) + 1 .. n
                 /\ Cut(k, n) - Cut(k - 1, n) <= RecordUnits
                 /\ k # 1 => Cut(k - 1, n) >= 2
<1>1. PICK R \in Nat \ {0, 1} : R = RecordUnits
  BY SizesAssumption
<1>. DEFINE K == (n + R - 1) \div R
<1>2. K \in Nat \ {0} /\ (K - 1) * R < n /\ n <= K * R
  OBVIOUS
<1>3. \A k \in 1 .. K : (k - 1) * R < n
  <2>. SUFFICES ASSUME NEW k \in 1 .. K
                PROVE  (k - 1) * R < n
    OBVIOUS
  <2>1. k - 1 \in Nat /\ K - 1 \in Nat /\ k - 1 <= K - 1
    BY <1>2
  <2>. HIDE DEF K
  <2>2. (k - 1) * R <= (K - 1) * R
    BY <2>1
  <2>. QED  BY <1>2, <2>1, <2>2
<1>4. \A k \in 1 .. K : /\ (k - 1) * R \in Nat /\ k * R \in Nat /\ k * R = (k - 1) * R + R
                        /\ k # 1 => (k - 1) * R >= 2
  <2>. HIDE DEF K
  <2>. SUFFICES ASSUME NEW k \in 1 .. K
                PROVE  /\ (k - 1) * R \in Nat /\ k * R \in Nat /\ k * R = (k - 1) * R + R
                       /\ k # 1 => (k - 1) * R >= 2
    OBVIOUS
  <2>1. k - 1 \in Nat /\ k \in Nat /\ k = (k - 1) + 1
    BY <1>2
  <2>2. (k - 1) * R \in Nat /\ k * R \in Nat
    BY <2>1
  <2>3. k * R = (k - 1) * R + R
    BY <2>1
  <2>4. k # 1 => (k - 1) * R >= 2
    BY <2>1
  <2>. QED  BY <2>2, <2>3, <2>4
<1>5. 0 * R = 0 /\ 1 * R = R
  OBVIOUS
<1>6. Count(n) = K /\ \A k : Cut(k, n) = IF k * R < n THEN k * R ELSE n
  BY <1>1 DEF Count, Cut
<1>. HIDE DEF K
<1>7. Cut(0, n) = 0 /\ Cut(1, n) \in 2 .. n
  BY <1>5, <1>6
<1>8. Cut(K, n) = n
  <2>1. ~(K * R < n)
    <3>1. K * R \in Nat
      BY <1>2
    <3>. QED  BY <1>2, <3>1
  <2>. QED  BY <1>6, <2>1
<1>9. ASSUME NEW k \in 1 .. K
      PROVE  /\ Cut(k - 1, n) = (k - 1) * R
             /\ Cut(k - 1, n) \in 0 .. n - 1 /\ Cut(k, n) \in Cut(k - 1, n) + 1 .. n
             /\ Cut(k, n) - Cut(k - 1, n) <= R
             /\ k # 1 => Cut(k - 1, n) >= 2
  <2>1. PICK x \in Nat : x = (k - 1) * R
    BY <1>4
  <2>2. PICK y \in Nat : y = k * R
    BY <1>4
  <2>3. y = x + R /\ x < n /\ (k # 1 => x >= 2)
    BY <1>3, <1>4, <2>1, <2>2
  <2>4. Cut(k - 1, n) = x /\ Cut(k, n) = IF y < n THEN y ELSE n
    BY <1>6, <2>1, <2>2, <2>3
  <2>. QED  BY <2>1, <2>3, <2>4
<1>. QED  BY <1>1, <1>2, <1>6, <1>7, <1>8, <1>9

\* The records of a block of n units, by their ends.
LEMMA RecordsAre ==
    ASSUME NEW S, NEW u \in Seq(S), Len(u) >= 2
    PROVE  /\ Records(u) \in Seq(Seq(S)) /\ Len(Records(u)) = Count(Len(u))
           /\ \A k \in 1 .. Count(Len(u)) :
                 Records(u)[k] = SubSeq(u, Cut(k - 1, Len(u)) + 1, Cut(k, Len(u)))
<1>1. PICK n \in Nat : n = Len(u)
  OBVIOUS
<1>2. /\ Count(n) \in Nat \ {0}
      /\ \A k \in 1 .. Count(n) :
            /\ Cut(k - 1, n) = (k - 1) * RecordUnits
            /\ Cut(k - 1, n) \in 0 .. n - 1 /\ Cut(k, n) \in Cut(k - 1, n) + 1 .. n
  BY <1>1, Cuts
<1>. DEFINE f == [k \in 1 .. Count(n) |-> SubSeq(u, Cut(k - 1, n) + 1, Cut(k, n))]
<1>3. Records(u) = f
  BY <1>1, <1>2 DEF Records, Count, Cut
<1>4. \A k \in 1 .. Count(n) : SubSeq(u, Cut(k - 1, n) + 1, Cut(k, n)) \in Seq(S)
  <2>. SUFFICES ASSUME NEW k \in 1 .. Count(n)
                PROVE  SubSeq(u, Cut(k - 1, n) + 1, Cut(k, n)) \in Seq(S)
    OBVIOUS
  <2>1. PICK x \in 1 .. n : x = Cut(k - 1, n) + 1
    BY <1>2
  <2>2. PICK y \in x .. n : y = Cut(k, n)
    BY <1>2, <2>1
  <2>. QED  BY <1>1, <2>1, <2>2, PartIs
<1>5. f \in [1 .. Count(n) -> Seq(S)]
  BY <1>4
<1>. HIDE DEF f
<1>6. f \in Seq(Seq(S)) /\ Len(f) = Count(n)
  <2>1. PICK m \in Nat : m = Count(n)
    BY <1>2
  <2>2. \A h : h \in [1 .. m -> Seq(S)] => h \in Seq(Seq(S)) /\ Len(h) = m
    OBVIOUS
  <2>. QED  BY <1>5, <2>1, <2>2
<1>. QED  BY <1>1, <1>3, <1>6 DEF f

\* The records of a block of the messages after p up to q take a reader from the one to
\* the other.
LEMMA RecordsLead ==
    ASSUME NEW p \in 0 .. Len(Size), NEW q \in 0 .. Len(Size), p < q, p = 0 => q = 1
    PROVE  /\ Records(pack_block(From(p, q))) \in Seq(WireRecords)
           /\ Leads(Records(pack_block(From(p, q))), Cursor(Before(p), 0), Cursor(Before(q), 0))
<1>1. q \in p .. Len(Size)
  BY Sizes
<1>2. PICK P \in Seq(Units) : P = Payload(From(p, q))
  BY <1>1, BatchTyped
<1>3. PICK L \in Nat : L = Len(P)
  OBVIOUS
<1>4. PICK g \in Nat : g = Before(p)
  BY <1>1, BeforeNext
<1>5. Before(q) = g + L /\ Before(q) - Before(p) = L /\ L >= 1
  <2>1. Before(q) = g + L
    BY <1>1, <1>2, <1>3, <1>4, BeforeNext
  <2>2. g < g + L
    BY <1>4, <2>1, BeforeIncreases
  <2>. QED  BY <1>4, <2>1, <2>2
<1>6. Stands(P, g)
  BY <1>1, <1>2, <1>4, BatchStands
<1>7. PICK u \in Seq(Wired) : u = pack_block(From(p, q))
  <2>1. Header(L) \in Wired /\ P \in Seq(Wired)
    <3>1. Seq(Units) \subseteq Seq(Wired)
      BY SeqWidens DEF Wired
    <3>. QED  BY <3>1 DEF Wired
  <2>2. <<Header(L)>> \in Seq(Wired)
    BY <2>1
  <2>3. <<Header(L)>> \o P \in Seq(Wired)
    BY <2>1, <2>2, ConcatIs
  <2>. QED  BY <1>2, <1>3, <2>3 DEF pack_block
<1>8. /\ Len(u) = L + 1 /\ u[1] = Header(L)
      /\ \A i \in 1 .. L : u[i + 1] = P[i]
  <2>1. u = <<Header(L)>> \o P
    BY <1>2, <1>3, <1>7 DEF pack_block
  <2>. QED  BY <1>3, <2>1
<1>9. PICK n \in Nat : n = L + 1
  OBVIOUS
<1>10. PICK K \in Nat \ {0} : K = Count(n)
  BY <1>5, <1>9, Cuts
<1>11. /\ Cut(0, n) = 0 /\ Cut(1, n) \in 2 .. n /\ Cut(K, n) = n
       /\ \A k \in 1 .. K : /\ Cut(k - 1, n) \in 0 .. n - 1
                            /\ Cut(k, n) \in Cut(k - 1, n) + 1 .. n
                            /\ Cut(k, n) - Cut(k - 1, n) <= RecordUnits
                            /\ k # 1 => Cut(k - 1, n) >= 2
  BY <1>5, <1>9, <1>10, Cuts
<1>12. PICK rs \in Seq(Seq(Wired)) : rs = Records(u) /\ Len(rs) = K
         /\ \A k \in 1 .. K : rs[k] = SubSeq(u, Cut(k - 1, n) + 1, Cut(k, n))
  <2>1. Len(u) = n /\ n >= 2
    BY <1>5, <1>8, <1>9
  <2>2. /\ Records(u) \in Seq(Seq(Wired)) /\ Len(Records(u)) = Count(Len(u))
        /\ \A k \in 1 .. Count(Len(u)) :
              Records(u)[k] = SubSeq(u, Cut(k - 1, Len(u)) + 1, Cut(k, Len(u)))
    BY <2>1, RecordsAre
  <2>. QED  BY <1>10, <2>1, <2>2
<1>. DEFINE At(x) == IF x = 0 THEN Cursor(g, 0) ELSE Cursor(g + (x - 1), n - x)
            c == [k \in 1 .. K + 1 |-> At(Cut(k - 1, n))]
<1>13. \A x \in 0 .. n : At(x) \in Cursors
  BY <1>4, <1>9, CursorIs DEF Cursor, Cursors
<1>14. \A k \in 1 .. K + 1 : Cut(k - 1, n) \in 0 .. n
  <2>. SUFFICES ASSUME NEW k \in 1 .. K + 1
                PROVE  Cut(k - 1, n) \in 0 .. n
    OBVIOUS
  <2>1. CASE k \in 1 .. K
    <3>1. Cut(k - 1, n) \in 0 .. n - 1
      BY <1>11, <2>1
    <3>2. 0 .. n - 1 \subseteq 0 .. n
      OBVIOUS
    <3>. QED  BY <3>1, <3>2
  <2>2. CASE k \notin 1 .. K
    <3>1. k - 1 = K
      BY <2>2
    <3>. QED  BY <1>11, <3>1
  <2>. QED  BY <2>1, <2>2
<1>15. c \in [1 .. K + 1 -> Cursors]
  BY <1>13, <1>14
<1>16. /\ c[1] = At(0) /\ c[K + 1] = At(n)
       /\ \A k \in 1 .. K : c[k] = At(Cut(k - 1, n)) /\ c[k + 1] = At(Cut(k, n))
  <2>1. /\ 1 \in 1 .. K + 1 /\ K + 1 \in 1 .. K + 1 /\ 1 - 1 = 0 /\ (K + 1) - 1 = K
        /\ \A k \in 1 .. K : k \in 1 .. K + 1 /\ k + 1 \in 1 .. K + 1 /\ (k + 1) - 1 = k
    OBVIOUS
  <2>. HIDE DEF At
  <2>. QED  BY <1>11, <2>1
<1>17. At(0) = Cursor(Before(p), 0) /\ At(n) = Cursor(Before(q), 0)
  <2>1. n # 0 /\ n - 1 = L /\ n - n = 0
    BY <1>9
  <2>. QED  BY <1>4, <1>5, <2>1
<1>. HIDE DEF c
<1>18. ASSUME NEW k \in 1 .. K
       PROVE  Takes(rs[k], At(Cut(k - 1, n)), At(Cut(k, n))) /\ rs[k] \in WireRecords
  <2>1. PICK x \in 0 .. n - 1 : x = Cut(k - 1, n)
    BY <1>11
  <2>2. PICK y \in x + 1 .. n : y = Cut(k, n)
    BY <1>11, <2>1
  <2>3. x \in Nat /\ y \in Nat /\ y # 0 /\ x + 1 \in 1 .. n /\ y <= n /\ y - x \in Nat \ {0}
    OBVIOUS
  <2>4. PICK r \in Seq(Wired) : /\ r = rs[k] /\ Len(r) = y - x
                                /\ \A i \in 1 .. y - x : r[i] = u[x + i]
    <3>1. /\ SubSeq(u, x + 1, y) \in Seq(Wired) /\ Len(SubSeq(u, x + 1, y)) = y - (x + 1) + 1
          /\ \A i \in 1 .. y - (x + 1) + 1 : SubSeq(u, x + 1, y)[i] = u[(x + 1) + i - 1]
      <4>1. PICK m \in 1 .. Len(u) : m = x + 1
        BY <1>8, <1>9, <2>3
      <4>2. PICK l \in m .. Len(u) : l = y
        BY <1>8, <1>9, <2>2, <4>1
      <4>. QED  BY <4>1, <4>2, PartIs
    <3>2. y - (x + 1) + 1 = y - x /\ \A i \in 1 .. y - x : (x + 1) + i - 1 = x + i
      BY <2>3
    <3>3. rs[k] = SubSeq(u, x + 1, y)
      BY <1>12, <2>1, <2>2
    <3>4. PICK v \in Seq(Wired) : v = SubSeq(u, x + 1, y)
      BY <3>1
    <3>5. Len(v) = y - x /\ \A i \in 1 .. y - x : v[i] = u[(x + 1) + i - 1]
      BY <3>1, <3>2, <3>4
    <3>. QED  BY <3>2, <3>3, <3>4, <3>5
  <2>0. rs[k] \in WireRecords
    <3>1. y - x <= RecordUnits /\ RecordUnits \in Nat
      BY <1>11, <2>1, <2>2, SizesAssumption
    <3>2. y - x \in 1 .. RecordUnits
      BY <2>3, <3>1
    <3>. QED  BY <2>4, <3>2 DEF WireRecords
  <2>5. g + L <= Len(All) /\ \A i \in 1 .. L : P[i] = All[g + i]
    BY <1>3, <1>6 DEF Stands
  <2>6. \A j \in 2 .. n : u[j] = All[g + (j - 1)]
    <3>. SUFFICES ASSUME NEW j \in 2 .. n
                  PROVE  u[j] = All[g + (j - 1)]
      OBVIOUS
    <3>1. j - 1 \in 1 .. L /\ (j - 1) + 1 = j
      BY <1>9
    <3>. QED  BY <1>8, <2>5, <3>1
  <2>7. CASE k = 1
    <3>1. x = 0 /\ y \in 2 .. n /\ y - x = y
      BY <1>11, <2>1, <2>2, <2>7
    <3>2. Len(r) = y /\ r[1] = Header(L) /\ \A i \in 1 .. y : r[i] = u[i]
      <4>1. Len(r) = y /\ \A i \in 1 .. y : r[i] = u[0 + i]
        BY <2>4, <3>1
      <4>2. \A i \in 1 .. y : 0 + i = i
        OBVIOUS
      <4>3. \A i \in 1 .. y : r[i] = u[i]
        BY <4>1, <4>2
      <4>4. 1 \in 1 .. y
        BY <3>1
      <4>. QED  BY <1>8, <4>1, <4>3, <4>4
    <3>3. PICK t \in Seq(Wired) : /\ t = Tail(r) /\ Len(t) = y - 1
                                  /\ \A i \in 1 .. y - 1 : t[i] = r[i + 1]
      <4>1. r # << >>
        BY <3>1, <3>2
      <4>2. /\ Tail(r) \in Seq(Wired) /\ Len(Tail(r)) = Len(r) - 1
            /\ \A i \in 1 .. Len(r) - 1 : Tail(r)[i] = r[i + 1]
        BY <4>1, TailIs
      <4>. QED  BY <3>2, <4>2
    <3>4. Stands(t, g)
      <4>1. \A i \in 1 .. y - 1 : i + 1 \in 2 .. n /\ i + 1 \in 1 .. y /\ (i + 1) - 1 = i
        BY <3>1
      <4>2. g + (y - 1) <= Len(All)
        BY <1>9, <2>5, <3>1, AllTyped
      <4>3. \A i \in 1 .. y - 1 : t[i] = All[g + i]
        <5>. SUFFICES ASSUME NEW i \in 1 .. y - 1
                      PROVE  t[i] = All[g + i]
          OBVIOUS
        <5>1. t[i] = u[i + 1]
          BY <3>2, <3>3, <4>1
        <5>2. u[i + 1] = All[g + ((i + 1) - 1)]
          BY <2>6, <4>1
        <5>. QED  BY <4>1, <5>1, <5>2
      <4>. QED  BY <3>3, <4>2, <4>3 DEF Stands
    <3>5. Cursor(g, 0).at = g /\ Cursor(g, 0).need = 0
      BY DEF Cursor
    <3>6. y - 1 <= L /\ y >= 2
      BY <1>9, <3>1
    <3>7. Opens(r, Cursor(g, 0))
      BY <1>4, <1>5, <3>2, <3>3, <3>4, <3>5, <3>6 DEF Opens
    <3>8. n - y = L - (y - 1)
      BY <1>9, <3>1
    <3>9. At(y) = Cursor(g + (y - 1), L - (y - 1))
      BY <2>3, <3>8
    <3>10. r[1].size = L
      BY <3>2, HeaderIs
    <3>. QED  BY <2>0, <2>1, <2>2, <2>4, <3>1, <3>2, <3>5, <3>7, <3>9, <3>10 DEF Takes
  <2>8. CASE k # 1
    <3>1. x >= 2
      BY <1>11, <2>1, <2>8
    <3>2. PICK a \in Cursors : a = At(x) /\ a.at = g + (x - 1) /\ a.need = n - x
      <4>1. At(x) = Cursor(g + (x - 1), n - x) /\ g + (x - 1) \in Nat /\ n - x \in Nat
        BY <2>3, <3>1
      <4>. HIDE DEF At
      <4>. QED  BY <4>1, CursorIs
    <3>3. Stands(r, a.at)
      <4>1. \A i \in 1 .. y - x : x + i \in 2 .. n /\ g + ((x + i) - 1) = g + (x - 1) + i
        <5>1. \A i \in 1 .. y - x : x + i \in 2 .. n
          BY <2>3, <3>1
        <5>2. \A i \in Nat : g + ((x + i) - 1) = g + (x - 1) + i
          BY <2>3
        <5>3. \A i \in 1 .. y - x : i \in Nat
          OBVIOUS
        <5>. QED  BY <5>1, <5>2, <5>3
      <4>2. g + (x - 1) + (y - x) <= Len(All)
        <5>1. g + (x - 1) + (y - x) = g + (y - 1)
          BY <2>3
        <5>2. g + (y - 1) <= g + L
          BY <1>9, <2>3
        <5>. QED  BY <2>3, <2>5, <5>1, <5>2, AllTyped
      <4>3. \A i \in 1 .. y - x : r[i] = All[g + (x - 1) + i]
        BY <2>4, <2>6, <4>1
      <4>. QED  BY <2>4, <3>2, <4>2, <4>3 DEF Stands
    <3>4. Carries(r, a)
      <4>1. y - x \in 1 .. n - x
        BY <2>3
      <4>. QED  BY <2>4, <3>2, <3>3, <4>1 DEF Carries
    <3>5. At(y) = Cursor(a.at + Len(r), a.need - Len(r))
      <4>1. g + (y - 1) = g + (x - 1) + (y - x) /\ n - y = (n - x) - (y - x)
        BY <2>3
      <4>. QED  BY <2>3, <2>4, <3>2, <4>1
    <3>. QED  BY <2>0, <2>1, <2>2, <2>4, <3>2, <3>4, <3>5 DEF Takes
  <2>. QED  BY <2>7, <2>8
<1>. HIDE DEF At
<1>19. \A k \in 1 .. K : Takes(rs[k], c[k], c[k + 1])
  BY <1>16, <1>18
<1>20. Leads(rs, Cursor(Before(p), 0), Cursor(Before(q), 0))
  BY <1>12, <1>15, <1>16, <1>17, <1>19 DEF Leads
<1>21. rs \in Seq(WireRecords)
  BY <1>12, <1>18
<1>. QED  BY <1>7, <1>12, <1>20, <1>21

-----------------------------------------------------------------------------
(***************************************************************************)
(* What receive_message makes of a read.                                   *)
(***************************************************************************)
\* The first read finds the header at its first place and keeps what follows.
LEMMA FirstApplied ==
    ASSUME NEW r \in Seq(Wired), Len(r) >= 2, NEW n \in Nat, r[1] = Header(n)
    PROVE  apply_buffer_to_block(r, EmptyBlock, 0)
              = Applied([payload_size |-> n, payload |-> Tail(r)], Len(r) - 1)
<1>1. 1 \in Headers(r) /\ \A j \in Headers(r) : 1 <= j /\ j \in Nat
  BY HeaderIs DEF Headers
<1>2. PICK at : at = CHOOSE i \in Headers(r) : \A j \in Headers(r) : i <= j
  OBVIOUS
<1>3. at \in Headers(r) /\ \A j \in Headers(r) : at <= j
  BY <1>1, <1>2
<1>4. at = 1
  BY <1>1, <1>3
<1>5. apply_buffer_to_block(r, EmptyBlock, 0)
         = Applied([payload_size |-> r[at].size, payload |-> SubSeq(r, at + 1, Len(r))],
                   Len(SubSeq(r, at + 1, Len(r))))
  BY <1>1, <1>2 DEF apply_buffer_to_block
<1>6. SubSeq(r, 1 + 1, Len(r)) = Tail(r) /\ Len(Tail(r)) = Len(r) - 1
  OBVIOUS
<1>. QED  BY <1>4, <1>5, <1>6, HeaderIs

\* The two results of apply_buffer_to_block.
LEMMA AppliedIs == \A b, n : Applied(b, n).block = b /\ Applied(b, n).applied = n
BY DEF Applied

\* A later one is added whole.
LEMMA MoreApplied ==
    ASSUME NEW r, NEW b, NEW n, 0 < n, n < b.payload_size
    PROVE  apply_buffer_to_block(r, b, n)
              = Applied([b EXCEPT !.payload = @ \o r], Len(b.payload) + Len(r) - n)
<1>1. n # 0
  OBVIOUS
<1>. QED  BY <1>1 DEF apply_buffer_to_block

\* What follows in the stream is added to what stands.
LEMMA StandsConcat ==
    ASSUME NEW S, NEW s \in Seq(S), NEW t \in Seq(S), NEW g \in Nat,
           Stands(s, g), Stands(t, g + Len(s))
    PROVE  Stands(s \o t, g) /\ Len(s \o t) = Len(s) + Len(t) /\ Len(s) \in Nat /\ Len(t) \in Nat
<1>1. PICK u \in Seq(S) : u = s \o t
  BY ConcatIs
<1>2. /\ Len(u) = Len(s) + Len(t) /\ Len(s) \in Nat /\ Len(t) \in Nat
      /\ \A i \in 1 .. Len(s) : u[i] = s[i]
      /\ \A i \in 1 .. Len(t) : u[Len(s) + i] = t[i]
  BY <1>1, ConcatIs
<1>3. /\ \A i \in 1 .. Len(s) : s[i] = All[g + i]
      /\ g + Len(s) + Len(t) <= Len(All)
      /\ \A i \in 1 .. Len(t) : t[i] = All[g + Len(s) + i]
  BY DEF Stands
<1>4. \A i \in 1 .. Len(u) : u[i] = All[g + i]
  <2>. SUFFICES ASSUME NEW i \in 1 .. Len(u)
                PROVE  u[i] = All[g + i]
    OBVIOUS
  <2>1. CASE i \in 1 .. Len(s)
    BY <1>2, <1>3, <2>1
  <2>2. CASE i \notin 1 .. Len(s)
    <3>1. /\ i - Len(s) \in 1 .. Len(t)
          /\ Len(s) + (i - Len(s)) = i /\ g + Len(s) + (i - Len(s)) = g + i
      BY <1>2, <2>2
    <3>2. u[i] = t[i - Len(s)] /\ t[i - Len(s)] = All[g + i]
      BY <1>2, <1>3, <3>1
    <3>. QED  BY <3>2
  <2>. QED  BY <2>1, <2>2
<1>5. g + Len(u) <= Len(All)
  BY <1>2, <1>3
<1>. QED  BY <1>1, <1>2, <1>4, <1>5 DEF Stands

\* What stands is units of messages.
LEMMA StandsTyped ==
    ASSUME NEW S, NEW s \in Seq(S), NEW g \in Nat, Stands(s, g)
    PROVE  s \in Seq(Units)
<1>1. \A i \in 1 .. Len(s) : s[i] \in Units
  <2>1. \A i \in 1 .. Len(s) : g + i \in 1 .. Len(All) /\ s[i] = All[g + i]
    BY AllTyped DEF Stands
  <2>. QED  BY <2>1, AllTyped
<1>. QED  BY <1>1

-----------------------------------------------------------------------------
(***************************************************************************)
(* The invariant and the steps.                                            *)
(***************************************************************************)
LEMMA BeforeTyped == ASSUME NEW p \in 0 .. Len(Size) PROVE Before(p) \in Nat
<1>1. p \in p .. Len(Size)
  BY Sizes
<1>. QED  BY <1>1, BeforeNext

\* The receiver has seen messages that there are.
LEMMA SeenTyped == ASSUME ReceivedInOrder PROVE Seen \in 0 .. Len(Size)
<1>1. Len(received) \in Nat /\ Len(received) + 1 <= Len(Size)
  BY DEF ReceivedInOrder
<1>. QED  BY <1>1, Sizes DEF Seen

\* Before the first step nothing is in the stream and the receiver is at its beginning.
LEMMA InitHolds == Init => FramingInvariant
<1>. SUFFICES ASSUME Init PROVE FramingInvariant
  OBVIOUS
<1>0. Len(Size) \in Nat \ {0}
  BY Sizes
<1>1. StreamTypes
  <2>1. << >> \in Seq(WireRecords)
    OBVIOUS
  <2>2. 0 \in 0 .. Len(Size) /\ 0 \in 0 .. 0
    BY <1>0
  <2>. QED  BY <2>1, <2>2 DEF Init, StreamTypes
<1>2. ReceivedInOrder
  <2>1. received = << >> /\ Len(received) = 0 /\ received \in Seq(Msgs)
    BY DEF Init
  <2>2. From(1, 1) = << >>
    BY DEF From
  <2>. QED  BY <1>0, <2>1, <2>2 DEF ReceivedInOrder
<1>3. StreamIsWhole
  <2>. DEFINE a == Cursor(Before(0), 0)
  <2>1. a \in Cursors
    BY BeforeFirst, CursorIs
  <2>2. ReceiverAt(a)
    BY DEF Init, ReceiverAt, Seen
  <2>. HIDE DEF a
  <2>3. Leads(wire, a, a) /\ Leads(unwritten, a, a)
    BY <2>1, LeadsNowhere DEF Init
  <2>4. packed = 0
    BY DEF Init
  <2>5. Leads(unwritten, a, Cursor(Before(packed), 0))
    BY <2>3, <2>4 DEF a
  <2>. QED  BY <2>1, <2>2, <2>3, <2>5 DEF StreamIsWhole
<1>4. EndedIsComplete
  BY DEF Init, EndedIsComplete
<1>. QED  BY <1>1, <1>2, <1>3, <1>4 DEF FramingInvariant

\* The receiver's state is the same.
LEMMA SameReceiver ==
    ASSUME UNCHANGED receiver
    PROVE  /\ ReceivedInOrder => ReceivedInOrder'
           /\ \A a : ReceiverAt(a) => ReceiverAt(a)'
BY DEF receiver, ReceivedInOrder, ReceiverAt, Receives, Gathers, Seen

\* Queueing a message does not touch the stream.
LEMMA QueueKeeps == FramingInvariant /\ Queue => FramingInvariant'
<1>. SUFFICES ASSUME FramingInvariant, Queue PROVE FramingInvariant'
  OBVIOUS
<1>. USE DEF FramingInvariant
<1>1. /\ UNCHANGED <<packed, unwritten, wire, link, receiver>>
      /\ queued' = queued + 1 /\ queued < Len(Size)
  BY DEF Queue
<1>2. StreamTypes'
  <2>1. queued \in 0 .. Len(Size) /\ packed \in 0 .. queued
    BY DEF StreamTypes
  <2>2. queued' \in 0 .. Len(Size) /\ packed' \in 0 .. queued'
    BY <1>1, <2>1, Sizes
  <2>. QED  BY <1>1, <2>2 DEF StreamTypes, receiver
<1>3. ReceivedInOrder'
  BY <1>1, SameReceiver
<1>4. StreamIsWhole'
  <2>1. PICK a \in Cursors, b \in Cursors :
           /\ ReceiverAt(a) /\ Leads(wire, a, b)
           /\ link # "stalled" => Leads(unwritten, b, Cursor(Before(packed), 0))
    BY DEF StreamIsWhole
  <2>2. ReceiverAt(a)'
    BY <1>1, <2>1, SameReceiver
  <2>. QED  BY <1>1, <2>1, <2>2 DEF StreamIsWhole
<1>5. EndedIsComplete'
  BY <1>1 DEF EndedIsComplete, receiver
<1>. QED  BY <1>2, <1>3, <1>4, <1>5

\* The records of a new block lead from what was packed to what now is.
LEMMA SendKeeps == FramingInvariant /\ Send => FramingInvariant'
<1>. SUFFICES ASSUME FramingInvariant, Send PROVE FramingInvariant'
  OBVIOUS
<1>. USE DEF FramingInvariant
<1>1. /\ UNCHANGED <<queued, wire, link, receiver>> /\ link = "open" /\ unwritten = << >>
      /\ packed < queued /\ packed' = IF packed = 0 THEN 1 ELSE queued
      /\ unwritten' = Records(pack_block(From(packed, packed')))
  BY DEF Send, From
<1>2. /\ queued \in 0 .. Len(Size) /\ packed \in 0 .. Len(Size) /\ packed' \in 0 .. Len(Size)
      /\ packed < packed' /\ packed' <= queued /\ (packed = 0 => packed' = 1)
  <2>1. queued \in 0 .. Len(Size) /\ packed \in 0 .. queued
    BY DEF StreamTypes
  <2>. QED  BY <1>1, <2>1, Sizes
<1>3. /\ unwritten' \in Seq(WireRecords)
      /\ Leads(unwritten', Cursor(Before(packed), 0), Cursor(Before(packed'), 0))
  BY <1>1, <1>2, RecordsLead
<1>4. StreamTypes'
  <2>1. queued' \in 0 .. Len(Size) /\ packed' \in 0 .. queued'
    BY <1>1, <1>2
  <2>. QED  BY <1>1, <1>3, <2>1 DEF StreamTypes, receiver
<1>5. ReceivedInOrder'
  BY <1>1, SameReceiver
<1>6. StreamIsWhole'
  <2>1. PICK a \in Cursors, b \in Cursors :
           /\ ReceiverAt(a) /\ Leads(wire, a, b)
           /\ link # "stalled" => Leads(unwritten, b, Cursor(Before(packed), 0))
    BY DEF StreamIsWhole
  <2>2. b = Cursor(Before(packed), 0)
    BY <1>1, <2>1, LeadsNowhere
  <2>3. ReceiverAt(a)'
    BY <1>1, <2>1, SameReceiver
  <2>4. Leads(unwritten', b, Cursor(Before(packed'), 0))
    BY <1>3, <2>2
  <2>5. Leads(unwritten, b, Cursor(Before(packed), 0))'
    BY <2>4 DEF Leads, Cursor, Before
  <2>6. Leads(wire, a, b)'
    BY <1>1, <2>1
  <2>. QED  BY <2>3, <2>5, <2>6 DEF StreamIsWhole
<1>7. EndedIsComplete'
  BY <1>1 DEF EndedIsComplete, receiver
<1>. QED  BY <1>4, <1>5, <1>6, <1>7

\* The record that is written goes from the one sequence to the other.
LEMMA WriteKeeps == FramingInvariant /\ WriteRecord => FramingInvariant'
<1>. SUFFICES ASSUME FramingInvariant, WriteRecord PROVE FramingInvariant'
  OBVIOUS
<1>. USE DEF FramingInvariant
<1>1. /\ UNCHANGED <<queued, packed, link, receiver>> /\ link = "open" /\ unwritten # << >>
      /\ wire' = Append(wire, Head(unwritten)) /\ unwritten' = Tail(unwritten)
  BY DEF WriteRecord
<1>2. wire \in Seq(WireRecords) /\ unwritten \in Seq(WireRecords)
  BY DEF StreamTypes
<1>3. Head(unwritten) \in WireRecords /\ Tail(unwritten) \in Seq(WireRecords)
  BY <1>1, <1>2
<1>4. StreamTypes'
  <2>1. wire' \in Seq(WireRecords) /\ unwritten' \in Seq(WireRecords)
    BY <1>1, <1>2, <1>3
  <2>. QED  BY <1>1, <2>1 DEF StreamTypes, receiver
<1>5. ReceivedInOrder'
  BY <1>1, SameReceiver
<1>6. StreamIsWhole'
  <2>1. PICK a \in Cursors, b \in Cursors :
           /\ ReceiverAt(a) /\ Leads(wire, a, b)
           /\ Leads(unwritten, b, Cursor(Before(packed), 0))
    BY <1>1 DEF StreamIsWhole
  <2>2. PICK d \in Cursors : /\ Takes(Head(unwritten), b, d)
                             /\ Leads(Tail(unwritten), d, Cursor(Before(packed), 0))
    BY <1>1, <1>2, <2>1, LeadsSplit
  <2>3. Leads(Append(wire, Head(unwritten)), a, d)
    BY <1>2, <1>3, <2>1, <2>2, LeadsAppended
  <2>4. ReceiverAt(a)'
    BY <1>1, <2>1, SameReceiver
  <2>5. Leads(wire, a, d)' /\ Leads(unwritten, d, Cursor(Before(packed), 0))'
    BY <1>1, <2>2, <2>3
  <2>. QED  BY <2>4, <2>5 DEF StreamIsWhole
<1>7. EndedIsComplete'
  BY <1>1 DEF EndedIsComplete, receiver
<1>. QED  BY <1>4, <1>5, <1>6, <1>7

\* What is left of the wire after a stall leads somewhere; a close leaves all of it.
LEMMA FaultKeeps == ASSUME FramingInvariant, NEW f, Fault(f) PROVE FramingInvariant'
<1>. USE DEF FramingInvariant
<1>1. UNCHANGED <<sender, receiver>> /\ link = "open"
  BY DEF Fault
<1>2. wire \in Seq(WireRecords) /\ Len(wire) \in Nat
  <2>1. wire \in Seq(WireRecords)
    BY DEF StreamTypes
  <2>. QED  BY <2>1
<1>3. \/ link' = "stalled" /\ \E n \in 0 .. Len(wire) : wire' = SubSeq(wire, 1, n)
      \/ link' = "closed" /\ wire' = wire
  BY DEF Fault
<1>4. StreamTypes'
  <2>1. wire' \in Seq(WireRecords)
    BY <1>2, <1>3
  <2>. QED  BY <1>1, <1>3, <2>1 DEF StreamTypes, sender, receiver
<1>5. ReceivedInOrder'
  BY <1>1, SameReceiver
<1>6. StreamIsWhole'
  <2>1. PICK a \in Cursors, b \in Cursors :
           /\ ReceiverAt(a) /\ Leads(wire, a, b)
           /\ Leads(unwritten, b, Cursor(Before(packed), 0))
    BY <1>1 DEF StreamIsWhole
  <2>2. ReceiverAt(a)'
    BY <1>1, <2>1, SameReceiver
  <2>3. CASE link' = "closed" /\ wire' = wire
    BY <1>1, <2>1, <2>2, <2>3 DEF StreamIsWhole, sender
  <2>4. CASE link' = "stalled" /\ \E n \in 0 .. Len(wire) : wire' = SubSeq(wire, 1, n)
    <3>1. PICK n \in 0 .. Len(wire) : wire' = SubSeq(wire, 1, n)
      BY <2>4
    <3>2. PICK d \in Cursors : Leads(SubSeq(wire, 1, n), a, d)
      BY <1>2, <2>1, LeadsShortened
    <3>3. Leads(wire, a, d)'
      BY <3>1, <3>2
    <3>. QED  BY <2>2, <2>4, <3>3 DEF StreamIsWhole
  <2>. QED  BY <1>3, <2>3, <2>4
<1>7. EndedIsComplete'
  BY <1>1 DEF EndedIsComplete, receiver
<1>. QED  BY <1>4, <1>5, <1>6, <1>7

\* A receiver that misses nothing reads the beginning of a block,
LEMMA FirstReadKeeps == FramingInvariant /\ FirstRead => FramingInvariant'
<1>. SUFFICES ASSUME FramingInvariant, FirstRead PROVE FramingInvariant'
  OBVIOUS
<1>. USE DEF FramingInvariant
<1>1. /\ Receives /\ ~reading /\ wire # << >> /\ reading'
      /\ block' = apply_buffer_to_block(Chunk.read, EmptyBlock, 0).block
      /\ applied' = apply_buffer_to_block(Chunk.read, EmptyBlock, 0).applied
      /\ wire' = Chunk.rest /\ UNCHANGED <<sender, link, mode, received>>
  BY DEF FirstRead
<1>2. PICK a \in Cursors, b \in Cursors :
         /\ ReceiverAt(a) /\ Leads(wire, a, b)
         /\ link # "stalled" => Leads(unwritten, b, Cursor(Before(packed), 0))
  BY DEF StreamIsWhole
<1>3. wire \in Seq(WireRecords)
  BY DEF StreamTypes
<1>4. PICK d \in Cursors : Takes(Chunk.read, a, d) /\ Leads(Chunk.rest, d, b)
  BY <1>1, <1>2, <1>3, ReadTakes
<1>5. PICK r \in Seq(Wired) : r = Chunk.read
  BY <1>1, <1>2, <1>3, ReadTakes
<1>6. Chunk.rest \in Seq(WireRecords)
  BY <1>1, <1>2, <1>3, ReadTakes
<1>7. a = Cursor(Before(Seen), 0) /\ Seen \in 0 .. Len(Size) /\ Before(Seen) \in Nat
  BY <1>1, <1>2, SeenTyped, BeforeTyped DEF ReceiverAt
<1>8. a.at = Before(Seen) /\ a.need = 0
  BY <1>7 DEF Cursor
<1>9. Opens(r, a) /\ d = Cursor(a.at + (Len(r) - 1), r[1].size - (Len(r) - 1))
  <2>1. ~Carries(r, a)
    BY <1>8 DEF Carries
  <2>. QED  BY <1>4, <1>5, <2>1 DEF Takes
<1>10. PICK p \in 0 .. Len(Size), q \in 0 .. Len(Size) :
          /\ p < q /\ (p = 0 => q = 1)
          /\ a.at = Before(p) /\ r[1] = Header(Before(q) - Before(p))
          /\ Len(r) - 1 <= Before(q) - Before(p)
  BY <1>9 DEF Opens
<1>11. p = Seen
  BY <1>7, <1>8, <1>10, BeforeInjective
<1>12. Before(q) - Before(p) \in Nat
  <2>1. Before(p) \in Nat /\ Before(q) \in Nat /\ Before(p) < Before(q)
    BY <1>10, BeforeTyped, BeforeIncreases
  <2>. QED  BY <2>1
<1>13. Len(r) >= 2 /\ Stands(Tail(r), Before(p))
  BY <1>9, <1>10 DEF Opens
<1>0. PICK L \in Nat : L = Before(q) - Before(p)
  BY <1>12
<1>14. /\ block' = [payload_size |-> Before(q) - Before(p), payload |-> Tail(r)]
       /\ applied' = Len(r) - 1
  <2>1. apply_buffer_to_block(r, EmptyBlock, 0)
           = Applied([payload_size |-> L, payload |-> Tail(r)], Len(r) - 1)
    <3>1. r[1] = Header(L)
      BY <1>0, <1>10
    <3>. QED  BY <1>13, <3>1, FirstApplied
  <2>2. PICK got : got = apply_buffer_to_block(r, EmptyBlock, 0)
    OBVIOUS
  <2>3. got.block = [payload_size |-> L, payload |-> Tail(r)] /\ got.applied = Len(r) - 1
    BY <2>1, <2>2, AppliedIs
  <2>4. block' = got.block /\ applied' = got.applied
    BY <1>1, <1>5, <2>2
  <2>. QED  BY <1>0, <2>3, <2>4
<1>15. PICK t \in Seq(Units) : t = Tail(r) /\ Len(t) = Len(r) - 1
  <2>1. r # << >>
    BY <1>13
  <2>2. Tail(r) \in Seq(Wired) /\ Len(Tail(r)) = Len(r) - 1
    BY <2>1
  <2>3. Tail(r) \in Seq(Units)
    BY <1>10, <1>13, <2>2, BeforeTyped, StandsTyped
  <2>. QED  BY <2>2, <2>3
<1>16. Seen' = Seen
  BY <1>1 DEF Seen
<1>17. Gathers(Seen, d)'
  <2>1. /\ block'.payload = t /\ block'.payload_size = Before(q) - Before(p)
        /\ block' \in [payload_size : Nat, payload : Seq(Units)]
    BY <1>12, <1>14, <1>15
  <2>2. applied' = Len(t) /\ applied' >= 1 /\ applied' <= Before(q) - Before(p)
    BY <1>10, <1>13, <1>14, <1>15
  <2>3. d = Cursor(Before(p) + applied', Before(q) - Before(p) - applied')
    BY <1>9, <1>10, <1>14, HeaderIs
  <2>4. Gathers(p, d)'
    BY <1>10, <1>13, <1>15, <2>1, <2>2, <2>3 DEF Gathers
  <2>. QED  BY <1>11, <1>16, <2>4 DEF Gathers
<1>18. StreamTypes'
  BY <1>1, <1>6 DEF StreamTypes, sender
<1>19. ReceivedInOrder'
  BY <1>1 DEF ReceivedInOrder
<1>20. StreamIsWhole'
  <2>1. ReceiverAt(d)'
    BY <1>1, <1>17 DEF ReceiverAt, Receives
  <2>2. Leads(wire, d, b)'
    BY <1>1, <1>4
  <2>3. (link # "stalled" => Leads(unwritten, b, Cursor(Before(packed), 0)))'
    BY <1>1, <1>2 DEF sender
  <2>. QED  BY <2>1, <2>2, <2>3 DEF StreamIsWhole
<1>21. EndedIsComplete'
  BY <1>1 DEF EndedIsComplete, Receives
<1>. QED  BY <1>18, <1>19, <1>20, <1>21

\* and one that misses units a part of those.
LEMMA ReadMoreKeeps == FramingInvariant /\ ReadMore => FramingInvariant'
<1>. SUFFICES ASSUME FramingInvariant, ReadMore PROVE FramingInvariant'
  OBVIOUS
<1>. USE DEF FramingInvariant
<1>1. /\ reading /\ wire # << >> /\ reading' = reading
      /\ 0 < applied /\ applied < block.payload_size
      /\ block' = apply_buffer_to_block(Chunk.read, block, applied).block
      /\ applied' = applied + apply_buffer_to_block(Chunk.read, block, applied).applied
      /\ wire' = Chunk.rest /\ UNCHANGED <<sender, link, mode, received>>
  BY DEF ReadMore, Incomplete
<1>2. PICK a \in Cursors, b \in Cursors :
         /\ ReceiverAt(a) /\ Leads(wire, a, b)
         /\ link # "stalled" => Leads(unwritten, b, Cursor(Before(packed), 0))
  BY DEF StreamIsWhole
<1>3. wire \in Seq(WireRecords)
  BY DEF StreamTypes
<1>4. PICK d \in Cursors : Takes(Chunk.read, a, d) /\ Leads(Chunk.rest, d, b)
  BY <1>1, <1>2, <1>3, ReadTakes
<1>5. PICK r \in Seq(Wired) : r = Chunk.read
  BY <1>1, <1>2, <1>3, ReadTakes
<1>6. Chunk.rest \in Seq(WireRecords)
  BY <1>1, <1>2, <1>3, ReadTakes
<1>7. Receives /\ Gathers(Seen, a) /\ Seen \in 0 .. Len(Size) /\ Before(Seen) \in Nat
  BY <1>1, <1>2, SeenTyped, BeforeTyped DEF ReceiverAt
<1>8. PICK g \in Nat : g = Before(Seen)
  BY <1>7
<1>9. PICK s \in Seq(Units) : s = block.payload
  BY <1>7 DEF Gathers
<1>10. applied = Len(s) /\ Len(s) \in Nat /\ applied >= 1 /\ Stands(s, g)
  BY <1>7, <1>8, <1>9 DEF Gathers
<1>11. PICK q \in 0 .. Len(Size) :
          /\ Seen < q /\ (Seen = 0 => q = 1)
          /\ block.payload_size = Before(q) - g
          /\ applied <= Before(q) - g
          /\ a = Cursor(g + applied, Before(q) - g - applied)
  BY <1>7, <1>8 DEF Gathers
<1>12. PICK L \in Nat : L = Before(q) - g /\ block.payload_size = L
  <2>1. Before(q) \in Nat
    BY BeforeTyped
  <2>2. Before(q) - g \in Nat
    BY <1>10, <1>11, <2>1
  <2>. QED  BY <1>11, <2>2
<1>13. a.at = g + applied /\ a.need = L - applied /\ a.need # 0
  BY <1>1, <1>10, <1>11, <1>12 DEF Cursor
<1>14. Carries(r, a) /\ d = Cursor(a.at + Len(r), a.need - Len(r))
  <2>1. ~Opens(r, a)
    BY <1>13 DEF Opens
  <2>. QED  BY <1>4, <1>5, <2>1 DEF Takes
<1>15. Len(r) \in 1 .. L - applied /\ Stands(r, g + Len(s))
  BY <1>10, <1>13, <1>14 DEF Carries
<1>16. r \in Seq(Units)
  <2>1. g + Len(s) \in Nat
    BY <1>10
  <2>. QED  BY <1>15, <2>1, StandsTyped
<1>17. PICK t \in Seq(Units) : t = s \o r
  BY <1>16, ConcatIs
<1>18. Stands(t, g) /\ Len(t) = Len(s) + Len(r) /\ Len(r) \in Nat
  BY <1>10, <1>15, <1>16, <1>17, StandsConcat
<1>19. /\ block'.payload_size = L /\ block'.payload = t
       /\ block' \in [payload_size : Nat, payload : Seq(Units)]
       /\ applied' = applied + Len(r)
  <2>0. block \in [payload_size : Nat, payload : Seq(Units)]
    BY <1>7 DEF Gathers
  <2>1. apply_buffer_to_block(r, block, applied)
           = Applied([block EXCEPT !.payload = @ \o r], Len(block.payload) + Len(r) - applied)
    BY <1>1, MoreApplied
  <2>2. Len(s) + Len(r) - applied = Len(r)
    BY <1>10, <1>18
  <2>3. block' = [block EXCEPT !.payload = @ \o r] /\ applied' = applied + Len(r)
    BY <1>1, <1>5, <1>9, <2>1, <2>2 DEF Applied
  <2>. QED  BY <1>9, <1>12, <1>17, <2>0, <2>3
<1>20. Seen' = Seen
  BY <1>1 DEF Seen
<1>21. Gathers(Seen, d)'
  <2>1. applied' = Len(t) /\ applied' >= 1 /\ applied' <= L
    BY <1>10, <1>15, <1>18, <1>19
  <2>2. d = Cursor(g + applied', L - applied')
    <3>1. /\ g + applied + Len(r) = g + (applied + Len(r))
          /\ L - applied - Len(r) = L - (applied + Len(r))
      BY <1>10, <1>18
    <3>. QED  BY <1>13, <1>14, <1>19, <3>1
  <2>. QED  BY <1>8, <1>11, <1>12, <1>18, <1>19, <1>20, <2>1, <2>2 DEF Gathers
<1>22. StreamTypes'
  BY <1>1, <1>6 DEF StreamTypes, sender
<1>23. ReceivedInOrder'
  BY <1>1 DEF ReceivedInOrder
<1>24. StreamIsWhole'
  <2>1. ReceiverAt(d)'
    BY <1>1, <1>7, <1>21 DEF ReceiverAt, Receives
  <2>2. Leads(wire, d, b)'
    BY <1>1, <1>4
  <2>3. (link # "stalled" => Leads(unwritten, b, Cursor(Before(packed), 0)))'
    BY <1>1, <1>2 DEF sender
  <2>. QED  BY <2>1, <2>2, <2>3 DEF StreamIsWhole
<1>25. EndedIsComplete'
  BY <1>1 DEF EndedIsComplete
<1>. QED  BY <1>22, <1>23, <1>24, <1>25

\* A block that is complete has the messages between two cursors.
LEMMA UseBlockKeeps == FramingInvariant /\ UseBlock => FramingInvariant'
<1>. SUFFICES ASSUME FramingInvariant, UseBlock PROVE FramingInvariant'
  OBVIOUS
<1>. USE DEF FramingInvariant
<1>1. /\ reading /\ ~Incomplete /\ reading' = FALSE /\ UNCHANGED <<sender, wire, link>>
      /\ block' = EmptyBlock /\ applied' = 0
  BY DEF UseBlock
<1>2. PICK a \in Cursors, b \in Cursors :
         /\ ReceiverAt(a) /\ Leads(wire, a, b)
         /\ link # "stalled" => Leads(unwritten, b, Cursor(Before(packed), 0))
  BY DEF StreamIsWhole
<1>3. Receives /\ Gathers(Seen, a) /\ Seen \in 0 .. Len(Size)
  BY <1>1, <1>2, SeenTyped DEF ReceiverAt
<1>4. PICK p \in 0 .. Len(Size) : p = Seen
  BY <1>3
<1>5. PICK q \in 0 .. Len(Size) :
         /\ p < q /\ (p = 0 => q = 1)
         /\ block.payload_size = Before(q) - Before(p)
         /\ applied <= Before(q) - Before(p)
         /\ a = Cursor(Before(p) + applied, Before(q) - Before(p) - applied)
  BY <1>3, <1>4 DEF Gathers
<1>6. Before(p) \in Nat /\ Before(q) \in Nat /\ Before(p) < Before(q)
  BY <1>5, BeforeTyped, BeforeIncreases
<1>7. PICK s \in Seq(Units) : s = block.payload
  BY <1>3 DEF Gathers
<1>8. applied = Len(s) /\ Len(s) \in Nat /\ applied >= 1 /\ Stands(s, Before(p))
  BY <1>3, <1>4, <1>7 DEF Gathers
<1>9. applied = Before(q) - Before(p)
  BY <1>1, <1>5, <1>6, <1>8 DEF Incomplete
<1>10. a = Cursor(Before(q), 0)
  <2>1. Before(p) + applied = Before(q) /\ Before(q) - Before(p) - applied = 0
    BY <1>6, <1>9
  <2>. QED  BY <1>5, <2>1
<1>11. q \in p .. Len(Size) /\ Len(Size) \in Nat
  BY <1>5, Sizes
<1>12. s = Payload(From(p, q))
  <2>1. Payload(From(p, q)) \in Seq(Units) /\ Stands(Payload(From(p, q)), Before(p))
    BY <1>11, BatchTyped, BatchStands
  <2>2. Len(Payload(From(p, q))) = Len(s)
    <3>1. Len(Payload(From(p, q))) \in Nat
      BY <2>1
    <3>2. Before(q) = Before(p) + Len(Payload(From(p, q)))
      BY <1>11, BeforeNext
    <3>. QED  BY <1>6, <1>8, <1>9, <3>1, <3>2
  <2>. QED  BY <1>6, <1>8, <2>1, <2>2, StandsUnique
<1>13. PICK ms \in Seq(Msgs) : ms = From(p, q) /\ Len(ms) = q - p
  BY <1>11, FromTyped
<1>14. Begun(block.payload) = ms /\ Unpacks(block) /\ unpack_messages(block) = ms
  <2>1. Begun(s) = ms
    BY <1>12, <1>13, BegunPayload
  <2>2. ~(block.payload_size < 1)
    BY <1>5, <1>6
  <2>. QED  BY <1>7, <1>12, <1>13, <2>1, <2>2 DEF Unpacks, unpack_messages
<1>15. IF mode = "wait" THEN /\ mode' = IF 1 \in Elements(ms) THEN "serving" ELSE mode
                             /\ received' = received
       ELSE received' = received \o ms /\ mode' = mode
  BY <1>14 DEF UseBlock
<1>16. received \in Seq(Msgs) /\ Len(received) \in Nat /\ Len(received) + 1 <= Len(Size)
       /\ received = From(1, Len(received) + 1) /\ (mode = "wait" => received = << >>)
  BY DEF ReceivedInOrder
\* After the block, the receiver has seen the messages up to q.
<1>17. /\ mode' = "serving" /\ received' \in Seq(Msgs) /\ Len(received') + 1 = q
       /\ received' = From(1, q)
  <2>1. CASE mode = "wait"
    <3>1. p = 0 /\ q = 1
      BY <1>4, <1>5, <2>1 DEF Seen
    <3>2. Len(ms) = 1 /\ ms[1] = 1
      BY <1>13, <3>1 DEF From
    <3>3. 1 \in Elements(ms)
      BY <3>2 DEF Elements
    <3>4. received' = << >> /\ mode' = "serving"
      BY <1>15, <1>16, <2>1, <3>3
    <3>5. From(1, 1) = << >>
      BY DEF From
    <3>6. << >> \in Seq(Msgs) /\ Len(<< >>) + 1 = 1
      OBVIOUS
    <3>. QED  BY <3>1, <3>4, <3>5, <3>6
  <2>2. CASE mode # "wait"
    <3>1. mode = "serving" /\ p = Len(received) + 1
      BY <1>3, <1>4, <2>2 DEF Receives, Seen
    <3>2. received' = received \o ms /\ mode' = "serving"
      BY <1>15, <2>2, <3>1
    <3>3. received = From(1, p)
      BY <1>16, <3>1
    <3>4. 1 \in 0 .. Len(Size) /\ p \in 1 .. Len(Size) /\ q \in p .. Len(Size)
      BY <1>11, <1>16, <3>1, Sizes
    <3>5. From(1, q) = From(1, p) \o From(p, q)
      BY <3>4, FromConcat
    <3>6. received' \in Seq(Msgs) /\ Len(received') = Len(received) + Len(ms)
      BY <1>16, <3>2, ConcatIs
    <3>7. Len(received') + 1 = q
      BY <1>11, <1>13, <1>16, <3>1, <3>6
    <3>. QED  BY <1>13, <3>2, <3>3, <3>5, <3>6, <3>7
  <2>. QED  BY <2>1, <2>2
<1>18. StreamTypes'
  BY <1>1, <1>17 DEF StreamTypes, sender
<1>19. ReceivedInOrder'
  BY <1>11, <1>17 DEF ReceivedInOrder
<1>20. StreamIsWhole'
  <2>1. Seen' = q
    BY <1>17 DEF Seen
  <2>2. ReceiverAt(a)'
    BY <1>1, <1>10, <2>1 DEF ReceiverAt
  <2>3. Leads(wire, a, b)' /\ (link # "stalled" => Leads(unwritten, b, Cursor(Before(packed), 0)))'
    BY <1>1, <1>2 DEF sender
  <2>. QED  BY <2>2, <2>3 DEF StreamIsWhole
<1>21. EndedIsComplete'
  BY <1>17 DEF EndedIsComplete
<1>. QED  BY <1>18, <1>19, <1>20, <1>21

\* Giving up only ends the reading.
LEMMA TimeOutKeeps == FramingInvariant /\ TimeOut => FramingInvariant'
<1>. SUFFICES ASSUME FramingInvariant, TimeOut PROVE FramingInvariant'
  OBVIOUS
<1>. USE DEF FramingInvariant
<1>1. /\ mode = "wait" /\ ~reading /\ mode' = "timed out"
      /\ UNCHANGED <<sender, wire, link, reading, block, applied, received>>
  BY DEF TimeOut
<1>2. StreamTypes' /\ ReceivedInOrder' /\ EndedIsComplete'
  BY <1>1 DEF StreamTypes, ReceivedInOrder, EndedIsComplete, sender
<1>3. StreamIsWhole'
  <2>1. PICK a \in Cursors, b \in Cursors :
           /\ ReceiverAt(a) /\ Leads(wire, a, b)
           /\ link # "stalled" => Leads(unwritten, b, Cursor(Before(packed), 0))
    BY DEF StreamIsWhole
  <2>2. ReceiverAt(a)'
    BY <1>1 DEF ReceiverAt, Receives
  <2>. QED  BY <1>1, <2>1, <2>2 DEF StreamIsWhole, sender
<1>. QED  BY <1>2, <1>3

\* With nothing left on the wire the reader is where the sender stopped.
LEMMA NoticeCloseKeeps == FramingInvariant /\ NoticeClose => FramingInvariant'
<1>. SUFFICES ASSUME FramingInvariant, NoticeClose PROVE FramingInvariant'
  OBVIOUS
<1>. USE DEF FramingInvariant
<1>1. /\ Receives /\ ~reading /\ link = "closed" /\ wire = << >> /\ mode' = "ended"
      /\ UNCHANGED <<sender, wire, link, reading, block, applied, received>>
  BY DEF NoticeClose
<1>2. PICK a \in Cursors, b \in Cursors :
         /\ ReceiverAt(a) /\ Leads(wire, a, b)
         /\ Leads(unwritten, b, Cursor(Before(packed), 0))
  BY <1>1 DEF StreamIsWhole
<1>3. StreamTypes' /\ ReceivedInOrder'
  BY <1>1 DEF StreamTypes, ReceivedInOrder, sender
<1>4. StreamIsWhole'
  <2>1. ReceiverAt(a)'
    BY <1>1 DEF ReceiverAt, Receives
  <2>. QED  BY <1>1, <1>2, <2>1 DEF StreamIsWhole, sender
\* All that was written is read.
<1>5. ASSUME packed > 0, unwritten = << >>
      PROVE  Len(received) + 1 = packed
  <2>1. a = b /\ b = Cursor(Before(packed), 0)
    BY <1>1, <1>2, <1>5, LeadsNowhere
  <2>2. a = Cursor(Before(Seen), 0)
    BY <1>1, <1>2 DEF ReceiverAt
  <2>3. Before(Seen) = Before(packed)
    BY <2>1, <2>2 DEF Cursor
  <2>4. packed \in 0 .. Len(Size)
    <3>1. queued \in 0 .. Len(Size) /\ packed \in 0 .. queued
      BY DEF StreamTypes
    <3>. QED  BY <3>1, Sizes
  <2>5. Seen = packed
    BY <2>3, <2>4, SeenTyped, BeforeInjective
  <2>. QED  BY <1>5, <2>4, <2>5 DEF Seen
<1>6. EndedIsComplete'
  BY <1>1, <1>5 DEF EndedIsComplete, sender
<1>. QED  BY <1>3, <1>4, <1>6

\* So the invariant holds.
LEMMA InvariantHolds == Spec => []FramingInvariant
<1>1. Init => FramingInvariant
  BY InitHolds
<1>2. FramingInvariant /\ [Next]_vars => FramingInvariant'
  <2>. SUFFICES ASSUME FramingInvariant, [Next]_vars
                PROVE  FramingInvariant'
    OBVIOUS
  <2>1. CASE Queue
    BY <2>1, QueueKeeps
  <2>2. CASE Send
    BY <2>2, SendKeeps
  <2>3. CASE WriteRecord
    BY <2>3, WriteKeeps
  <2>4. CASE \E f \in {"stall", "close"} : Fault(f)
    BY <2>4, FaultKeeps
  <2>5. CASE FirstRead
    BY <2>5, FirstReadKeeps
  <2>6. CASE ReadMore
    BY <2>6, ReadMoreKeeps
  <2>7. CASE UseBlock
    BY <2>7, UseBlockKeeps
  <2>8. CASE TimeOut
    BY <2>8, TimeOutKeeps
  <2>9. CASE NoticeClose
    BY <2>9, NoticeCloseKeeps
  <2>10. CASE UNCHANGED vars
    <3>1. UNCHANGED <<queued, packed, unwritten, wire, link, receiver>>
      BY <2>10 DEF vars, sender
    <3>2. UNCHANGED <<mode, reading, block, applied, received>>
      BY <3>1 DEF receiver
    <3>3. StreamTypes' /\ ReceivedInOrder' /\ EndedIsComplete'
      BY <3>1, <3>2 DEF FramingInvariant, StreamTypes, ReceivedInOrder, EndedIsComplete
    <3>4. StreamIsWhole'
      <4>1. PICK a \in Cursors, b \in Cursors :
               /\ ReceiverAt(a) /\ Leads(wire, a, b)
               /\ link # "stalled" => Leads(unwritten, b, Cursor(Before(packed), 0))
        BY DEF FramingInvariant, StreamIsWhole
      <4>2. ReceiverAt(a)'
        BY <3>1, <4>1, SameReceiver
      <4>. QED  BY <3>1, <4>1, <4>2 DEF StreamIsWhole
    <3>. QED  BY <3>3, <3>4 DEF FramingInvariant
  <2>. QED  BY <2>1, <2>2, <2>3, <2>4, <2>5, <2>6, <2>7, <2>8, <2>9, <2>10 DEF Next
<1>. QED  BY <1>1, <1>2, PTL DEF Spec

-----------------------------------------------------------------------------
(***************************************************************************)
(* The properties.                                                         *)
(***************************************************************************)
\* Whatever the sizes of messages, buffers and records, the loop of receive_message puts
\* a block together from its own units, in order, and never beyond its size.
THEOREM BlocksAreWhole == Spec => []PayloadIsItsOwn
<1>1. FramingInvariant => PayloadIsItsOwn
  <2>. SUFFICES ASSUME FramingInvariant, reading
                PROVE  /\ applied = Len(block.payload) /\ applied \in 1 .. block.payload_size
                       /\ Begun(block.payload) # << >>
                       /\ LET first == Begun(block.payload)[1]
                              units == Payload([i \in 1 .. Len(Size) - first + 1 |-> first + i - 1])
                          IN  applied <= Len(units) /\ block.payload = SubSeq(units, 1, applied)
    BY DEF PayloadIsItsOwn
  <2>. USE DEF FramingInvariant
  <2>1. PICK a \in Cursors : ReceiverAt(a)
    BY DEF StreamIsWhole
  <2>2. Gathers(Seen, a) /\ Seen \in 0 .. Len(Size)
    BY <2>1, SeenTyped DEF ReceiverAt
  <2>3. PICK p \in 0 .. Len(Size) : p = Seen
    BY <2>2
  <2>4. PICK g \in Nat : g = Before(p)
    BY BeforeTyped
  <2>5. PICK s \in Seq(Units) : s = block.payload
    BY <2>2 DEF Gathers
  <2>6. applied = Len(s) /\ applied \in Nat \ {0} /\ Stands(s, g)
    BY <2>2, <2>3, <2>4, <2>5 DEF Gathers
  <2>7. PICK q \in 0 .. Len(Size) : /\ p < q /\ block.payload_size = Before(q) - g
                                    /\ applied <= Before(q) - g
    BY <2>2, <2>3, <2>4 DEF Gathers
  <2>8. applied \in 1 .. block.payload_size
    <3>1. Before(q) \in Nat
      BY BeforeTyped
    <3>. QED  BY <2>6, <2>7, <3>1
  <2>9. p \in 0 .. Len(Size) - 1 /\ p + 1 \in Msgs /\ Len(Size) \in p .. Len(Size)
        /\ Len(Size) \in Nat
    BY <2>7, Sizes DEF Msgs
  <2>10. PICK U \in Seq(Units) : U = Payload(From(p, Len(Size)))
    BY <2>9, BatchTyped
  <2>11. Stands(U, g) /\ Len(All) = g + Len(U)
    <3>1. Before(Len(Size)) = g + Len(U) /\ Before(Len(Size)) = Len(All)
      BY <2>4, <2>9, <2>10, BeforeNext DEF Before, All
    <3>. QED  BY <2>4, <2>9, <2>10, <3>1, BatchStands
  <2>12. Len(s) <= Len(U) /\ Len(U) \in Nat
    <3>1. g + Len(s) <= g + Len(U)
      BY <2>6, <2>11 DEF Stands
    <3>. QED  BY <2>6, <3>1
  <2>13. s = SubSeq(U, 1, Len(s))
    <3>1. 1 \in 1 .. Len(U) /\ Len(s) \in 1 .. Len(U)
      BY <2>6, <2>12
    <3>2. PICK v \in Seq(Units) : v = SubSeq(U, 1, Len(s)) /\ Len(v) = Len(s) - 1 + 1
      <4>1. SubSeq(U, 1, Len(s)) \in Seq(Units) /\ Len(SubSeq(U, 1, Len(s))) = Len(s) - 1 + 1
        BY <3>1, PartIs
      <4>. QED  BY <4>1
    <3>3. Stands(v, g + (1 - 1))
      BY <2>11, <3>1, <3>2, StandsPart
    <3>4. Len(v) = Len(s) /\ g + (1 - 1) = g
      BY <2>6, <3>2
    <3>. QED  BY <2>6, <3>2, <3>3, <3>4, StandsUnique
  <2>14. s # << >> /\ s[1] = Part(p + 1, 1)
    <3>1. s[1] = U[1]
      <4>1. 1 \in 1 .. Len(s) /\ 1 \in 1 .. Len(U)
        BY <2>6, <2>12
      <4>. QED  BY <2>6, <2>11, <4>1 DEF Stands
    <3>2. From(p, Len(Size)) = From(p, p + 1) \o From(p + 1, Len(Size))
      <4>1. p + 1 \in p .. Len(Size) /\ Len(Size) \in p + 1 .. Len(Size)
        BY <2>9
      <4>. QED  BY <4>1, FromConcat
    <3>3. From(p, p + 1) = <<p + 1>>
      BY <2>9, FromOne
    <3>4. <<p + 1>> \in Seq(Msgs) /\ From(p + 1, Len(Size)) \in Seq(Msgs)
      <4>1. p + 1 \in 0 .. Len(Size) /\ Len(Size) \in p + 1 .. Len(Size)
        BY <2>9
      <4>. QED  BY <2>9, <4>1, FromTyped
    <3>5. PICK e \in Seq(Units) : e = Encoding(p + 1) /\ Len(e) = Size[p + 1]
      BY <2>9, EncodingTyped
    <3>6. PICK f \in Seq(Units) : f = Payload(From(p + 1, Len(Size)))
      BY <3>4, PayloadTyped
    <3>7. U = e \o f
      BY <2>9, <2>10, <3>2, <3>3, <3>4, <3>5, <3>6, PayloadConcat, PayloadOfOne
    <3>8. 1 \in 1 .. Len(e) /\ e[1] = Part(p + 1, 1)
      BY <2>9, <3>5, Sizes DEF Encoding
    <3>9. U[1] = e[1]
      BY <3>7, <3>8, ConcatIs
    <3>10. s # << >>
      BY <2>6
    <3>. QED  BY <3>1, <3>8, <3>9, <3>10
  <2>15. Begun(s) # << >> /\ Begun(s)[1] = p + 1
    BY <2>9, <2>14, BegunFirst
  <2>16. [i \in 1 .. Len(Size) - (p + 1) + 1 |-> (p + 1) + i - 1] = From(p, Len(Size))
    <3>1. Len(Size) - (p + 1) + 1 = Len(Size) - p /\ \A i \in Nat : (p + 1) + i - 1 = p + i
      BY <2>9
    <3>2. \A i \in 1 .. Len(Size) - p : i \in Nat
      BY <2>9
    <3>. QED  BY <3>1, <3>2 DEF From
  <2>. QED  BY <2>5, <2>6, <2>8, <2>10, <2>12, <2>13, <2>15, <2>16
<1>. QED  BY <1>1, InvariantHolds, PTL

\* Whatever the sizes, batches and faults, the messages after the handshake arrive in
\* order, each once, and all of them unpack.
THEOREM MessagesArriveInOrder == Spec => []DeliveredInOrder
<1>1. FramingInvariant => DeliveredInOrder
  <2>. SUFFICES ASSUME FramingInvariant PROVE DeliveredInOrder
    OBVIOUS
  <2>1. mode # "error"
    BY DEF FramingInvariant, StreamTypes
  <2>2. Len(received) \in Nat /\ received = From(1, Len(received) + 1)
    BY DEF FramingInvariant, ReceivedInOrder
  <2>3. From(1, Len(received) + 1) = [i \in 1 .. Len(received) |-> i + 1]
    <3>1. (Len(received) + 1) - 1 = Len(received)
      BY <2>2
    <3>2. \A i \in 1 .. Len(received) : 1 + i = i + 1
      OBVIOUS
    <3>. QED  BY <3>1, <3>2 DEF From
  <2>. QED  BY <2>1, <2>2, <2>3 DEF DeliveredInOrder
<1>. QED  BY <1>1, InvariantHolds, PTL

\* Whatever the sizes and batches, a receiver that notices the end of a closed connection
\* has all messages of the blocks that were written whole.
THEOREM NothingIsLostByClosing == Spec => []CloseLosesNothing
<1>1. FramingInvariant => CloseLosesNothing
  BY DEF FramingInvariant, EndedIsComplete, CloseLosesNothing
<1>. QED  BY <1>1, InvariantHolds, PTL

\* Whatever the sizes, records keep theirs on their way.
THEOREM TypeCorrect == Spec => []TypeOK
<1>1. FramingInvariant => TypeOK
  <2>. SUFFICES ASSUME FramingInvariant PROVE TypeOK
    OBVIOUS
  <2>1. StreamTypes /\ ReceivedInOrder
    BY DEF FramingInvariant
  <2>2. \A ws \in Seq(WireRecords) : \A k \in DOMAIN ws : Len(ws[k]) \in 1 .. RecordUnits
    BY DEF WireRecords
  <2>3. applied \in Nat /\ block.payload_size \in Nat
    <3>1. CASE reading
      <4>1. \E a : Gathers(Seen, a)
        BY <3>1 DEF FramingInvariant, StreamIsWhole, ReceiverAt
      <4>. QED  BY <4>1 DEF Gathers
    <3>2. CASE ~reading
      <4>1. block = EmptyBlock /\ applied = 0
        BY <2>1, <3>2 DEF StreamTypes
      <4>2. EmptyBlock.payload_size = 0
        BY DEF EmptyBlock
      <4>. QED  BY <4>1, <4>2
    <3>. QED  BY <3>1, <3>2
  <2>4. received \in Seq(1 .. Len(Size))
    BY <2>1 DEF ReceivedInOrder, Msgs
  <2>. QED  BY <2>1, <2>2, <2>3, <2>4 DEF StreamTypes, TypeOK
<1>. QED  BY <1>1, InvariantHolds, PTL
=============================================================================
