------------------------------ MODULE NetProofs ------------------------------
(***************************************************************************)
(* Proofs about Net: for any hosts, servers, answers and buffer sizes, and *)
(* whatever the network loses, repeats, delays or reorders, what the calls *)
(* take from it is what they asked for.                                    *)
(***************************************************************************)
EXTENDS Net, SequenceTheorems, TLAPS

-----------------------------------------------------------------------------
(* The invariant.                                                          *)

Whole(h) == HeaderLen[h] + BodyLen[h]
Kept(t)  == t.headerLen + t.total

TcpType ==
  [active : BOOLEAN, connecting : BOOLEAN, established : BOOLEAN, failed : BOOLEAN,
   finSeen : BOOLEAN, headerDone : BOOLEAN, statusValid : BOOLEAN, truncated : BOOLEAN,
   remote : Hosts \union {None}, port : Nat, next : Int, headerLen : Nat,
   body : Seq(Nat \X Nat), total : Nat]

\* The caller's buffer has the beginning of the body.
Prefix(t) ==
  /\ Len(t.body) = Min({t.total, MaxBody})
  /\ \A i \in 1 .. Len(t.body) : t.body[i] = <<t.port, HeaderLen[t.remote] + i>>
  /\ t.truncated <=> t.total > MaxBody

\* The header did not fit; from then on nothing is kept.
Overflown(t) == t.failed /\ ~t.headerDone /\ t.headerLen = MaxHeader /\ t.total = 0

\* Bytes are kept in the order of the answer, first those of the header.
InHeader(t) ==
  /\ t.headerDone => t.headerLen = HeaderLen[t.remote]
  /\ ~t.headerDone => t.headerLen < HeaderLen[t.remote] /\ t.total = 0

\* What is acknowledged is what is kept, and the FIN once the answer is whole.
Acked(t) ==
  \/ t.next = Plus(Isn, 1 + Kept(t))
  \/ t.finSeen /\ Kept(t) = Whole(t.remote) /\ t.next = Plus(Isn, 2 + Kept(t))

Exact(t) == InHeader(t) /\ Kept(t) <= Whole(t.remote) /\ Acked(t)

\* A connection, also one that a reset has failed and that still gets data.
TcpOK(t) ==
  /\ t \in TcpType
  /\ Prefix(t)
  /\ t.active => t.remote \in Hosts
  /\ t.established => t.remote \in Hosts /\ ~t.connecting /\ (Overflown(t) \/ Exact(t))
  /\ ~t.established => t.headerLen = 0 /\ t.total = 0 /\ ~t.headerDone

CallType ==
  [name : Calls \union {None},
   pc : {"idle", "offer", "ack", "send", "arp", "open", "pong", "answer", "connect", "body"},
   then : {None, "pong", "answer", "connect", "body"}, host : Hosts \union {None},
   retries : Int, ok : BOOLEAN]

NetTypes ==
  /\ clock \in Nat /\ cfg.configured \in BOOLEAN
  /\ call \in CallType
  /\ ping \in [waiting : BOOLEAN, got : BOOLEAN, seq : Nat, answer : Hosts \union {None}]
  /\ dns \in [waiting : BOOLEAN, got : BOOLEAN, xid : Nat, result : Hosts \union {None}]

\* What a call has made sure of when it is at a place.
CallOK ==
  /\ call.pc \in {"send", "arp"} => call.then # None
  /\ call.then = "pong" => call.name = "ping" /\ cfg.ip # NoLease
  /\ call.pc = "answer" \/ call.then = "answer" => call.name \in {"dns", "http"} /\ dns.xid = clock
  /\ call.pc = "open" => call.name \in {"dns", "http"}
  /\ call.name \in {"dns", "http"} => call.host \in Hosts

\* Of all echo requests ever sent, those with the number of the last ping went to
\* its host; there are none before there is an address, which is never given up.
PingOK ==
  /\ cfg.ip = NoLease => ~ping.got /\ ~ping.waiting
  /\ \A m \in sent : m.kind = "echo" =>
       /\ cfg.ip # NoLease /\ m.id \in 0 .. ping.seq /\ m.host \in Hosts \union {None}
       /\ call.name = "ping" /\ m.id = ping.seq => m.host = call.host
  /\ call.name = "ping" /\ ping.got => ping.answer = call.host
  /\ \A m \in sent : m.kind = "request" => m.server # 0

\* Of all queries ever sent, those of this call asked for its host.
DnsOK ==
  /\ dns.xid <= clock
  /\ \A m \in sent : m.kind = "query" =>
       /\ m.id \in 0 .. clock /\ m.host \in Hosts \union {None}
       /\ call.name \in {"dns", "http"} /\ m.id = clock => m.host = call.host
  /\ call.name \in {"dns", "http"} /\ dns.got /\ dns.xid = clock => dns.result = call.host

NetInv == NetTypes /\ TcpOK(tcp) /\ CallOK /\ PingOK /\ DnsOK

-----------------------------------------------------------------------------
(* Arithmetic of sequence numbers.                                         *)

LEMMA MinOfTwo ==
  ASSUME NEW a \in Int, NEW b \in Int
  PROVE  Min({a, b}) = IF a <= b THEN a ELSE b
<1>1. \E x \in {a, b} : \A y \in {a, b} : x <= y
  OBVIOUS
<1>2. Min({a, b}) \in {a, b} /\ \A y \in {a, b} : Min({a, b}) <= y
  BY <1>1 DEF Min
<1> QED
  BY <1>2

LEMMA MinOfOne == ASSUME NEW a \in Int PROVE Min({a}) = a
<1>1. \E x \in {a} : \A y \in {a} : x <= y
  OBVIOUS
<1> QED
  BY <1>1 DEF Min

LEMMA Wrap ==
  ASSUME NEW x \in 0 .. SeqMod + SeqMod - 1
  PROVE  x % SeqMod = (IF x < SeqMod THEN x ELSE x - SeqMod) /\ x % SeqMod \in 0 .. SeqMod - 1
  BY NetAssumption

LEMMA PlusIs ==
  ASSUME NEW x \in 0 .. SeqMod - 1
  PROVE  /\ Plus(Isn, x) = IF Isn + x < SeqMod THEN Isn + x ELSE (Isn + x) - SeqMod
         /\ Plus(Isn, x) \in 0 .. SeqMod - 1
<1> DEFINE y == Isn + x
<1>1. y \in 0 .. SeqMod + SeqMod - 1
  BY NetAssumption
<1>2. y % SeqMod = (IF y < SeqMod THEN y ELSE y - SeqMod) /\ y % SeqMod \in 0 .. SeqMod - 1
  BY <1>1, Wrap
<1> QED
  BY <1>2 DEF Plus

\* Sequence numbers of one answer are different.
LEMMA PlusInjective ==
  ASSUME NEW x \in 0 .. SeqMod - 1, NEW y \in 0 .. SeqMod - 1, Plus(Isn, x) = Plus(Isn, y)
  PROVE  x = y
<1>1. Isn \in 0 .. SeqMod - 1 /\ SeqMod \in Nat
  BY NetAssumption
<1> QED
  BY <1>1, PlusIs

LEMMA PlusPlus ==
  ASSUME NEW x \in Nat, NEW n \in Nat, x + n < SeqMod
  PROVE  Plus(Plus(Isn, x), n) = Plus(Isn, x + n)
<1>1. Isn \in 0 .. SeqMod - 1 /\ SeqMod \in Nat /\ x \in 0 .. SeqMod - 1 /\ x + n \in 0 .. SeqMod - 1
  BY NetAssumption
<1> DEFINE p == Plus(Isn, x)
           z == x + n
           y == p + n
<1>2. p = (IF Isn + x < SeqMod THEN Isn + x ELSE (Isn + x) - SeqMod) /\ p \in 0 .. SeqMod - 1
  BY <1>1, PlusIs
<1>3. Plus(Isn, z) = IF Isn + z < SeqMod THEN Isn + z ELSE (Isn + z) - SeqMod
  BY <1>1, PlusIs
<1> HIDE DEF p
<1>4. y \in 0 .. SeqMod + SeqMod - 1
  BY <1>1, <1>2
<1>5. y % SeqMod = IF y < SeqMod THEN y ELSE y - SeqMod
  BY <1>4, Wrap
<1>6. y % SeqMod = Plus(Isn, z)
  BY <1>1, <1>2, <1>3, <1>5
<1> QED
  BY <1>6 DEF p, Plus

-----------------------------------------------------------------------------
(* The data of a segment.                                                  *)

LEMMA AnswerSizes ==
  ASSUME NEW h \in Hosts
  PROVE  /\ HeaderLen[h] \in Nat \ {0} /\ BodyLen[h] \in Nat /\ Whole(h) \in Nat
         /\ Whole(h) + 3 < SeqMod /\ {MaxBody, MaxHeader, SeqMod} \subseteq Nat
  BY NetAssumption DEF Whole

LEMMA Beginning ==
  ASSUME NEW S, NEW s \in Seq(S), NEW m \in 0 .. Len(s)
  PROVE  /\ SubSeq(s, 1, m) \in Seq(S) /\ Len(SubSeq(s, 1, m)) = m
         /\ \A k \in 1 .. m : SubSeq(s, 1, m)[k] = s[k]
<1>1. Len(s) \in Nat /\ m \in Int /\ 1 \in Int
  OBVIOUS
<1>2. \A k \in 1 .. m : s[k] \in S
  BY <1>1
<1>3. /\ SubSeq(s, 1, m) \in Seq(S)
      /\ Len(SubSeq(s, 1, m)) = IF 1 <= m THEN m - 1 + 1 ELSE 0
      /\ \A k \in 1 .. m - 1 + 1 : SubSeq(s, 1, m)[k] = s[1 + k - 1]
  BY <1>1, <1>2, SubSeqProperties
<1>4. m - 1 + 1 = m /\ \A k \in 1 .. m : 1 + k - 1 = k
  BY <1>1
<1> QED
  BY <1>1, <1>3, <1>4

LEMMA Ending ==
  ASSUME NEW S, NEW s \in Seq(S), NEW m \in 0 .. Len(s)
  PROVE  /\ SubSeq(s, m + 1, Len(s)) \in Seq(S) /\ Len(SubSeq(s, m + 1, Len(s))) = Len(s) - m
         /\ \A k \in 1 .. Len(s) - m : SubSeq(s, m + 1, Len(s))[k] = s[m + k]
<1> DEFINE n == Len(s)
           f == m + 1
<1>1. n \in Nat /\ m \in Int /\ f \in Int /\ f = m + 1 /\ m <= n /\ 0 <= m
  OBVIOUS
<1>2. \A k \in f .. n : s[k] \in S
  BY <1>1
<1> HIDE DEF n, f
<1>3. /\ SubSeq(s, f, n) \in Seq(S)
      /\ Len(SubSeq(s, f, n)) = IF f <= n THEN n - f + 1 ELSE 0
      /\ \A k \in 1 .. n - f + 1 : SubSeq(s, f, n)[k] = s[f + k - 1]
  BY <1>1, <1>2, SubSeqProperties
<1>4. n - f + 1 = n - m /\ \A k \in 1 .. n - m : f + k - 1 = m + k
  BY <1>1
<1>5. (IF f <= n THEN n - f + 1 ELSE 0) = n - m
  BY <1>1
<1>6. /\ SubSeq(s, f, n) \in Seq(S) /\ Len(SubSeq(s, f, n)) = n - m
      /\ \A k \in 1 .. n - m : SubSeq(s, f, n)[k] = s[m + k]
  BY <1>3, <1>4, <1>5
<1> QED
  BY <1>6 DEF n, f

\* tcp_http_feed_data leaves the rest of the connection alone.
SameConnection(t, u) ==
  /\ u.active = t.active /\ u.connecting = t.connecting /\ u.established = t.established
  /\ u.finSeen = t.finSeen /\ u.remote = t.remote /\ u.port = t.port /\ u.next = t.next

\* tcp_http_append_body keeps the beginning of the body, however much room is left.
LEMMA AppendBodyKeeps ==
  ASSUME NEW t \in TcpType, Prefix(t), t.remote \in Hosts, NEW units \in Seq(Nat \X Nat),
         \A k \in 1 .. Len(units) : units[k] = <<t.port, HeaderLen[t.remote] + (t.total + k)>>,
         NEW u, u = AppendBody(t, units)
  PROVE  /\ u \in TcpType /\ Prefix(u) /\ SameConnection(t, u)
         /\ u.total = t.total + Len(units)
         /\ u.headerDone = t.headerDone /\ u.headerLen = t.headerLen
<1> DEFINE room == MaxBody - Len(t.body)
           n    == Len(units)
           m    == Min({room, n})
           new  == SubSeq(units, 1, m)
           body == t.body \o new
<1>1. /\ t.body \in Seq(Nat \X Nat) /\ t.total \in Nat /\ Len(t.body) \in Nat /\ n \in Nat
      /\ MaxBody \in Nat
  BY AnswerSizes DEF TcpType
<1>2. Len(t.body) = IF t.total <= MaxBody THEN t.total ELSE MaxBody
  BY <1>1, MinOfTwo DEF Prefix
<1>3. room \in Nat
  BY <1>1, <1>2
<1>4. m = (IF room <= n THEN room ELSE n) /\ m \in 0 .. n
  <2> HIDE DEF room, n
  <2> QED
    BY <1>1, <1>3, MinOfTwo
<1>5. new \in Seq(Nat \X Nat) /\ Len(new) = m /\ \A k \in 1 .. m : new[k] = units[k]
  <2> HIDE DEF m
  <2> QED
    BY <1>4, Beginning, Zenon
<1>6. /\ body \in Seq(Nat \X Nat) /\ Len(body) = Len(t.body) + m
      /\ \A i \in 1 .. Len(t.body) + m :
           body[i] = IF i <= Len(t.body) THEN t.body[i] ELSE new[i - Len(t.body)]
  <2> HIDE DEF m, new
  <2>1. t.body \in Seq(Nat \X Nat) /\ new \in Seq(Nat \X Nat)
    BY <1>1, <1>5
  <2>2. /\ body \in Seq(Nat \X Nat) /\ Len(body) = Len(t.body) + Len(new)
        /\ \A i \in 1 .. Len(t.body) + Len(new) :
             body[i] = IF i <= Len(t.body) THEN t.body[i] ELSE new[i - Len(t.body)]
    BY <2>1, ConcatProperties, Zenon
  <2> QED
    BY <1>5, <2>2
<1>7. u = [t EXCEPT !.total = t.total + n, !.body = body,
                    !.truncated = t.truncated \/ n > room]
  BY DEF AppendBody
<1>8. (t.truncated \/ n > room) \in BOOLEAN /\ t.total + n \in Nat
  BY <1>1
<1> HIDE DEF body
<1>9. /\ u \in TcpType
      /\ u.total = t.total + n /\ u.body = body /\ (u.truncated <=> t.truncated \/ n > room)
      /\ u.headerDone = t.headerDone /\ u.headerLen = t.headerLen
      /\ SameConnection(t, u) /\ u.remote = t.remote /\ u.port = t.port
  BY <1>6, <1>7, <1>8 DEF TcpType, SameConnection
<1> DEFINE b0 == Len(t.body)
           t0 == t.total
           t1 == u.total
<1>10. /\ b0 \in Nat /\ t0 \in Nat /\ t1 \in Nat /\ t1 = t0 + n /\ room = MaxBody - b0
       /\ b0 = IF t0 <= MaxBody THEN t0 ELSE MaxBody
       /\ Len(u.body) = b0 + m
  BY <1>1, <1>2, <1>6, <1>8, <1>9
<1> HIDE DEF b0, t0, t1, m, n, room, new
<1>11. Len(u.body) = Min({t1, MaxBody})
  <2>1. t1 \in Int /\ MaxBody \in Int
    BY <1>1, <1>10
  <2>2. Min({t1, MaxBody}) = IF t1 <= MaxBody THEN t1 ELSE MaxBody
    BY <2>1, MinOfTwo
  <2> QED
    <3>1. CASE t0 <= MaxBody
      <4>1. b0 = t0 /\ room = MaxBody - t0
        BY <1>10, <3>1
      <4>2. b0 + m = IF t0 + n <= MaxBody THEN t0 + n ELSE MaxBody
        BY <1>1, <1>4, <1>10, <4>1
      <4> QED
        BY <1>10, <2>2, <4>2
    <3>2. CASE ~(t0 <= MaxBody)
      <4>1. b0 = MaxBody /\ room = 0 /\ t1 > MaxBody
        BY <1>1, <1>10, <3>2
      <4>2. m = 0
        BY <1>1, <1>4, <4>1
      <4> QED
        BY <1>10, <2>1, <2>2, <4>1, <4>2
    <3> QED
      BY <3>1, <3>2
<1>12. u.truncated <=> t1 > MaxBody
  <2>1. t.truncated <=> t0 > MaxBody
    BY DEF Prefix, t0
  <2>2. t1 > MaxBody <=> (t0 > MaxBody \/ n > room)
    BY <1>1, <1>10
  <2> QED
    BY <1>9, <2>1, <2>2
<1>13. ASSUME NEW i \in 1 .. Len(u.body)
       PROVE  u.body[i] = <<u.port, HeaderLen[u.remote] + i>>
  <2>1. u.body[i] = IF i <= b0 THEN t.body[i] ELSE new[i - b0]
    BY <1>6, <1>9, <1>10, <1>13 DEF b0
  <2>2. CASE i <= b0
    <3>1. i \in 1 .. Len(t.body)
      BY <1>10, <1>13, <2>2 DEF b0
    <3> QED
      BY <1>9, <2>1, <2>2, <3>1 DEF Prefix
  <2>3. CASE ~(i <= b0)
    <3> DEFINE k == i - b0
    <3>1. k \in 1 .. m /\ k \in 1 .. n /\ t0 + k = i
      BY <1>1, <1>4, <1>10, <1>13, <2>3
    <3>2. u.body[i] = units[k]
      BY <1>5, <2>1, <2>3, <3>1
    <3>3. units[k] = <<t.port, HeaderLen[t.remote] + (t0 + k)>>
      BY <3>1 DEF n, t0
    <3> QED
      BY <1>9, <3>1, <3>2, <3>3
  <2> QED
    BY <2>2, <2>3
<1>14. Prefix(u)
  BY <1>11, <1>12, <1>13 DEF Prefix, t1
<1> QED
  BY <1>9, <1>14 DEF n

\* Where the header ends in the bytes after position i.
LEMMA HeaderEnd ==
  ASSUME NEW n \in Nat, NEW i \in Nat, NEW p, NEW units, Len(units) = n,
         \A k \in 1 .. n : units[k] = <<p, i + k>>, NEW length \in Nat,
         NEW end, end = {x \in 1 .. Len(units) : units[x][2] = length}
  PROVE  end = IF i < length /\ length <= i + n THEN {length - i} ELSE {}
<1>1. \A x \in 1 .. n : units[x][2] = i + x
  OBVIOUS
<1>2. {x \in 1 .. Len(units) : units[x][2] = length} = {x \in 1 .. n : i + x = length}
  BY <1>1
<1>3. {x \in 1 .. n : i + x = length} = IF i < length /\ length <= i + n THEN {length - i} ELSE {}
  OBVIOUS
<1> QED
  BY <1>2, <1>3

\* The buffer is as good as it was when it and the sizes stay.
LEMMA SamePrefix ==
  ASSUME NEW t, NEW u, Prefix(t), u.body = t.body, u.total = t.total, u.truncated = t.truncated,
         u.port = t.port, u.remote = t.remote
  PROVE  Prefix(u)
  BY DEF Prefix

\* Bytes that follow what is kept are kept, or the header buffer overflows.
LEMMA FeedDataKeeps ==
  ASSUME NEW t \in TcpType, Prefix(t), t.remote \in Hosts, InHeader(t),
         NEW n \in Nat \ {0}, Kept(t) + n <= Whole(t.remote),
         NEW units \in Seq(Nat \X Nat), Len(units) = n,
         \A k \in 1 .. n : units[k] = <<t.port, Kept(t) + k>>,
         NEW u, u = FeedData(t, units)
  PROVE  /\ u \in TcpType /\ Prefix(u) /\ SameConnection(t, u)
         /\ Overflown(u) \/ (InHeader(u) /\ Kept(u) = Kept(t) + n)
<1> DEFINE i    == Kept(t)
           h    == HeaderLen[t.remote]
           end  == {x \in 1 .. Len(units) : units[x][2] = h}
           used == IF end = {} THEN n ELSE Min(end)
<1>1. /\ h \in Nat \ {0} /\ MaxHeader \in Nat /\ t.headerLen \in Nat /\ t.total \in Nat
      /\ i = t.headerLen + t.total /\ i \in Nat
  BY AnswerSizes DEF TcpType, Kept
<1>2. end = IF i < h /\ h <= i + n THEN {h - i} ELSE {}
  <2>1. Len(units) = n /\ \A k \in 1 .. n : units[k] = <<t.port, i + k>>
    OBVIOUS
  <2>2. n \in Nat /\ i \in Nat /\ h \in Nat
    BY <1>1
  <2>3. end = {x \in 1 .. Len(units) : units[x][2] = h}
    OBVIOUS
  <2> HIDE DEF i, h, end
  <2> QED
    BY <2>1, <2>2, <2>3, HeaderEnd
<1>3. CASE t.headerDone
  <2>1. u = AppendBody(t, units)
    BY <1>3 DEF FeedData
  <2>2. \A k \in 1 .. Len(units) : units[k] = <<t.port, HeaderLen[t.remote] + (t.total + k)>>
    <3> SUFFICES ASSUME NEW k \in 1 .. n
                 PROVE  units[k] = <<t.port, HeaderLen[t.remote] + (t.total + k)>>
      OBVIOUS
    <3>1. units[k] = <<t.port, i + k>>
      OBVIOUS
    <3>2. i + k = h + (t.total + k)
      BY <1>1, <1>3 DEF InHeader
    <3> QED
      BY <3>1, <3>2
  <2>3. /\ u \in TcpType /\ Prefix(u) /\ SameConnection(t, u)
        /\ u.total = t.total + Len(units)
        /\ u.headerDone = t.headerDone /\ u.headerLen = t.headerLen
    <3>1. t \in TcpType /\ Prefix(t) /\ t.remote \in Hosts /\ units \in Seq(Nat \X Nat)
      OBVIOUS
    <3> HIDE DEF i, h, end, used
    <3> QED
      BY <2>1, <2>2, <3>1, AppendBodyKeeps, SMTT(60)
  <2>4. InHeader(u) /\ Kept(u) = Kept(t) + n
    BY <1>1, <1>3, <2>3 DEF InHeader, Kept, SameConnection
  <2> QED
    BY <2>3, <2>4
<1>4. CASE ~t.headerDone
  <2>1. t.headerLen = i /\ t.total = 0 /\ i < h
    BY <1>1, <1>4 DEF InHeader
  <2>2. end = (IF h <= i + n THEN {h - i} ELSE {}) /\ used = IF h <= i + n THEN h - i ELSE n
    <3>1. end = IF h <= i + n THEN {h - i} ELSE {}
      BY <1>2, <2>1
    <3>2. Min({h - i}) = h - i
      <4>1. h - i \in Int
        BY <1>1
      <4> HIDE DEF i, h
      <4> QED
        BY <4>1, MinOfOne, Zenon
    <3> HIDE DEF end, h, i
    <3> QED
      BY <3>1, <3>2
  <2>3. CASE t.headerLen + used > MaxHeader
    <3>1. u = [t EXCEPT !.headerLen = MaxHeader, !.failed = TRUE]
      BY <1>4, <2>3 DEF FeedData
    <3>2. /\ u \in TcpType /\ u.failed = TRUE /\ u.headerLen = MaxHeader
          /\ u.headerDone = t.headerDone /\ u.total = t.total /\ u.body = t.body
          /\ u.truncated = t.truncated /\ SameConnection(t, u)
      BY <1>1, <3>1 DEF TcpType, SameConnection
    <3>3. Overflown(u)
      BY <1>4, <2>1, <3>2 DEF Overflown
    <3>4. Prefix(u)
      BY <3>2, SamePrefix DEF SameConnection
    <3> QED
      BY <3>2, <3>3, <3>4
  <2>4. CASE ~(t.headerLen + used > MaxHeader) /\ h > i + n
    <3>1. u = [t EXCEPT !.headerLen = t.headerLen + n]
      <4>1. end = {} /\ used = n
        BY <1>1, <2>2, <2>4
      <4> QED
        BY <1>4, <2>4, <4>1 DEF FeedData
    <3>2. /\ u \in TcpType /\ u.headerLen = i + n
          /\ u.headerDone = t.headerDone /\ u.total = t.total /\ u.body = t.body
          /\ u.truncated = t.truncated /\ SameConnection(t, u)
      <4>1. t.headerLen + n \in Nat
        BY <1>1
      <4> QED
        BY <2>1, <3>1, <4>1 DEF TcpType, SameConnection
    <3>3. InHeader(u) /\ Kept(u) = i + n
      BY <1>1, <1>4, <2>1, <2>4, <3>2 DEF InHeader, Kept, SameConnection
    <3>4. Prefix(u)
      BY <3>2, SamePrefix DEF SameConnection
    <3> QED
      BY <3>2, <3>3, <3>4
  <2>5. CASE ~(t.headerLen + used > MaxHeader) /\ h <= i + n
    <3> DEFINE t1   == [t EXCEPT !.headerLen = t.headerLen + used, !.headerDone = TRUE,
                                 !.statusValid = t.remote \notin BadStatus]
               rest == SubSeq(units, used + 1, Len(units))
    <3>1. end # {} /\ used = h - i /\ used \in 1 .. n
      BY <1>1, <2>1, <2>2, <2>5
    <3>2. u = AppendBody(t1, rest)
      BY <1>4, <2>5, <3>1 DEF FeedData
    <3> HIDE DEF end, used
    <3>3. /\ t1 \in TcpType /\ t1.headerLen = h /\ t1.headerDone = TRUE
          /\ t1.total = 0 /\ t1.body = t.body /\ t1.truncated = t.truncated /\ SameConnection(t, t1)
      <4> HIDE DEF i, h
      <4>1. t.headerLen + used = h
        BY <1>1, <2>1, <3>1
      <4>2. t.headerLen + used \in Nat
        BY <1>1, <4>1
      <4>3. /\ t1 \in TcpType /\ t1.headerLen = t.headerLen + used /\ t1.headerDone = TRUE
            /\ t1.total = t.total /\ t1.body = t.body /\ t1.truncated = t.truncated
        <5>1. (t.remote \notin BadStatus) \in BOOLEAN
          OBVIOUS
        <5> QED
          BY <4>1, <4>2, <5>1 DEF TcpType
      <4>4. SameConnection(t, t1)
        BY DEF TcpType, SameConnection
      <4> QED
        BY <2>1, <4>1, <4>3, <4>4
    <3>4. /\ rest \in Seq(Nat \X Nat) /\ Len(rest) = Len(units) - used
          /\ \A k \in 1 .. Len(units) - used : rest[k] = units[used + k]
      <4>1. used \in 0 .. Len(units)
        BY <3>1
      <4> QED
        BY <4>1, Ending, Zenon
    <3>5. \A k \in 1 .. Len(rest) : rest[k] = <<t1.port, HeaderLen[t1.remote] + (t1.total + k)>>
      <4> SUFFICES ASSUME NEW k \in 1 .. Len(rest)
                   PROVE  rest[k] = <<t1.port, HeaderLen[t1.remote] + (t1.total + k)>>
        OBVIOUS
      <4> HIDE DEF t1, rest
      <4>1. k \in 1 .. n - used
        BY <3>4
      <4>2. rest[k] = units[used + k] /\ used + k \in 1 .. n
        <5>1. k \in 1 .. Len(units) - used
          BY <4>1
        <5>2. rest[k] = units[used + k]
          BY <3>4, <5>1, Zenon
        <5>3. used \in 1 .. n
          BY <3>1, Zenon
        <5>4. used + k \in 1 .. n
          BY <4>1, <5>3
        <5> QED
          BY <5>2, <5>4
      <4>3. units[used + k] = <<t.port, i + (used + k)>>
        BY <4>2
      <4>4. i + (used + k) = h + (0 + k)
        <5> HIDE DEF i, h
        <5> QED
          BY <1>1, <3>1, <4>1
      <4> QED
        BY <3>3, <4>2, <4>3, <4>4 DEF SameConnection
    <3> HIDE DEF t1, rest
    <3>6. Prefix(t1) /\ t1.remote \in Hosts
      <4>1. /\ t1.body = t.body /\ t1.total = t.total /\ t1.truncated = t.truncated
            /\ t1.port = t.port /\ t1.remote = t.remote
        BY <2>1, <3>3 DEF SameConnection
      <4> QED
        BY <4>1, SamePrefix, Zenon
    <3>7. /\ u \in TcpType /\ Prefix(u) /\ SameConnection(t1, u)
          /\ u.total = t1.total + Len(rest)
          /\ u.headerDone = t1.headerDone /\ u.headerLen = t1.headerLen
      BY <3>2, <3>3, <3>4, <3>5, <3>6, AppendBodyKeeps, Zenon
    <3>8. SameConnection(t, u)
      BY <3>3, <3>7 DEF SameConnection
    <3>9. InHeader(u)
      BY <3>3, <3>7, <3>8 DEF InHeader, SameConnection
    <3>10. Kept(u) = i + n
      <4>1. Kept(u) = h + (n - used)
        BY <1>1, <3>1, <3>3, <3>4, <3>7 DEF Kept
      <4> HIDE DEF i, h
      <4> QED
        BY <1>1, <3>1, <4>1
    <3> QED
      BY <3>7, <3>8, <3>9, <3>10
  <2> QED
    BY <1>1, <2>3, <2>4, <2>5
<1> QED
  BY <1>3, <1>4

\* Once the header buffer has overflowed, no byte is kept.
LEMMA OverflownStays ==
  ASSUME NEW t \in TcpType, Prefix(t), t.remote \in Hosts, Overflown(t),
         NEW n \in Nat \ {0}, NEW i \in Nat, NEW units, Len(units) = n,
         \A k \in 1 .. n : units[k] = <<t.port, i + k>>,
         NEW u, u = FeedData(t, units)
  PROVE  u \in TcpType /\ Prefix(u) /\ SameConnection(t, u) /\ Overflown(u)
<1> DEFINE h    == HeaderLen[t.remote]
           end  == {x \in 1 .. Len(units) : units[x][2] = h}
           used == IF end = {} THEN Len(units) ELSE Min(end)
<1>1. h \in Nat \ {0} /\ MaxHeader \in Nat
  BY AnswerSizes
<1>2. end = IF i < h /\ h <= i + n THEN {h - i} ELSE {}
  <2> HIDE DEF h
  <2> QED
    BY <1>1, HeaderEnd
<1>3. used \in Nat \ {0}
  <2>1. CASE i < h /\ h <= i + n
    <3>1. h - i \in Nat \ {0} /\ h - i \in Int
      BY <1>1, <2>1
    <3>2. Min({h - i}) = h - i
      BY <3>1, MinOfOne
    <3> QED
      BY <1>2, <2>1, <3>1, <3>2
  <2>2. CASE ~(i < h /\ h <= i + n)
    BY <1>2, <2>2
  <2> QED
    BY <2>1, <2>2
<1>4. t.headerLen + used > MaxHeader
  <2> HIDE DEF used
  <2> QED
    BY <1>1, <1>3 DEF Overflown
<1>5. u = [t EXCEPT !.headerLen = MaxHeader, !.failed = TRUE]
  BY <1>4 DEF FeedData, Overflown
<1> HIDE DEF h, end, used
<1>6. /\ u \in TcpType /\ SameConnection(t, u) /\ u.failed = TRUE /\ u.headerDone = t.headerDone
      /\ u.headerLen = MaxHeader /\ u.total = t.total /\ u.body = t.body /\ u.truncated = t.truncated
  BY <1>1, <1>5 DEF TcpType, SameConnection
<1> QED
  BY <1>6 DEF Overflown, Prefix, SameConnection

\* handle_tcp with any piece of the answer, in or out of order, with or without
\* the FIN.
LEMMA SegmentKeeps ==
  ASSUME NEW t, TcpOK(t), t.established, NEW i \in 0 .. Whole(t.remote),
         NEW j \in 0 .. Whole(t.remote), i <= j, NEW fin \in BOOLEAN, fin => j = Whole(t.remote),
         NEW units, units = [k \in 1 .. j - i |-> <<t.port, i + k>>],
         NEW u, u = Segment(t, Plus(Isn, 1 + i), units, fin)
  PROVE  TcpOK(u)
<1> DEFINE N    == Whole(t.remote)
           seq  == Plus(Isn, 1 + i)
           n    == j - i
           t1   == [t EXCEPT !.next = Plus(seq, Len(units))]
           data == IF units # <<>> /\ seq = t.next THEN FeedData(t1, units) ELSE t
<1>1. /\ t \in TcpType /\ Prefix(t) /\ t.remote \in Hosts /\ ~t.connecting
      /\ Overflown(t) \/ Exact(t)
  BY DEF TcpOK
<1>2. N \in Nat /\ N + 3 < SeqMod /\ n \in Nat /\ i + n = j /\ SeqMod \in Nat /\ i \in Nat /\ j \in Nat
  BY <1>1, AnswerSizes
<1>3. Len(units) = n /\ units \in Seq(Nat \X Nat) /\ \A k \in 1 .. n : units[k] = <<t.port, i + k>>
  <2>1. t.port \in Nat
    BY <1>1 DEF TcpType
  <2> QED
    BY <1>2, <2>1
<1>4. Plus(seq, n) = Plus(Isn, 1 + j)
  <2>1. Plus(seq, n) = Plus(Isn, (1 + i) + n)
    BY <1>2, PlusPlus
  <2>2. (1 + i) + n = 1 + j
    BY <1>2
  <2> QED
    BY <2>1, <2>2
<1>5. t1 \in TcpType /\ t1.next = Plus(Isn, 1 + j) /\ t1.total = t.total
      /\ t1.headerLen = t.headerLen /\ t1.headerDone = t.headerDone /\ t1.failed = t.failed
      /\ t1.body = t.body /\ t1.truncated = t.truncated /\ t1.remote = t.remote
      /\ t1.port = t.port /\ t1.active = t.active /\ t1.connecting = t.connecting
      /\ t1.established = t.established /\ t1.finSeen = t.finSeen
  <2>1. Plus(Isn, 1 + j) \in Int
    BY <1>2, PlusIs
  <2> QED
    BY <1>1, <1>3, <1>4, <2>1 DEF TcpType
<1> HIDE DEF t1
<1>6. /\ data \in TcpType /\ Prefix(data) /\ data.remote = t.remote /\ data.port = t.port
      /\ data.established = t.established /\ data.active = t.active
      /\ data.connecting = t.connecting /\ data.finSeen = t.finSeen
      /\ Overflown(data) \/ Exact(data)
  <2>1. CASE ~(units # <<>> /\ seq = t.next)
    BY <1>1, <2>1
  <2>2. CASE units # <<>> /\ seq = t.next
    <3>1. data = FeedData(t1, units) /\ n \in Nat \ {0}
      BY <1>2, <1>3, <2>2
    <3>2. Prefix(t1) /\ t1.remote \in Hosts
      BY <1>1, <1>5 DEF Prefix
    <3> HIDE DEF data, n, seq
    <3>3. CASE Overflown(t)
      <4>1. Overflown(t1)
        BY <1>5, <3>3 DEF Overflown
      <4>2. data \in TcpType /\ Prefix(data) /\ SameConnection(t1, data) /\ Overflown(data)
        <5>1. \A k \in 1 .. n : units[k] = <<t1.port, i + k>>
          BY <1>3, <1>5
        <5>2. i \in Nat /\ Len(units) = n /\ t1 \in TcpType
          BY <1>2, <1>3, <1>5
        <5> QED
          BY <3>1, <3>2, <4>1, <5>1, <5>2, OverflownStays
      <4> QED
        BY <1>5, <4>2 DEF SameConnection
    <3>4. CASE Exact(t)
      <4>1. i = Kept(t)
        <5>1. Kept(t) \in Nat /\ Kept(t) <= N
          BY <1>1, <3>4 DEF Exact, Kept, TcpType
        <5>2. CASE t.next = Plus(Isn, 1 + Kept(t))
          <6>1. 1 + i \in 0 .. SeqMod - 1 /\ 1 + Kept(t) \in 0 .. SeqMod - 1
            BY <1>2, <5>1
          <6>2. Plus(Isn, 1 + i) = Plus(Isn, 1 + Kept(t))
            BY <2>2, <5>2 DEF seq
          <6>3. 1 + i = 1 + Kept(t)
            BY <6>1, <6>2, PlusInjective
          <6> QED
            BY <1>2, <5>1, <6>3
        <5>3. CASE Kept(t) = N /\ t.next = Plus(Isn, 2 + Kept(t))
          <6>1. 1 + i \in 0 .. SeqMod - 1 /\ 2 + Kept(t) \in 0 .. SeqMod - 1
            BY <1>2, <5>1
          <6>2. Plus(Isn, 1 + i) = Plus(Isn, 2 + Kept(t))
            BY <2>2, <5>3 DEF seq
          <6>3. 1 + i = 2 + Kept(t)
            BY <6>1, <6>2, PlusInjective
          <6>4. i <= N
            BY <1>2
          <6> QED
            BY <1>2, <5>1, <5>3, <6>3, <6>4
        <5> QED
          BY <3>4, <5>2, <5>3 DEF Exact, Acked
      <4>2. Kept(t1) = i /\ InHeader(t1)
        BY <1>5, <3>4, <4>1 DEF Kept, Exact, InHeader
      <4>3. Kept(t1) + n <= Whole(t1.remote)
        BY <1>2, <1>5, <4>2
      <4>4. \A k \in 1 .. n : units[k] = <<t1.port, Kept(t1) + k>>
        BY <1>3, <1>5, <4>2
      <4>5. /\ data \in TcpType /\ Prefix(data) /\ SameConnection(t1, data)
            /\ Overflown(data) \/ (InHeader(data) /\ Kept(data) = Kept(t1) + n)
        BY <1>3, <1>5, <3>1, <3>2, <4>2, <4>3, <4>4, FeedDataKeeps
      <4>6. CASE Overflown(data)
        BY <1>5, <4>5, <4>6 DEF SameConnection
      <4>7. CASE InHeader(data) /\ Kept(data) = Kept(t1) + n
        <5>1. Kept(data) = j
          BY <1>2, <4>2, <4>7
        <5>2. data.next = Plus(Isn, 1 + j) /\ data.remote = t.remote
          BY <1>5, <4>5 DEF SameConnection
        <5>3. Exact(data)
          BY <1>2, <4>7, <5>1, <5>2 DEF Exact, Acked
        <5> QED
          BY <1>5, <4>5, <5>3 DEF SameConnection
      <4> QED
        BY <4>5, <4>6, <4>7
    <3> QED
      BY <1>1, <3>3, <3>4
  <2> QED
    BY <2>1, <2>2
<1>7. u = IF ~fin THEN data
          ELSE [data EXCEPT !.finSeen = TRUE,
                  !.next = IF Plus(seq, Len(units)) = data.next THEN Plus(data.next, 1) ELSE data.next]
  BY DEF Segment, t1
<1> HIDE DEF data
<1>8. CASE ~fin
  BY <1>1, <1>6, <1>7, <1>8 DEF TcpOK
<1>9. CASE fin
  <2> DEFINE next == IF Plus(Isn, 1 + j) = data.next THEN Plus(data.next, 1) ELSE data.next
  <2>1. u = [data EXCEPT !.finSeen = TRUE, !.next = next] /\ j = N
    BY <1>3, <1>4, <1>7, <1>9
  <2>2. next \in Int
    <3>1. data.next \in Int
      BY <1>6 DEF TcpType
    <3>2. Plus(data.next, 1) \in Int
      BY <1>2, <3>1 DEF Plus
    <3> QED
      BY <3>1, <3>2
  <2> HIDE DEF next
  <2>3. /\ u \in TcpType /\ u.next = next /\ u.finSeen = TRUE /\ u.remote = t.remote
        /\ u.established = t.established /\ u.active = t.active /\ u.connecting = t.connecting
        /\ u.port = data.port /\ u.body = data.body /\ u.total = data.total
        /\ u.truncated = data.truncated /\ u.headerLen = data.headerLen
        /\ u.headerDone = data.headerDone /\ u.failed = data.failed
    BY <1>6, <2>1, <2>2 DEF TcpType
  <2>4. Prefix(u)
    <3>1. Prefix(data) /\ u.remote = data.remote
      BY <1>6, <2>3
    <3> QED
      BY <2>3, <3>1, SamePrefix
  <2>5. Overflown(u) \/ Exact(u)
    <3>1. CASE Overflown(data)
      BY <2>3, <3>1 DEF Overflown
    <3>2. CASE Exact(data)
      <4>1. Kept(u) = Kept(data) /\ InHeader(u) /\ Kept(u) <= N /\ Kept(u) \in Nat
        BY <1>6, <2>3, <3>2 DEF Exact, InHeader, Kept, TcpType
      <4>2. CASE data.next = Plus(Isn, 1 + Kept(data)) /\ Kept(data) = N
        <5>1. next = Plus(Isn, (1 + N) + 1)
          <6>1. next = Plus(Plus(Isn, 1 + N), 1)
            BY <2>1, <4>2 DEF next
          <6>2. Plus(Plus(Isn, 1 + N), 1) = Plus(Isn, (1 + N) + 1)
            BY <1>2, PlusPlus
          <6> QED
            BY <6>1, <6>2
        <5>2. (1 + N) + 1 = 2 + N
          BY <1>2
        <5> QED
          BY <2>3, <4>1, <4>2, <5>1, <5>2 DEF Exact, Acked
      <4>3. CASE data.next = Plus(Isn, 1 + Kept(data)) /\ Kept(data) # N
        <5>1. 1 + Kept(data) \in 0 .. SeqMod - 1 /\ 1 + N \in 0 .. SeqMod - 1
          BY <1>2, <4>1
        <5>2. 1 + Kept(data) # 1 + N
          BY <1>2, <4>1, <4>3
        <5>3. Plus(Isn, 1 + N) # data.next
          BY <4>3, <5>1, <5>2, PlusInjective
        <5>4. next = data.next
          BY <2>1, <5>3 DEF next
        <5> QED
          BY <2>3, <4>1, <4>3, <5>4 DEF Exact, Acked
      <4>4. CASE Kept(data) = N /\ data.next = Plus(Isn, 2 + Kept(data))
        <5>1. 2 + N \in 0 .. SeqMod - 1 /\ 1 + N \in 0 .. SeqMod - 1 /\ 1 + N # 2 + N
          BY <1>2
        <5>2. Plus(Isn, 1 + N) # data.next
          BY <4>4, <5>1, PlusInjective
        <5>3. next = data.next
          BY <2>1, <5>2 DEF next
        <5> QED
          BY <2>3, <4>1, <4>4, <5>3 DEF Exact, Acked
      <4> QED
        BY <1>6, <3>2, <4>2, <4>3, <4>4 DEF Exact, Acked
    <3> QED
      BY <1>6, <3>1, <3>2
  <2> QED
    BY <1>1, <2>3, <2>4, <2>5 DEF TcpOK
<1> QED
  BY <1>8, <1>9

-----------------------------------------------------------------------------
(* Every step.                                                             *)

LEMMA NoTcpIs ==
  /\ NoTcp \in TcpType
  /\ NoTcp.active = FALSE /\ NoTcp.established = FALSE /\ NoTcp.headerLen = 0 /\ NoTcp.total = 0
  /\ NoTcp.headerDone = FALSE /\ NoTcp.body = <<>> /\ NoTcp.truncated = FALSE
<1>1. <<>> \in Seq(Nat \X Nat)
  OBVIOUS
<1> QED
  BY <1>1 DEF NoTcp, TcpType

\* tcp_http_reset, and the record net_http_get prepares.
LEMMA NoTcpOK ==
  /\ TcpOK(NoTcp)
  /\ \A h \in Hosts, n \in Nat :
       TcpOK([NoTcp EXCEPT !.active = TRUE, !.connecting = TRUE, !.remote = h, !.port = n])
<1>1. Len(<<>>) = 0 /\ MaxBody \in Nat /\ Min({0, MaxBody}) = 0
  <2>1. MaxBody \in Nat /\ MaxBody \in Int /\ 0 \in Int
    BY NetAssumption
  <2>2. Min({0, MaxBody}) = IF 0 <= MaxBody THEN 0 ELSE MaxBody
    BY <2>1, MinOfTwo
  <2> QED
    BY <2>1, <2>2
<1>2. ASSUME NEW t \in TcpType, t.body = <<>>, t.total = 0, t.truncated = FALSE PROVE Prefix(t)
  BY <1>1, <1>2 DEF Prefix
<1>3. TcpOK(NoTcp)
  BY <1>2, NoTcpIs DEF TcpOK
<1>4. ASSUME NEW h \in Hosts, NEW n \in Nat
      PROVE  TcpOK([NoTcp EXCEPT !.active = TRUE, !.connecting = TRUE, !.remote = h, !.port = n])
  <2> DEFINE t == [NoTcp EXCEPT !.active = TRUE, !.connecting = TRUE, !.remote = h, !.port = n]
  <2>1. /\ t \in TcpType /\ t.remote = h /\ t.established = FALSE
        /\ t.headerLen = 0 /\ t.total = 0 /\ t.headerDone = FALSE /\ t.body = <<>>
        /\ t.truncated = FALSE
    BY NoTcpIs DEF TcpType
  <2> HIDE DEF t
  <2>2. TcpOK(t)
    BY <1>2, <2>1 DEF TcpOK
  <2> QED
    BY <2>2 DEF t
<1> QED
  BY <1>3, <1>4

\* The record of a call that has just begun.
LEMMA NoCallIs ==
  /\ NoCall \in CallType /\ NoCall.pc = "idle" /\ NoCall.then = None
  /\ NoCall.host = None /\ NoCall.name = None
  BY DEF NoCall, CallType

\* Steps that leave the last ping alone.
LEMMA PingFrame ==
  ASSUME PingOK, cfg.ip # NoLease => cfg'.ip # NoLease,
         ping'.seq = ping.seq, ping'.got = ping.got, ping'.answer = ping.answer,
         ping'.waiting => ping.waiting,
         call'.name = "ping" => call.name = "ping" /\ call'.host = call.host,
         \A m \in sent' : m \in sent \/ m.kind \notin {"echo", "request"}
  PROVE  PingOK'
  BY DEF PingOK

\* Steps that leave the query of the call alone.
LEMMA DnsFrame ==
  ASSUME DnsOK, clock' = clock,
         dns'.xid = dns.xid, dns'.got = dns.got, dns'.result = dns.result,
         call'.name \in {"dns", "http"} => call.name \in {"dns", "http"} /\ call'.host = call.host,
         \A m \in sent' : m \in sent \/ m.kind # "query"
  PROVE  DnsOK'
  BY DEF DnsOK

\* A new call has asked nothing yet.
LEMMA DnsStart ==
  ASSUME DnsOK, NetTypes, clock' = clock + 1,
         dns' = dns \/ (dns'.xid = clock' /\ ~dns'.got),
         \A m \in sent' : m \in sent \/ m.kind # "query"
  PROVE  DnsOK'
<1>1. clock \in Nat /\ dns.xid \in Nat
  BY DEF NetTypes
<1>2. dns'.xid <= clock' /\ (dns'.got => dns'.xid # clock')
  BY <1>1 DEF DnsOK
<1>3. \A m \in sent' : m.kind = "query" => m.id \in 0 .. clock' /\ m.id # clock' /\ m.host \in Hosts \union {None}
  BY <1>1 DEF DnsOK
<1> QED
  BY <1>2, <1>3 DEF DnsOK

LEMMA StartSteps ==
  ASSUME NetInv,
         \/ Dhcp
         \/ \E h \in Hosts : \/ Ping(h)
                             \/ \E name \in {"dns", "http"} : \E form \in Forms(name) : Resolve(name, h, form)
  PROVE  NetInv'
<1>1. /\ NetTypes /\ TcpOK(tcp) /\ CallOK /\ PingOK /\ DnsOK
      /\ clock \in Nat /\ call \in CallType
  BY DEF NetInv, NetTypes
<1>2. CASE Dhcp
  <2>1. /\ clock' = clock + 1 /\ UNCHANGED <<cfg, dns, ping, tcp>> /\ "dhcp" \in Calls
        /\ \/ call' = [NoCall EXCEPT !.name = "dhcp"]
           \/ call' = [NoCall EXCEPT !.name = "dhcp", !.pc = "offer"]
        /\ \A m \in sent' : m \in sent \/ m.kind = "discover"
    BY <1>2 DEF Dhcp, Start
  <2>2. /\ call' \in CallType /\ call'.name = "dhcp" /\ call'.pc \in {"idle", "offer"}
        /\ call'.then = None
    BY <2>1, NoCallIs DEF CallType
  <2>3. NetTypes' /\ TcpOK(tcp)'
    BY <1>1, <2>1, <2>2 DEF NetTypes
  <2>4. CallOK'
    BY <2>2 DEF CallOK, None
  <2>5. PingOK'
    BY <1>1, <2>1, <2>2, PingFrame
  <2>6. DnsOK'
    BY <1>1, <2>1, DnsStart
  <2> QED
    BY <2>3, <2>4, <2>5, <2>6 DEF NetInv
<1>3. ASSUME NEW h \in Hosts, Ping(h) PROVE NetInv'
  <2>1. clock' = clock + 1 /\ UNCHANGED <<cfg, dns, tcp, sent>> /\ "ping" \in Calls
    BY <1>3 DEF Ping, Start
  <2>2. CASE cfg.ip = NoLease
    <3>1. call' = [NoCall EXCEPT !.name = "ping"] /\ ping' = ping
      BY <1>3, <2>2 DEF Ping
    <3>2. call' \in CallType /\ call'.name = "ping" /\ call'.pc = "idle" /\ call'.then = None
      BY <2>1, <3>1, NoCallIs DEF CallType
    <3>3. NetTypes' /\ TcpOK(tcp)' /\ CallOK'
      BY <1>1, <2>1, <3>1, <3>2 DEF NetTypes, CallOK, None
    <3>4. PingOK'
      BY <1>1, <2>1, <2>2, <3>1 DEF PingOK
    <3>5. DnsOK'
      BY <1>1, <2>1, DnsStart
    <3> QED
      BY <3>3, <3>4, <3>5 DEF NetInv
  <2>3. CASE cfg.ip # NoLease
    <3>1. /\ call' = [NoCall EXCEPT !.name = "ping", !.host = h, !.pc = "send", !.then = "pong"]
          /\ ping' = [waiting |-> TRUE, got |-> FALSE, seq |-> ping.seq + 1, answer |-> None]
      BY <1>3, <2>3 DEF Ping
    <3>2. /\ call' \in CallType /\ call'.name = "ping" /\ call'.pc = "send" /\ call'.then = "pong"
      BY <2>1, <3>1, NoCallIs DEF CallType
    <3>3. ping.seq \in Nat /\ ping'.seq = ping.seq + 1 /\ ping'.got = FALSE
      BY <1>1, <3>1 DEF NetTypes
    <3>4. NetTypes' /\ TcpOK(tcp)'
      BY <1>1, <2>1, <3>1, <3>2, <3>3 DEF NetTypes
    <3>5. CallOK'
      BY <2>1, <2>3, <3>2 DEF CallOK, None
    <3>6. PingOK'
      BY <1>1, <2>1, <2>3, <3>3 DEF PingOK
    <3>7. DnsOK'
      BY <1>1, <2>1, DnsStart
    <3> QED
      BY <3>4, <3>5, <3>6, <3>7 DEF NetInv
  <2> QED
    BY <2>2, <2>3
<1>4. ASSUME NEW h \in Hosts, NEW name \in {"dns", "http"}, NEW form \in Forms(name),
             Resolve(name, h, form)
      PROVE  NetInv'
  <2>0. clock' = clock + 1 /\ UNCHANGED <<cfg, ping, tcp, sent>>
    BY <1>4 DEF Resolve, Start
  <2>1. /\ clock' = clock + 1 /\ UNCHANGED <<cfg, ping, tcp, sent>> /\ name \in Calls
        /\ \/ dns' = dns
           \/ \E on \in BOOLEAN : dns' = [waiting |-> on, got |-> FALSE, xid |-> clock', result |-> None]
        /\ \/ \E ok \in BOOLEAN : call' = [NoCall EXCEPT !.name = name, !.host = h, !.ok = ok]
           \/ call' = [NoCall EXCEPT !.name = name, !.host = h, !.pc = "open"]
           \/ /\ call' = [NoCall EXCEPT !.name = name, !.host = h, !.pc = "send", !.then = "answer"]
              /\ dns' = [waiting |-> TRUE, got |-> FALSE, xid |-> clock', result |-> None]
    BY <1>4, Zenon DEF Resolve, Start
  <2>2. /\ call' \in CallType /\ call'.name = name /\ call'.host = h
        /\ \/ call'.pc \in {"idle", "open"} /\ call'.then = None
           \/ /\ call'.pc = "send" /\ call'.then = "answer"
              /\ dns' = [waiting |-> TRUE, got |-> FALSE, xid |-> clock', result |-> None]
    <3>1. ASSUME NEW ok \in BOOLEAN, call' = [NoCall EXCEPT !.name = name, !.host = h, !.ok = ok]
          PROVE  /\ call' \in CallType /\ call'.name = name /\ call'.host = h
                 /\ call'.pc = "idle" /\ call'.then = None
      BY <2>1, <3>1, NoCallIs DEF CallType
    <3>2. ASSUME call' = [NoCall EXCEPT !.name = name, !.host = h, !.pc = "open"]
          PROVE  /\ call' \in CallType /\ call'.name = name /\ call'.host = h
                 /\ call'.pc = "open" /\ call'.then = None
      BY <2>1, <3>2, NoCallIs DEF CallType
    <3>3. ASSUME call' = [NoCall EXCEPT !.name = name, !.host = h, !.pc = "send", !.then = "answer"]
          PROVE  /\ call' \in CallType /\ call'.name = name /\ call'.host = h
                 /\ call'.pc = "send" /\ call'.then = "answer"
      BY <2>1, <3>3, NoCallIs DEF CallType
    <3> QED
      BY <2>1, <3>1, <3>2, <3>3
  <2>3. /\ dns' = dns \/ (dns'.xid = clock' /\ ~dns'.got)
        /\ dns' \in [waiting : BOOLEAN, got : BOOLEAN, xid : Nat, result : Hosts \union {None}]
    <3>1. clock' \in Nat
      BY <1>1, <2>0
    <3>2. ASSUME NEW on \in BOOLEAN,
                 dns' = [waiting |-> on, got |-> FALSE, xid |-> clock', result |-> None]
          PROVE  /\ dns'.xid = clock' /\ ~dns'.got
                 /\ dns' \in [waiting : BOOLEAN, got : BOOLEAN, xid : Nat, result : Hosts \union {None}]
      BY <3>1, <3>2
    <3> QED
      BY <1>1, <2>1, <3>2 DEF NetTypes
  <2>4. NetTypes' /\ TcpOK(tcp)'
    BY <1>1, <2>0, <2>2, <2>3 DEF NetTypes
  <2>5. CallOK'
    BY <2>2 DEF CallOK, None
  <2>6. PingOK'
    BY <1>1, <2>1, <2>2, PingFrame
  <2>7. DnsOK'
    BY <1>1, <2>1, <2>3, DnsStart
  <2> QED
    BY <2>4, <2>5, <2>6, <2>7 DEF NetInv
<1> QED
  BY <1>2, <1>3, <1>4

\* Steps that only move the call on and may reset the connection.
LEMMA MoveKeeps ==
  ASSUME NetInv, UNCHANGED <<cfg, ping, dns, clock>>, TcpOK(tcp'), call' \in CallType,
         call'.name = call.name, call'.host = call.host, call'.pc \notin {"send", "arp", "answer"},
         call'.then = None, call'.pc = "open" => call.name \in {"dns", "http"},
         \A m \in sent' : m \in sent \/ m.kind \notin {"echo", "request", "query"}
  PROVE  NetInv'
<1>1. NetTypes /\ CallOK /\ PingOK /\ DnsOK
  BY DEF NetInv
<1>2. NetTypes'
  BY <1>1 DEF NetTypes
<1>3. CallOK'
  BY <1>1 DEF CallOK, None
<1>4. PingOK'
  BY <1>1, PingFrame
<1>5. DnsOK'
  BY <1>1, DnsFrame
<1> QED
  BY <1>2, <1>3, <1>4, <1>5 DEF NetInv

\* A packet of the call goes out.
LEMMA SendKeeps ==
  ASSUME NetInv, UNCHANGED <<cfg, ping, dns, tcp, clock>>, NEW p, sent' = sent \union {p},
         call' \in CallType, call'.name = call.name, call'.host = call.host,
         call'.pc = call.then, call'.then = None, call.then \in {"pong", "answer", "connect", "body"},
         p.host = call.host, p.kind # "request",
         p.kind = "echo" => call.then = "pong" /\ p.id = ping.seq,
         p.kind = "query" => call.then = "answer" /\ p.id = clock
  PROVE  NetInv'
<1>1. NetTypes /\ TcpOK(tcp) /\ CallOK /\ PingOK /\ DnsOK
  BY DEF NetInv
<1>2. call.host \in Hosts \union {None} /\ ping.seq \in Nat /\ clock \in Nat
  BY <1>1 DEF NetTypes, CallType
<1>3. NetTypes' /\ TcpOK(tcp)'
  BY <1>1 DEF NetTypes
<1>4. CallOK'
  BY <1>1 DEF CallOK, None
<1>5. p.kind = "echo" => cfg.ip # NoLease
  BY <1>1 DEF CallOK
<1>6. PingOK'
  BY <1>1, <1>2, <1>5 DEF PingOK
<1>7. DnsOK'
  BY <1>1, <1>2 DEF DnsOK
<1> QED
  BY <1>3, <1>4, <1>6, <1>7 DEF NetInv

LEMMA TransmitKeeps == ASSUME NetInv, Transmit PROVE NetInv'
<1>1. CallOK /\ call \in CallType
  BY DEF NetInv, NetTypes
<1>2. call.then \in {"pong", "answer", "connect", "body"}
  BY <1>1 DEF Transmit, CallOK, CallType
<1>3. call' = [call EXCEPT !.pc = call.then, !.then = None]
  BY DEF Transmit, Goto
<1>4. /\ call' \in CallType /\ call'.name = call.name /\ call'.host = call.host
      /\ call'.pc = call.then /\ call'.then = None
  BY <1>1, <1>2, <1>3 DEF CallType
<1>5. /\ Packet.host = call.host
      /\ Packet.kind = "echo" => call.then = "pong" /\ Packet.id = ping.seq
      /\ Packet.kind = "query" => call.then = "answer" /\ Packet.id = clock
      /\ Packet.kind # "request"
  BY <1>2 DEF Packet
<1>6. sent' = sent \union {Packet} /\ UNCHANGED <<cfg, ping, dns, tcp, clock>>
  BY DEF Transmit
<1> DEFINE p == Packet
<1> HIDE DEF p
<1>7. /\ sent' = sent \union {p} /\ p.host = call.host /\ p.kind # "request"
      /\ p.kind = "echo" => call.then = "pong" /\ p.id = ping.seq
      /\ p.kind = "query" => call.then = "answer" /\ p.id = clock
  BY <1>5, <1>6 DEF p
<1> QED
  BY <1>2, <1>4, <1>6, <1>7, SendKeeps

LEMMA CallSteps == ASSUME NetInv, CallStep \/ RetrySyn PROVE NetInv'
<1>1. NetTypes /\ CallOK /\ PingOK /\ DnsOK /\ TcpOK(tcp) /\ call \in CallType
  BY DEF NetInv, NetTypes
<1>2. ASSUME NEW ok \in BOOLEAN, Return(ok)
      PROVE  /\ call' \in CallType /\ call'.name = call.name /\ call'.host = call.host
             /\ call'.pc = "idle" /\ call'.then = None
  BY <1>1, <1>2 DEF Return, CallType
<1>3. CASE LeaveOffer
  <2>1. /\ call' \in CallType /\ call'.name = call.name /\ call'.host = call.host
        /\ call'.pc \in {"idle", "ack"} /\ call'.then = None
    <3>1. CASE Return(FALSE)
      BY <1>2, <3>1
    <3>2. CASE Goto("ack")
      BY <1>1, <3>2 DEF Goto, CallType
    <3> QED
      BY <1>3, <3>1, <3>2 DEF LeaveOffer
  <2>2. UNCHANGED <<cfg, ping, dns, tcp, clock>>
    BY <1>3 DEF LeaveOffer
  <2>3. \A m \in sent' : m \in sent \/ (m.kind = "request" /\ m.server # 0)
    <3>1. \/ sent' = sent
          \/ /\ dhcp.server # 0
             /\ sent' = sent \union {[kind |-> "request", id |-> dhcp.xid, ip |-> dhcp.offered,
                                      server |-> dhcp.server]}
      BY <1>3 DEF LeaveOffer
    <3>2. CASE sent' = sent
      BY <3>2
    <3>3. CASE sent' # sent
      BY <3>1, <3>3
    <3> QED
      BY <3>2, <3>3
  <2>4. NetTypes' /\ CallOK' /\ DnsOK'
    <3>1. NetTypes'
      BY <1>1, <2>1, <2>2 DEF NetTypes
    <3>2. CallOK'
      BY <1>1, <2>1, <2>2 DEF CallOK, None
    <3>3. DnsOK'
      BY <1>1, <2>1, <2>2, <2>3, DnsFrame
    <3> QED
      BY <3>1, <3>2, <3>3
  <2>5. PingOK'
    BY <1>1, <2>1, <2>2, <2>3 DEF PingOK
  <2> QED
    BY <1>1, <2>2, <2>4, <2>5 DEF NetInv
<1>4. CASE LeaveAck
  <2>1. cfg.configured \in BOOLEAN
    BY <1>1 DEF NetTypes
  <2> QED
    BY <1>1, <1>2, <1>4, <2>1, MoveKeeps DEF LeaveAck
<1>5. CASE LeavePing
  <2>1. ping \in [waiting : BOOLEAN, got : BOOLEAN, seq : Nat, answer : Hosts \union {None}]
    BY <1>1 DEF NetTypes
  <2>2. /\ call' \in CallType /\ call'.name = call.name /\ call'.host = call.host
        /\ call'.pc = "idle" /\ call'.then = None
    BY <1>2, <1>5, <2>1 DEF LeavePing
  <2>3. /\ ping' \in [waiting : BOOLEAN, got : BOOLEAN, seq : Nat, answer : Hosts \union {None}]
        /\ ping'.seq = ping.seq /\ ping'.got = ping.got /\ ping'.answer = ping.answer
        /\ ping'.waiting => ping.waiting
    BY <1>5, <2>1 DEF LeavePing
  <2>4. UNCHANGED <<cfg, dns, tcp, clock, sent>>
    BY <1>5 DEF LeavePing
  <2>5. NetTypes' /\ CallOK'
    BY <1>1, <2>2, <2>3, <2>4 DEF NetTypes, CallOK, None
  <2>6. PingOK' /\ DnsOK'
    BY <1>1, <2>2, <2>3, <2>4, PingFrame, DnsFrame
  <2> QED
    BY <1>1, <2>4, <2>5, <2>6 DEF NetInv
<1>6. CASE LeaveDns
  <2>1. UNCHANGED <<cfg, ping, dns, tcp, clock, sent>> /\ call.pc = "answer"
    BY <1>6 DEF LeaveDns
  <2>2. CASE Return(FALSE) \/ Return(TRUE)
    BY <1>1, <1>2, <2>1, <2>2, MoveKeeps
  <2>3. CASE dns.got /\ call' = [call EXCEPT !.pc = "open", !.host = dns.result]
    <3>1. dns.result = call.host /\ call.name \in {"dns", "http"} /\ call.then # "pong"
      BY <1>1, <2>1, <2>3 DEF CallOK, DnsOK
    <3>2. /\ call' \in CallType /\ call'.name = call.name /\ call'.host = call.host
          /\ call'.pc = "open" /\ call'.then = call.then
      BY <1>1, <2>3, <3>1 DEF CallType
    <3>3. NetTypes'
      BY <1>1, <2>1, <3>2 DEF NetTypes
    <3>4. CallOK'
      BY <1>1, <2>1, <3>1, <3>2 DEF CallOK
    <3>5. PingOK' /\ DnsOK'
      BY <1>1, <2>1, <3>2, PingFrame, DnsFrame
    <3> QED
      BY <1>1, <2>1, <3>3, <3>4, <3>5 DEF NetInv
  <2> QED
    BY <1>6, <2>2, <2>3 DEF LeaveDns
<1>7. CASE Open
  <2>1. UNCHANGED <<cfg, ping, dns, clock, sent>> /\ call.name \in {"dns", "http"} /\ call.host \in Hosts
    BY <1>1, <1>7 DEF Open, CallOK
  <2>2. TcpOK(tcp')
    <3>1. tcp' = [NoTcp EXCEPT !.active = TRUE, !.connecting = TRUE, !.remote = call.host, !.port = clock]
      BY <1>7 DEF Open
    <3>2. clock \in Nat
      BY <1>1 DEF NetTypes
    <3> QED
      BY <2>1, <3>1, <3>2, NoTcpOK
  <2>3. /\ call' \in CallType /\ call'.name = call.name /\ call'.host = call.host
        /\ call'.pc = "send" /\ call'.then = "connect"
    BY <1>1, <1>7 DEF Open, Send, CallType
  <2>4. NetTypes'
    BY <1>1, <2>1, <2>3 DEF NetTypes
  <2>5. CallOK'
    BY <1>1, <2>1, <2>3 DEF CallOK, None
  <2>6. PingOK' /\ DnsOK'
    BY <1>1, <2>1, <2>3, PingFrame, DnsFrame
  <2> QED
    BY <2>2, <2>4, <2>5, <2>6 DEF NetInv
<1>8. CASE AskNeighbour \/ RetrySyn
  <2>1. UNCHANGED <<cfg, ping, dns, tcp, clock, sent>>
    BY <1>8 DEF AskNeighbour, RetrySyn
  <2>2. /\ call' \in CallType /\ call'.name = call.name /\ call'.host = call.host
        /\ call'.then = call.then
        /\ call'.pc = call.pc \/ (call.pc = "send" /\ call'.pc = "arp")
    BY <1>1, <1>8 DEF AskNeighbour, RetrySyn, CallType
  <2>3. NetTypes'
    BY <1>1, <2>1, <2>2 DEF NetTypes
  <2>4. CallOK'
    BY <1>1, <2>1, <2>2 DEF CallOK
  <2>5. PingOK' /\ DnsOK'
    BY <1>1, <2>1, <2>2, PingFrame, DnsFrame
  <2> QED
    BY <1>1, <2>1, <2>3, <2>4, <2>5 DEF NetInv
<1>9. CASE SendFails
  <2>1. UNCHANGED <<cfg, clock, sent>> /\ TcpOK(tcp')
    BY <1>1, <1>9, NoTcpOK DEF SendFails
  <2>2. /\ call' \in CallType /\ call'.name = call.name /\ call'.host = call.host
        /\ call'.pc = "idle" /\ call'.then = None
    BY <1>2, <1>9 DEF SendFails
  <2>3. /\ ping' \in [waiting : BOOLEAN, got : BOOLEAN, seq : Nat, answer : Hosts \union {None}]
        /\ ping'.seq = ping.seq /\ ping'.got = ping.got /\ ping'.answer = ping.answer
        /\ ping'.waiting => ping.waiting
    BY <1>1, <1>9 DEF SendFails, NetTypes
  <2>4. /\ dns' \in [waiting : BOOLEAN, got : BOOLEAN, xid : Nat, result : Hosts \union {None}]
        /\ dns'.xid = dns.xid /\ dns'.got = dns.got /\ dns'.result = dns.result
    BY <1>1, <1>9 DEF SendFails, NetTypes
  <2>5. NetTypes'
    BY <1>1, <2>1, <2>2, <2>3, <2>4 DEF NetTypes
  <2>6. CallOK'
    BY <1>1, <2>1, <2>2, <2>4 DEF CallOK, None
  <2>7. PingOK' /\ DnsOK'
    BY <1>1, <2>1, <2>2, <2>3, <2>4, PingFrame, DnsFrame
  <2> QED
    BY <2>1, <2>5, <2>6, <2>7 DEF NetInv
<1>10. CASE LeaveConnect
  <2>1. CASE Return(FALSE) /\ tcp' = NoTcp
    BY <1>1, <1>2, <1>10, <2>1, NoTcpOK, MoveKeeps DEF LeaveConnect
  <2>2. CASE Send("body") /\ UNCHANGED tcp
    <3>1. UNCHANGED <<cfg, ping, dns, tcp, clock, sent>>
      BY <1>10, <2>2 DEF LeaveConnect
    <3>2. /\ call' \in CallType /\ call'.name = call.name /\ call'.host = call.host
          /\ call'.pc = "send" /\ call'.then = "body"
      BY <1>1, <2>2 DEF Send, CallType
    <3>3. NetTypes'
      BY <1>1, <3>1, <3>2 DEF NetTypes
    <3>4. CallOK'
      BY <1>1, <3>1, <3>2 DEF CallOK, None
    <3>5. PingOK' /\ DnsOK'
      BY <1>1, <3>1, <3>2, PingFrame, DnsFrame
    <3> QED
      BY <1>1, <3>1, <3>3, <3>4, <3>5 DEF NetInv
  <2> QED
    BY <1>10, <2>1, <2>2 DEF LeaveConnect
<1>11. CASE LeaveBody
  <2>1. (~tcp.failed /\ tcp.headerDone /\ tcp.statusValid) \in BOOLEAN
    OBVIOUS
  <2> QED
    BY <1>1, <1>2, <1>11, <2>1, NoTcpOK, MoveKeeps DEF LeaveBody
<1> QED
  BY <1>3, <1>4, <1>5, <1>6, <1>7, <1>8, <1>9, <1>10, <1>11, TransmitKeeps DEF CallStep

\* Steps of the handlers of the connection: nothing else changes.
LEMMA TcpFrame ==
  ASSUME NetInv, UNCHANGED <<cfg, dns, ping, call, clock, sent>>, TcpOK(tcp')
  PROVE  NetInv'
<1>1. NetTypes /\ CallOK /\ PingOK /\ DnsOK
  BY DEF NetInv
<1>2. NetTypes'
  BY <1>1 DEF NetTypes
<1>3. CallOK'
  BY <1>1 DEF CallOK
<1>4. PingOK' /\ DnsOK'
  BY <1>1, PingFrame, DnsFrame
<1> QED
  BY <1>2, <1>3, <1>4 DEF NetInv

\* A reset fails the connection and keeps what has come.
LEMMA ResetKeeps ==
  ASSUME NEW t, TcpOK(t), NEW u, u = [t EXCEPT !.failed = TRUE]
  PROVE  TcpOK(u)
<1>1. t \in TcpType
  BY DEF TcpOK
<1>2. /\ u \in TcpType /\ u.failed = TRUE /\ u.active = t.active /\ u.connecting = t.connecting
      /\ u.established = t.established /\ u.finSeen = t.finSeen /\ u.headerDone = t.headerDone
      /\ u.remote = t.remote /\ u.port = t.port /\ u.next = t.next /\ u.headerLen = t.headerLen
      /\ u.body = t.body /\ u.total = t.total /\ u.truncated = t.truncated
  BY <1>1 DEF TcpType
<1>3. Prefix(u)
  BY <1>2, SamePrefix DEF TcpOK
<1>4. Overflown(t) => Overflown(u)
  BY <1>2 DEF Overflown
<1>5. Exact(t) => Exact(u)
  BY <1>2 DEF Exact, InHeader, Acked, Kept
<1> QED
  BY <1>2, <1>3, <1>4, <1>5 DEF TcpOK

\* The server accepts: the next byte to come is the first of its answer.
LEMMA AcceptKeeps ==
  ASSUME NEW t, TcpOK(t), t.active, t.connecting, NEW u,
         u = [t EXCEPT !.next = Plus(Isn, 1), !.connecting = FALSE, !.established = TRUE]
  PROVE  TcpOK(u)
<1>1. /\ t \in TcpType /\ t.remote \in Hosts /\ ~t.established
      /\ t.headerLen = 0 /\ t.total = 0 /\ ~t.headerDone
  BY DEF TcpOK
<1>2. Whole(t.remote) \in Nat /\ HeaderLen[t.remote] \in Nat \ {0} /\ SeqMod \in Nat
      /\ Whole(t.remote) + 3 < SeqMod
  BY <1>1, AnswerSizes
<1>3. Plus(Isn, 1) \in Int
  <2>1. 1 \in 0 .. SeqMod - 1
    BY <1>2
  <2> QED
    BY <1>2, <2>1, PlusIs
<1>4. /\ u \in TcpType /\ u.established = TRUE /\ u.connecting = FALSE /\ u.active = t.active
      /\ u.headerDone = t.headerDone /\ u.remote = t.remote /\ u.port = t.port
      /\ u.next = Plus(Isn, 1) /\ u.headerLen = t.headerLen /\ u.body = t.body
      /\ u.total = t.total /\ u.truncated = t.truncated
  BY <1>1, <1>3 DEF TcpType
<1>5. Prefix(u)
  BY <1>4, SamePrefix DEF TcpOK
<1>6. Kept(u) = 0
  BY <1>1, <1>4 DEF Kept
<1>7. Exact(u)
  BY <1>1, <1>2, <1>4, <1>6 DEF Exact, InHeader, Acked
<1> QED
  BY <1>1, <1>4, <1>5, <1>7 DEF TcpOK

LEMMA RecvTcpKeeps == ASSUME NetInv, RecvTcp PROVE NetInv'
<1>1. TcpOK(tcp)
  BY DEF NetInv
<1>2. PICK m \in sent :
        \/ HandleTcp(m, [tcp EXCEPT !.failed = TRUE])
        \/ /\ tcp.connecting
           /\ HandleTcp(m, [tcp EXCEPT !.next = Plus(Isn, 1), !.connecting = FALSE,
                                       !.established = TRUE])
        \/ /\ tcp.established
           /\ LET length == HeaderLen[m.host] + BodyLen[m.host]
              IN \E i \in 0 .. length, j \in 0 .. length, fin \in BOOLEAN :
                   /\ i <= j
                   /\ i < j \/ fin
                   /\ fin => j = length
                   /\ HandleTcp(m, Segment(tcp, Plus(Isn, 1 + i),
                                           [k \in 1 .. j - i |-> <<m.id, i + k>>], fin))
  BY Zenon DEF RecvTcp
<1>3. ASSUME NEW u, HandleTcp(m, u), TcpOK(u) PROVE NetInv'
  BY <1>3, TcpFrame DEF HandleTcp
<1>4. CASE HandleTcp(m, [tcp EXCEPT !.failed = TRUE])
  BY <1>1, <1>3, <1>4, ResetKeeps, Zenon
<1>5. CASE /\ tcp.connecting
           /\ HandleTcp(m, [tcp EXCEPT !.next = Plus(Isn, 1), !.connecting = FALSE,
                                       !.established = TRUE])
  <2>1. tcp.active
    BY <1>5, Zenon DEF HandleTcp
  <2> QED
    BY <1>1, <1>3, <1>5, <2>1, AcceptKeeps, Zenon
<1>6. ASSUME tcp.established, NEW i \in 0 .. HeaderLen[m.host] + BodyLen[m.host],
             NEW j \in 0 .. HeaderLen[m.host] + BodyLen[m.host], NEW fin \in BOOLEAN,
             i <= j, fin => j = HeaderLen[m.host] + BodyLen[m.host],
             HandleTcp(m, Segment(tcp, Plus(Isn, 1 + i), [k \in 1 .. j - i |-> <<m.id, i + k>>], fin))
      PROVE  NetInv'
  <2>1. m.host = tcp.remote /\ m.id = tcp.port
    BY <1>6, Zenon DEF HandleTcp
  <2>2. /\ i \in 0 .. Whole(tcp.remote) /\ j \in 0 .. Whole(tcp.remote)
        /\ fin => j = Whole(tcp.remote)
    BY <1>6, <2>1, Zenon DEF Whole
  <2> DEFINE units == [k \in 1 .. j - i |-> <<m.id, i + k>>]
             u     == Segment(tcp, Plus(Isn, 1 + i), units, fin)
  <2>3. units = [k \in 1 .. j - i |-> <<tcp.port, i + k>>]
    BY <2>1
  <2>4. HandleTcp(m, u)
    BY <1>6, Zenon
  <2>5. u = Segment(tcp, Plus(Isn, 1 + i), units, fin)
    OBVIOUS
  <2> HIDE DEF units, u
  <2>6. TcpOK(u)
    BY <1>1, <1>6, <2>2, <2>3, <2>5, SegmentKeeps, SMTT(30)
  <2> QED
    BY <1>3, <2>4, <2>6
<1> QED
  BY <1>2, <1>4, <1>5, <1>6, Zenon

\* handle_dhcp keeps an address once there is one, and an acknowledged one is one.
LEMMA RecvDhcpKeeps ==
  ASSUME NetInv, RecvDhcp
  PROVE  /\ NetInv'
         /\ cfg'.ip # cfg.ip => \E m \in sent : m.kind = "request" /\ m.id = dhcp.xid /\ m.ip = cfg'.ip
<1>1. NetTypes /\ TcpOK(tcp) /\ CallOK /\ PingOK /\ DnsOK
  BY DEF NetInv
<1> PICK m \in sent, full \in BOOLEAN :
       \/ \E s \in Servers : HandleDhcp("offer", m.id, s, full)
       \/ m.kind = "request" /\ m.ip = <<m.id, m.server>> /\ HandleDhcp("ack", m.id, m.server, full)
  BY Zenon DEF RecvDhcp
<1>2. UNCHANGED <<dns, ping, tcp, call, clock, sent>>
  BY DEF HandleDhcp
<1>3. \/ cfg' = cfg
      \/ /\ cfg'.configured = TRUE
         /\ \E r \in sent : r.kind = "request" /\ r.id = dhcp.xid /\ r.ip = <<r.id, r.server>>
                            /\ cfg'.ip = <<r.id, r.server>>
  <2>1. ASSUME NEW s \in Servers, HandleDhcp("offer", m.id, s, full) PROVE cfg' = cfg
    BY <2>1 DEF HandleDhcp
  <2>2. ASSUME HandleDhcp("ack", m.id, m.server, full), m.kind = "request", m.ip = <<m.id, m.server>>
        PROVE  \/ cfg' = cfg
               \/ cfg'.configured = TRUE /\ m.id = dhcp.xid /\ cfg'.ip = <<m.id, m.server>>
    <3>1. /\ m.id = dhcp.xid
          /\ \/ cfg' = cfg
             \/ \E opts : cfg' = [ip |-> <<m.id, m.server>>, configured |-> TRUE, opts |-> opts]
      BY <2>2, Zenon DEF HandleDhcp
    <3> QED
      BY <3>1
  <2> QED
    BY <2>1, <2>2, Zenon
<1>4. cfg'.configured \in BOOLEAN /\ (cfg.ip # NoLease => cfg'.ip # NoLease)
  <2>1. \A r \in sent : r.kind = "request" => <<r.id, r.server>> # NoLease
    BY <1>1 DEF PingOK, NoLease
  <2> QED
    BY <1>1, <1>3, <2>1 DEF NetTypes
<1>5. NetTypes' /\ TcpOK(tcp)'
  BY <1>1, <1>2, <1>4 DEF NetTypes
<1>6. CallOK'
  BY <1>1, <1>2, <1>4 DEF CallOK
<1>7. PingOK' /\ DnsOK'
  BY <1>1, <1>2, <1>4, PingFrame, DnsFrame
<1> QED
  BY <1>3, <1>5, <1>6, <1>7, Zenon DEF NetInv

\* handle_icmp and handle_dns compare the number with that of the last question,
\* and all questions with that number went to the same host.
LEMMA AnswersKeep ==
  ASSUME NetInv, NEW m \in sent, HandlePong(m) \/ \E found \in BOOLEAN : HandleDns(m, found)
  PROVE  NetInv'
<1>1. NetTypes /\ TcpOK(tcp) /\ CallOK /\ PingOK /\ DnsOK
  BY DEF NetInv
<1>2. CASE HandlePong(m)
  <2>1. /\ m.kind = "echo" /\ m.id = ping.seq
        /\ UNCHANGED <<cfg, dns, tcp, call, clock, sent>>
        /\ ping' = [ping EXCEPT !.waiting = FALSE, !.got = TRUE, !.answer = m.host]
    BY <1>2 DEF HandlePong
  <2>2. /\ cfg.ip # NoLease /\ m.host \in Hosts \union {None}
        /\ call.name = "ping" => m.host = call.host
    BY <1>1, <2>1 DEF PingOK
  <2>3. /\ ping' \in [waiting : BOOLEAN, got : BOOLEAN, seq : Nat, answer : Hosts \union {None}]
        /\ ping'.seq = ping.seq /\ ping'.answer = m.host
    BY <1>1, <2>1, <2>2 DEF NetTypes
  <2>4. NetTypes' /\ TcpOK(tcp)'
    BY <1>1, <2>1, <2>3 DEF NetTypes
  <2>5. CallOK'
    BY <1>1, <2>1 DEF CallOK
  <2>6. PingOK'
    BY <1>1, <2>1, <2>2, <2>3 DEF PingOK
  <2>7. DnsOK'
    BY <1>1, <2>1, DnsFrame
  <2> QED
    BY <2>4, <2>5, <2>6, <2>7 DEF NetInv
<1>3. ASSUME NEW found \in BOOLEAN, HandleDns(m, found) PROVE NetInv'
  <2>1. /\ m.kind = "query" /\ m.id = dns.xid
        /\ UNCHANGED <<cfg, ping, tcp, call, clock, sent>>
        /\ dns' = IF found THEN [dns EXCEPT !.waiting = FALSE, !.got = TRUE, !.result = m.host]
                  ELSE [dns EXCEPT !.waiting = FALSE]
    BY <1>3 DEF HandleDns
  <2>2. /\ m.host \in Hosts \union {None}
        /\ call.name \in {"dns", "http"} /\ dns.xid = clock => m.host = call.host
    BY <1>1, <2>1 DEF DnsOK
  <2>3. /\ dns' \in [waiting : BOOLEAN, got : BOOLEAN, xid : Nat, result : Hosts \union {None}]
        /\ dns'.xid = dns.xid
        /\ dns'.result = m.host \/ (dns'.result = dns.result /\ dns'.got = dns.got)
    BY <1>1, <2>1, <2>2 DEF NetTypes
  <2>4. NetTypes' /\ TcpOK(tcp)'
    BY <1>1, <2>1, <2>3 DEF NetTypes
  <2>5. CallOK'
    BY <1>1, <2>1, <2>3 DEF CallOK
  <2>6. PingOK'
    BY <1>1, <2>1, PingFrame
  <2>7. DnsOK'
    BY <1>1, <2>1, <2>2, <2>3 DEF DnsOK
  <2> QED
    BY <2>4, <2>5, <2>6, <2>7 DEF NetInv
<1> QED
  BY <1>2, <1>3

LEMMA ReceiveKeeps == ASSUME NetInv, Receive PROVE NetInv'
<1>1. ASSUME NEW n, HandleArp(n) PROVE NetInv'
  <2>1. UNCHANGED <<cfg, dns, ping, tcp, call, clock, sent>>
    BY <1>1 DEF HandleArp
  <2>2. TcpOK(tcp')
    BY <2>1 DEF NetInv
  <2> QED
    BY <2>1, <2>2, TcpFrame
<1> QED
  BY <1>1, RecvDhcpKeeps, AnswersKeep, RecvTcpKeeps, Zenon DEF Receive

LEMMA NetStep == ASSUME NetInv, [Next]_vars PROVE NetInv'
<1>1. CASE UNCHANGED vars
  <2>1. UNCHANGED <<cfg, dns, ping, tcp, call, clock, sent>>
    BY <1>1 DEF vars
  <2>2. TcpOK(tcp')
    BY <2>1 DEF NetInv
  <2> QED
    BY <2>1, <2>2, TcpFrame
<1> QED
  BY <1>1, StartSteps, CallSteps, ReceiveKeeps, Zenon DEF Next

\* The types of the records and the parts of the invariant, whatever is lost,
\* repeated, delayed or reordered.
THEOREM NetInvariance == Spec => []NetInv
<1>1. Init => NetInv
  <2> SUFFICES ASSUME Init PROVE NetInv
    OBVIOUS
  <2>1. NetTypes
    BY NoCallIs DEF Init, NetTypes, NoPing, NoDns
  <2>2. TcpOK(tcp)
    BY NoTcpOK DEF Init
  <2>3. CallOK
    BY NoCallIs DEF Init, CallOK, None
  <2>4. PingOK
    BY NoCallIs DEF Init, PingOK, NoPing, None
  <2>5. DnsOK
    BY NoCallIs DEF Init, DnsOK, NoDns, None
  <2> QED
    BY <2>1, <2>2, <2>3, <2>4, <2>5 DEF NetInv
<1> QED
  BY <1>1, NetStep, PTL DEF Spec

-----------------------------------------------------------------------------
(* The properties.                                                         *)

\* What net_http_get gives its caller is the beginning of the body of this
\* connection, complete up to the size of the buffer.
THEOREM BodyIsPrefixCorrect == Spec => []BodyIsPrefix
<1>1. NetInv => BodyIsPrefix
  BY DEF NetInv, TcpOK, Prefix, BodyIsPrefix
<1> QED
  BY <1>1, NetInvariance, PTL

\* seq_remote acknowledges exactly the bytes that are in the header or the body.
THEOREM AckedIsKeptCorrect == Spec => []AckedIsKept
<1>1. NetInv => AckedIsKept
  BY DEF NetInv, TcpOK, Overflown, Exact, Acked, Kept, Whole, AckedIsKept
<1> QED
  BY <1>1, NetInvariance, PTL

\* An echo reply or a DNS answer that is taken answers the call in progress.
THEOREM AnswerIsOwnCorrect == Spec => []AnswerIsOwn
<1>1. NetInv => AnswerIsOwn
  BY DEF NetInv, PingOK, DnsOK, AnswerIsOwn
<1> QED
  BY <1>1, NetInvariance, PTL

\* The address changes only to one that was requested from its server in the
\* current exchange.
THEOREM LeaseWasRequestedCorrect == Spec => LeaseWasRequested
<1> DEFINE A == cfg'.ip # cfg.ip =>
                  \E m \in sent : m.kind = "request" /\ m.id = dhcp.xid /\ m.ip = cfg'.ip
<1>1. NetInv /\ [Next]_vars => [A]_vars
  <2> SUFFICES ASSUME NetInv, Next PROVE A
    OBVIOUS
  <2>1. CASE RecvDhcp
    BY <2>1, RecvDhcpKeeps, Zenon
  <2>2. CASE ~RecvDhcp
    <3>1. cfg' = cfg
      BY <2>2 DEF Next, Dhcp, Ping, Resolve, CallStep, LeaveOffer, LeaveAck, LeavePing, LeaveDns,
         Open, Transmit, AskNeighbour, SendFails, LeaveConnect, LeaveBody, RetrySyn, Receive,
         HandleArp, HandlePong, HandleDns, RecvTcp, HandleTcp
    <3> QED
      BY <3>1
  <2> QED
    BY <2>1, <2>2
<1>2. Spec => [][A]_vars
  BY <1>1, NetInvariance, PTL DEF Spec
<1> QED
  BY <1>2 DEF LeaseWasRequested
=============================================================================
