--------------------------- MODULE StreamsProofs ----------------------------
(***************************************************************************)
(* Proofs about what serves a client packet by packet: the delivery of     *)
(* client messages (Delivery), GameStats, the server browser               *)
(* (ServerBrowser) and gpcm's connections (GPCM), which implement Presence. *)
(***************************************************************************)
EXTENDS GPCM, Delivery, GameStats, ServerBrowser,
        SequenceTheorems, WellFoundedInduction, TLAPS

-----------------------------------------------------------------------------
(* Streams.                                                                 *)

LEMMA Elements ==
    ASSUME NEW S, NEW s \in Seq(S)
    PROVE  Len(s) \in Nat /\ DOMAIN s = 1..Len(s) /\ \A i \in DOMAIN s : s[i] \in S
OBVIOUS

LEMMA Cut ==
    ASSUME NEW S, NEW s \in Seq(S), NEW n \in 0..Len(s)
    PROVE  /\ SubSeq(s, 1, n) \in Seq(S) /\ Len(SubSeq(s, 1, n)) = n
           /\ \A i \in 1..n : SubSeq(s, 1, n)[i] = s[i]
           /\ SubSeq(s, n + 1, Len(s)) \in Seq(S) /\ Len(SubSeq(s, n + 1, Len(s))) = Len(s) - n
           /\ \A i \in 1..(Len(s) - n) : SubSeq(s, n + 1, Len(s))[i] = s[n + i]
<1>1. Len(s) \in Nat /\ DOMAIN s = 1..Len(s)
  OBVIOUS
<1>2. n \in Nat /\ n + 1 \in Int /\ n <= Len(s) /\ (\A i \in 1..n : s[i] \in S) /\ \A i \in (n + 1)..Len(s) : s[i] \in S
  BY <1>1
<1>3. /\ SubSeq(s, 1, n) \in Seq(S) /\ Len(SubSeq(s, 1, n)) = n
      /\ \A i \in 1..n : SubSeq(s, 1, n)[i] = s[i]
  BY <1>1, <1>2
<1>4. PICK m \in Int, l \in Nat : m = n + 1 /\ l = Len(s)
  BY <1>1, <1>2, Zenon
<1>5. /\ SubSeq(s, m, l) \in Seq(S) /\ Len(SubSeq(s, m, l)) = IF m <= l THEN l - m + 1 ELSE 0
      /\ \A i \in 1..(l - m + 1) : SubSeq(s, m, l)[i] = s[m + i - 1]
  <2>1. \A i \in m..l : s[i] \in S
    BY <1>2, <1>4
  <2>2. l \in Int
    BY <1>4
  <2> QED BY <2>1, <2>2, SubSeqProperties
<1>6. \A i \in 1..(Len(s) - n) : i \in 1..(l - m + 1) /\ m + i - 1 = n + i
  BY <1>1, <1>2, <1>4
<1>7. Len(SubSeq(s, m, l)) = Len(s) - n
  <2>1. n <= l /\ m = n + 1 /\ n \in Nat /\ l \in Nat
    BY <1>2, <1>4, Zenon
  <2>2. PICK k : k = Len(SubSeq(s, m, l))
    OBVIOUS
  <2>3. k = IF m <= l THEN l - m + 1 ELSE 0
    BY <1>5, <2>2
  <2>4. k = l - n
    BY <2>1, <2>3
  <2> QED BY <1>4, <2>2, <2>4, Zenon
<1> QED BY <1>3, <1>4, <1>5, <1>6, <1>7

-----------------------------------------------------------------------------
(* Delivery.  An ack on its way is for a message that arrived, and while the *)
(* waker is asserted every call that waits has been received or misled.      *)

AcksTrue == ackWire \subseteq received

WakerTrue == acked => Sending \subseteq received \cup misled

DeliveryIInv ==
    /\ send \in [Messages -> {"new", "queued", "sending"} \cup Returned]
    /\ AcksTrue /\ WakerTrue /\ AckedReceived

\* What SendClientMessage returns as acknowledged was received, for any number of
\* calls and repetitions, but for a call during whose wait the waker was asserted
\* for another message or for the removal of the session (message.go:252,
\* main.go:199, session.go:59).
THEOREM AcknowledgedArrived == DeliveryInit /\ [][DeliveryNext]_dvars => []AckedReceived
<1> USE DEF DeliveryIInv, AcksTrue, WakerTrue, AckedReceived, Returned
<1>1. DeliveryInit => DeliveryIInv
  BY DEF DeliveryInit, Sending
<1>2. DeliveryIInv /\ [DeliveryNext]_dvars => DeliveryIInv'
  <2> SUFFICES ASSUME DeliveryIInv, [DeliveryNext]_dvars PROVE DeliveryIInv'
    OBVIOUS
  <2>1. CASE UNCHANGED dvars
    BY <2>1 DEF dvars, Sending
  <2>2. ASSUME NEW m \in Messages, Queue(m) PROVE DeliveryIInv'
    BY <2>2 DEF Queue, netVars, Sending
  <2>3. ASSUME NEW m \in Messages, Begin(m) PROVE DeliveryIInv'
    BY <2>3 DEF Begin, Sending
  <2>4. ASSUME NEW m \in Messages, FetchTime(m) PROVE DeliveryIInv'
    BY <2>4 DEF FetchTime, Sending
  <2>5. ASSUME NEW m \in Messages, FetchAck(m) PROVE DeliveryIInv'
    BY <2>5 DEF FetchAck, netVars, Sending
  <2>6. ASSUME NEW m \in Messages, Lose(m) PROVE DeliveryIInv'
    BY <2>6 DEF Lose, Sending
  <2>7. ASSUME NEW m \in Messages, NEW again \in BOOLEAN, Arrive(m, again) PROVE DeliveryIInv'
    BY <2>7 DEF Arrive, Sending
  <2>8. ASSUME NEW m \in Messages, NEW again \in BOOLEAN, Ack(m, again) PROVE DeliveryIInv'
    BY <2>8 DEF Ack, Sending
  <2>9. CASE Tick
    BY <2>9 DEF Tick, netVars, Sending
  <2>10. CASE Remove
    BY <2>10 DEF Remove, netVars, Sending
  <2>11. CASE LogIn
    BY <2>11 DEF LogIn, netVars, Sending
  <2> QED BY <2>1, <2>2, <2>3, <2>4, <2>5, <2>6, <2>7, <2>8, <2>9, <2>10, <2>11 DEF DeliveryNext
<1>3. DeliveryIInv => AckedReceived
  OBVIOUS
<1> QED BY <1>1, <1>2, <1>3, PTL

-----------------------------------------------------------------------------
(* GameStats.  The units of a connection that were not handled come in their *)
(* order and after every command that was; a command is answered, waits for  *)
(* the others of its buffer, or is still to be handled, and no two of that;  *)
(* and a value that was acknowledged is in the database.  A client that      *)
(* waits has at most one command without an answer.  The invariant is stated *)
(* of the values of one connection: the commands sent, the units on the wire *)
(* and read, the answers written and received, and the row.                  *)

CommandNames == {"ka", "auth", "authp", "getpd", "setpd"}
Unit == Nat \X {"text", "final"}
Place(u) == 2 * u[1] + (IF u[2] = "final" THEN 1 ELSE 0)
Row == {NoRow} \cup (GConn \X Nat)
Reply == Nat \X ({"ok", "refused"} \cup Row)

KeysOf(s) == {s[i][1] : i \in DOMAIN s}

ConnTypeOK(sent, wir, read, write, run, ans) ==
    /\ sent \in Seq(CommandNames) /\ wir \in Seq(Unit) /\ read \in Seq(Unit)
    /\ write \in Seq(Reply) /\ ans \in Seq(Reply) /\ run \subseteq Nat

InOrder(wir, read) ==
    /\ \A i, j \in DOMAIN read : i < j => Place(read[i]) < Place(read[j])
    /\ \A i, j \in DOMAIN wir : i < j => Place(wir[i]) < Place(wir[j])
    /\ \A i \in DOMAIN read, j \in DOMAIN wir : Place(read[i]) < Place(wir[j])

\* The commands that were handled were sent, and before what was not.
Behind(sent, K, units) ==
    /\ \A k \in K : k <= Len(sent) /\ k >= 1
    /\ \A i \in DOMAIN units : units[i][1] >= 1 /\ units[i][1] <= Len(sent) /\ \A k \in K : k < units[i][1]

Distinct(s) == \A i, j \in DOMAIN s : i # j => s[i][1] # s[j][1]

Once(write, run, ans) ==
    /\ Distinct(write) /\ Distinct(ans)
    /\ \A i \in DOMAIN ans, j \in DOMAIN write : ans[i][1] # write[j][1]
    /\ \A i \in DOMAIN ans : ans[i][1] \notin run
    /\ \A i \in DOMAIN write : write[i][1] \notin run

AcksStored(sent, s, pd) ==
    \A i \in DOMAIN s : sent[s[i][1]] = "setpd" /\ s[i][2] = "ok" => pd # NoRow

OneByOne(sent, write, ans) ==
    /\ write = <<>>
    /\ Len(ans) <= Len(sent) /\ Len(sent) <= Len(ans) + 1
    /\ \A i \in DOMAIN ans : ans[i][1] = i
    /\ \A i, j \in DOMAIN ans :
         i < j /\ sent[i] = "setpd" /\ ans[i][2] = "ok" /\ sent[j] = "getpd" => ans[j][2] # NoRow

ConnOK(sent, wir, read, write, run, ans, pd, waits) ==
    /\ ConnTypeOK(sent, wir, read, write, run, ans)
    /\ InOrder(wir, read)
    /\ Behind(sent, run \cup KeysOf(write) \cup KeysOf(ans), wir)
    /\ Behind(sent, run \cup KeysOf(write) \cup KeysOf(ans), read)
    /\ Once(write, run, ans)
    /\ AcksStored(sent, write, pd) /\ AcksStored(sent, ans, pd)
    /\ waits => OneByOne(sent, write, ans)

Session == [game : BOOLEAN, auth : BOOLEAN, read : Seq(Unit), write : Seq(Reply)]

StatsTypeOK ==
    /\ gsent \in [GConn -> Seq(CommandNames)] /\ gwire \in [GConn -> Seq(Unit)]
    /\ gs \in [GConn -> Session] /\ grun \in [GConn -> SUBSET Nat]
    /\ got \in [GConn -> Seq(Reply)] /\ pdata \in Row

StatsIInv ==
    /\ StatsTypeOK
    /\ \A c \in GConn : ConnOK(gsent[c], gwire[c], gs[c].read, gs[c].write, grun[c], got[c], pdata, c \notin GBatching)

\* A command is sent: its units go to the end of the wire.
LEMMA ConnSend ==
    ASSUME NEW sent, NEW wir, NEW read, NEW write, NEW run, NEW ans, NEW pd, NEW waits \in BOOLEAN,
           ConnOK(sent, wir, read, write, run, ans, pd, waits),
           NEW cmd \in CommandNames, waits => Len(ans) = Len(sent),
           NEW k, k = Len(sent) + 1
    PROVE  ConnOK(Append(sent, cmd), wir \o <<<<k, "text">>, <<k, "final">>>>, read, write, run, ans, pd, waits)
<1>1. /\ sent \in Seq(CommandNames) /\ wir \in Seq(Unit) /\ read \in Seq(Unit)
      /\ write \in Seq(Reply) /\ ans \in Seq(Reply) /\ run \subseteq Nat
  BY DEF ConnOK, ConnTypeOK
<1>2. PICK sent2 : sent2 = Append(sent, cmd)
  OBVIOUS
<1>3. /\ sent2 \in Seq(CommandNames) /\ Len(sent2) = k /\ k \in Nat
      /\ \A i \in 1..Len(sent) : sent2[i] = sent[i]
  BY <1>1, <1>2
<1>4. PICK two : two = <<<<k, "text">>, <<k, "final">>>>
  OBVIOUS
<1>5. two \in Seq(Unit) /\ Len(two) = 2 /\ two[1] = <<k, "text">> /\ two[2] = <<k, "final">>
  BY <1>3, <1>4 DEF Unit
<1>6. PICK wir2 : wir2 = wir \o two
  OBVIOUS
<1>7. /\ wir2 \in Seq(Unit) /\ Len(wir2) = Len(wir) + 2
      /\ \A i \in 1..Len(wir) : wir2[i] = wir[i]
      /\ wir2[Len(wir) + 1] = <<k, "text">> /\ wir2[Len(wir) + 2] = <<k, "final">>
  <2>1. wir2 \in Seq(Unit) /\ Len(wir2) = Len(wir) + Len(two)
    BY <1>1, <1>5, <1>6, ConcatProperties
  <2>2. \A i \in 1..(Len(wir) + Len(two)) : wir2[i] = IF i <= Len(wir) THEN wir[i] ELSE two[i - Len(wir)]
    BY <1>1, <1>5, <1>6, ConcatProperties
  <2>3. Len(wir2) = Len(wir) + 2 /\ Len(wir) \in Nat
    BY <1>1, <1>5, <2>1
  <2>4. wir2[Len(wir) + 1] = two[1]
    BY <1>5, <2>2, <2>3
  <2>5. wir2[Len(wir) + 2] = two[2]
    BY <1>5, <2>2, <2>3
  <2> QED BY <1>5, <2>1, <2>2, <2>3, <2>4, <2>5
<1>8. DOMAIN wir = 1..Len(wir) /\ DOMAIN wir2 = 1..(Len(wir) + 2) /\ Len(wir) \in Nat
  BY <1>1, <1>7
<1>9. Place(<<k, "text">>) = 2 * k /\ Place(<<k, "final">>) = 2 * k + 1
  BY DEF Place
<1>10. \A u \in Unit : u[1] <= Len(sent) => Place(u) < 2 * k /\ Place(u) \in Nat
  BY <1>1 DEF Unit, Place
<1>11. \A i \in DOMAIN read : read[i] \in Unit /\ read[i][1] >= 1 /\ read[i][1] <= Len(sent)
  BY <1>1 DEF ConnOK, Behind
<1>12. \A i \in DOMAIN wir : wir[i] \in Unit /\ wir[i][1] >= 1 /\ wir[i][1] <= Len(sent)
  BY <1>1 DEF ConnOK, Behind
<1>13. \A i \in DOMAIN wir2 :
          \/ i \in DOMAIN wir /\ wir2[i] = wir[i]
          \/ i = Len(wir) + 1 /\ wir2[i] = <<k, "text">>
          \/ i = Len(wir) + 2 /\ wir2[i] = <<k, "final">>
  BY <1>7, <1>8
<1>14. InOrder(wir2, read)
  <2>1. \A i, j \in DOMAIN wir2 : i < j => Place(wir2[i]) < Place(wir2[j])
    <3> SUFFICES ASSUME NEW i \in DOMAIN wir2, NEW j \in DOMAIN wir2, i < j
                 PROVE  Place(wir2[i]) < Place(wir2[j])
      OBVIOUS
    <3>1. CASE j \in DOMAIN wir
      <4>1. i \in DOMAIN wir
        BY <1>8, <3>1
      <4> QED BY <1>13, <3>1, <4>1, <1>8 DEF ConnOK, InOrder
    <3>2. CASE j \notin DOMAIN wir /\ i \in DOMAIN wir
      <4>1. Place(wir2[j]) = 2 * k \/ Place(wir2[j]) = 2 * k + 1
        BY <1>9, <1>13, <3>2
      <4>2. Place(wir2[i]) < 2 * k /\ Place(wir2[i]) \in Nat
        BY <1>8, <1>10, <1>12, <1>13, <3>2
      <4> QED BY <1>3, <4>1, <4>2
    <3>3. CASE j \notin DOMAIN wir /\ i \notin DOMAIN wir
      <4>1. Place(wir2[i]) = 2 * k /\ Place(wir2[j]) = 2 * k + 1
        BY <1>8, <1>9, <1>13, <3>3
      <4> QED BY <1>3, <4>1
    <3> QED BY <3>1, <3>2, <3>3
  <2>2. ASSUME NEW i \in DOMAIN read, NEW j \in DOMAIN wir2
        PROVE  Place(read[i]) < Place(wir2[j])
    <3>1. CASE j \in DOMAIN wir
      BY <1>8, <1>13, <3>1 DEF ConnOK, InOrder
    <3>2. CASE j \notin DOMAIN wir
      <4>1. Place(wir2[j]) = 2 * k \/ Place(wir2[j]) = 2 * k + 1
        BY <1>9, <1>13, <3>2
      <4>2. Place(read[i]) < 2 * k /\ Place(read[i]) \in Nat
        BY <1>10, <1>11
      <4> QED BY <1>3, <4>1, <4>2
    <3> QED BY <3>1, <3>2
  <2> QED BY <2>1, <2>2 DEF ConnOK, InOrder
<1> DEFINE K == run \cup KeysOf(write) \cup KeysOf(ans)
<1>15. \A x \in K : x \in Nat /\ x >= 1 /\ x <= Len(sent)
  <2>1. \A x \in K : x >= 1 /\ x <= Len(sent)
    BY DEF ConnOK, Behind
  <2>2. \A i \in DOMAIN write : write[i][1] \in Nat
    BY <1>1 DEF Reply
  <2>3. \A i \in DOMAIN ans : ans[i][1] \in Nat
    BY <1>1 DEF Reply
  <2> QED BY <1>1, <2>1, <2>2, <2>3 DEF KeysOf
<1>16. Behind(sent2, K, read)
  <2>1. \A i \in DOMAIN read : \A x \in K : x < read[i][1]
    BY DEF ConnOK, Behind
  <2>2. \A i \in DOMAIN read : read[i][1] \in Nat
    BY <1>1 DEF Unit
  <2> HIDE DEF K
  <2>3. Len(sent) \in Nat
    BY <1>1
  <2> QED BY <1>3, <1>11, <1>15, <2>1, <2>2, <2>3 DEF Behind
<1>17. Behind(sent2, K, wir2)
  <2>1. \A i \in DOMAIN wir : \A x \in K : x < wir[i][1]
    BY DEF ConnOK, Behind
  <2>2. \A i \in DOMAIN wir : wir[i][1] \in Nat
    BY <1>1 DEF Unit
  <2> HIDE DEF K
  <2>3. Len(sent) \in Nat
    BY <1>1
  <2> QED BY <1>3, <1>12, <1>13, <1>15, <2>1, <2>2, <2>3 DEF Behind
<1>18. AcksStored(sent2, write, pd) /\ AcksStored(sent2, ans, pd)
  <2>1. \A x \in K : sent2[x] = sent[x]
    <3> HIDE DEF K
    <3>1. Len(sent) \in Nat
      BY <1>1
    <3> QED BY <1>3, <1>15, <3>1
  <2>2. \A i \in DOMAIN write : write[i][1] \in K
    BY DEF KeysOf
  <2>3. \A i \in DOMAIN ans : ans[i][1] \in K
    BY DEF KeysOf
  <2> HIDE DEF K
  <2> QED BY <2>1, <2>2, <2>3 DEF ConnOK, AcksStored
<1>19. waits => OneByOne(sent2, write, ans)
  <2> SUFFICES ASSUME waits PROVE OneByOne(sent2, write, ans)
    OBVIOUS
  <2>1. OneByOne(sent, write, ans)
    BY DEF ConnOK
  <2>2. Len(ans) \in Nat /\ Len(sent) \in Nat /\ DOMAIN ans = 1..Len(ans)
    BY <1>1
  <2>3. \A i \in DOMAIN ans : sent2[i] = sent[i]
    BY <1>3, <2>2
  <2> QED BY <1>3, <2>1, <2>2, <2>3 DEF OneByOne
<1>20. ConnTypeOK(sent2, wir2, read, write, run, ans)
  BY <1>1, <1>3, <1>7 DEF ConnTypeOK
<1>21. ConnOK(sent2, wir2, read, write, run, ans, pd, waits)
  BY <1>14, <1>16, <1>17, <1>18, <1>19, <1>20 DEF ConnOK
<1> QED BY <1>2, <1>4, <1>6, <1>21

LEMMA Places ==
    ASSUME NEW u \in Unit
    PROVE  /\ u[1] \in Nat /\ Place(u) \in Nat /\ 2 * u[1] <= Place(u) /\ Place(u) <= 2 * u[1] + 1
           /\ u[2] = "final" => Place(u) = 2 * u[1] + 1
BY DEF Unit, Place

\* A connection's buffer and stream when n units of the stream have been read.
Splits(read, wir, n, buf, rest) ==
    buf = read \o SubSeq(wir, 1, n) /\ rest = SubSeq(wir, n + 1, Len(wir))

\* The answer v to a command is the row when the command is getpd.
Answers(cmd, v, pd) == cmd = "getpd" => v = pd

\* A fragment is read: it is dropped, kept, or completes a buffer that is handled.
LEMMA ConnRead ==
    ASSUME NEW sent, NEW wir, NEW read, NEW write, NEW ans, NEW pd, NEW waits \in BOOLEAN,
           ConnOK(sent, wir, read, write, {}, ans, pd, waits),
           NEW n \in 1..Len(wir), NEW buf, NEW rest, Splits(read, wir, n, buf, rest)
    PROVE  /\ buf \in Seq(Unit) /\ rest \in Seq(Unit) /\ ParseGameStatsMessage(buf) \subseteq Nat
           /\ ConnOK(sent, rest, read, write, {}, ans, pd, waits)
           /\ ConnOK(sent, rest, buf, write, {}, ans, pd, waits)
           /\ \/ buf[Len(buf)][2] # "final"
              \/ ConnOK(sent, rest, <<>>, write, ParseGameStatsMessage(buf), ans, pd, waits)
<1>1. /\ sent \in Seq(CommandNames) /\ wir \in Seq(Unit) /\ read \in Seq(Unit)
      /\ write \in Seq(Reply) /\ ans \in Seq(Reply)
  BY DEF ConnOK, ConnTypeOK
<1>0. buf = read \o SubSeq(wir, 1, n) /\ rest = SubSeq(wir, n + 1, Len(wir))
  BY DEF Splits
<1>2. PICK x : x = SubSeq(wir, 1, n)
  OBVIOUS
<1>3. /\ x \in Seq(Unit) /\ Len(x) = n /\ \A i \in 1..n : x[i] = wir[i]
      /\ rest \in Seq(Unit) /\ Len(rest) = Len(wir) - n /\ \A i \in 1..(Len(wir) - n) : rest[i] = wir[n + i]
  <2>1. n \in 0..Len(wir)
    OBVIOUS
  <2> QED BY <1>0, <1>1, <1>2, <2>1, Cut
<1>4. /\ buf \in Seq(Unit) /\ Len(buf) = Len(read) + n
      /\ \A i \in 1..(Len(read) + n) : buf[i] = IF i <= Len(read) THEN read[i] ELSE x[i - Len(read)]
  <2>1. buf = read \o x /\ x \in Seq(Unit) /\ Len(x) = n
    BY <1>0, <1>2, <1>3
  <2>2. /\ read \o x \in Seq(Unit) /\ Len(read \o x) = Len(read) + Len(x)
        /\ \A i \in 1..(Len(read) + Len(x)) :
               (read \o x)[i] = IF i <= Len(read) THEN read[i] ELSE x[i - Len(read)]
    BY <1>1, <2>1, ConcatProperties, Zenon
  <2> QED BY <2>1, <2>2, Zenon
<1>5. /\ Len(read) \in Nat /\ Len(wir) \in Nat /\ n \in Nat /\ n >= 1 /\ n <= Len(wir)
      /\ DOMAIN read = 1..Len(read) /\ DOMAIN wir = 1..Len(wir)
      /\ DOMAIN buf = 1..(Len(read) + n) /\ DOMAIN rest = 1..(Len(wir) - n)
  BY <1>1, <1>3, <1>4
<1>a. PICK a \in Nat, w \in Nat : a = Len(read) /\ w = Len(wir)
  BY <1>5, Zenon
<1>b. /\ n \in Nat /\ n >= 1 /\ n <= w
      /\ DOMAIN read = 1..a /\ DOMAIN wir = 1..w /\ DOMAIN buf = 1..(a + n) /\ DOMAIN rest = 1..(w - n)
      /\ \A i \in 1..(a + n) : buf[i] = IF i <= a THEN read[i] ELSE x[i - a]
      /\ \A i \in 1..n : x[i] = wir[i]
      /\ \A i \in 1..(w - n) : rest[i] = wir[n + i]
  BY <1>3, <1>4, <1>5, <1>a, Zenon
<1>6. \A i \in DOMAIN buf : \/ i \in DOMAIN read /\ buf[i] = read[i]
                            \/ i > a /\ i - a \in DOMAIN wir /\ i - a <= n /\ buf[i] = wir[i - a]
  <2> SUFFICES ASSUME NEW i \in 1..(a + n), i > a PROVE i - a \in 1..w /\ i - a \in 1..n /\ buf[i] = x[i - a]
    BY <1>b
  <2> QED BY <1>b
<1>7. \A i \in DOMAIN rest : n + i \in DOMAIN wir /\ rest[i] = wir[n + i]
  <2> SUFFICES ASSUME NEW i \in 1..(w - n) PROVE n + i \in 1..w
    BY <1>b
  <2> QED BY <1>b
<1> DEFINE K == {} \cup KeysOf(write) \cup KeysOf(ans)
<1>8. /\ \A i \in DOMAIN buf : buf[i] \in Unit /\ buf[i][1] \in Nat /\ Place(buf[i]) \in Nat
      /\ \A i \in DOMAIN rest : rest[i] \in Unit /\ rest[i][1] \in Nat /\ Place(rest[i]) \in Nat
  <2>1. (\A i \in DOMAIN buf : buf[i] \in Unit) /\ \A i \in DOMAIN rest : rest[i] \in Unit
    BY <1>3, <1>4, Elements
  <2> QED BY <2>1, Places
<1>9. Behind(sent, K, buf) /\ Behind(sent, K, rest)
  <2>1. Behind(sent, K, read) /\ Behind(sent, K, wir)
    BY DEF ConnOK
  <2> HIDE DEF K
  <2> QED BY <1>6, <1>7, <2>1 DEF Behind
<1>10. InOrder(rest, buf)
  <2>0. InOrder(wir, read)
    BY DEF ConnOK
  <2>1. ASSUME NEW i \in DOMAIN buf, NEW j \in DOMAIN buf, i < j
        PROVE  Place(buf[i]) < Place(buf[j])
    <3>1. CASE j \in DOMAIN read
      <4>1. i \in DOMAIN read
        BY <1>b, <2>1, <3>1
      <4>2. buf[i] = read[i] /\ buf[j] = read[j]
        BY <1>b, <1>6, <3>1, <4>1
      <4> QED BY <2>0, <2>1, <3>1, <4>1, <4>2 DEF InOrder
    <3>2. CASE j \notin DOMAIN read /\ i \in DOMAIN read
      <4>1. buf[i] = read[i] /\ j - a \in DOMAIN wir /\ buf[j] = wir[j - a]
        BY <1>b, <1>6, <3>2
      <4> QED BY <2>0, <3>2, <4>1 DEF InOrder
    <3>3. CASE i \notin DOMAIN read
      <4>1. j \notin DOMAIN read
        BY <1>b, <2>1, <3>3
      <4>2. /\ i - a \in DOMAIN wir /\ buf[i] = wir[i - a]
            /\ j - a \in DOMAIN wir /\ buf[j] = wir[j - a]
        BY <1>6, <3>3, <4>1
      <4>3. i - a < j - a
        BY <1>b, <2>1
      <4> QED BY <2>0, <4>2, <4>3 DEF InOrder
    <3> QED BY <3>1, <3>2, <3>3
  <2>2. ASSUME NEW i \in DOMAIN rest, NEW j \in DOMAIN rest, i < j
        PROVE  Place(rest[i]) < Place(rest[j])
    <3>1. n + i < n + j
      BY <1>b, <2>2
    <3> QED BY <1>7, <2>0, <3>1 DEF InOrder
  <2>3. ASSUME NEW i \in DOMAIN buf, NEW j \in DOMAIN rest
        PROVE  Place(buf[i]) < Place(rest[j])
    <3>1. CASE i \in DOMAIN read
      <4>1. buf[i] = read[i]
        BY <1>b, <1>6, <3>1
      <4> QED BY <1>7, <2>0, <3>1, <4>1 DEF InOrder
    <3>2. CASE i \notin DOMAIN read
      <4>1. i - a \in DOMAIN wir /\ i - a <= n /\ buf[i] = wir[i - a]
        BY <1>6, <3>2
      <4>2. i - a < n + j
        BY <1>b, <4>1
      <4> QED BY <1>7, <2>0, <4>1, <4>2 DEF InOrder
    <3> QED BY <3>1, <3>2
  <2> QED BY <2>1, <2>2, <2>3 DEF InOrder
<1>11. InOrder(rest, read)
  <2>1. \A i \in DOMAIN read : i \in DOMAIN buf /\ buf[i] = read[i]
    BY <1>b, <1>6
  <2> QED BY <1>10, <2>1 DEF InOrder
<1>12. ConnOK(sent, rest, buf, write, {}, ans, pd, waits)
  BY <1>1, <1>3, <1>4, <1>9, <1>10 DEF ConnOK, ConnTypeOK
<1>13. ConnOK(sent, rest, read, write, {}, ans, pd, waits)
  BY <1>1, <1>3, <1>9, <1>11 DEF ConnOK, ConnTypeOK
<1>14. PICK run : run = ParseGameStatsMessage(buf)
  OBVIOUS
<1>15. \A k \in run : \E i \in DOMAIN buf : k = buf[i][1]
  BY <1>14 DEF ParseGameStatsMessage
<1>16. run \subseteq Nat
  BY <1>8, <1>15
<1>17. ASSUME buf[Len(buf)][2] = "final"
       PROVE  ConnOK(sent, rest, <<>>, write, run, ans, pd, waits)
  <2>0. PICK l \in Nat : l = a + n
    BY <1>b
  <2>1. l \in DOMAIN buf /\ buf[l] \in Unit /\ buf[l][2] = "final"
    BY <1>4, <1>8, <1>17, <1>a, <1>b, <2>0
  <2>2. Place(buf[l]) = 2 * buf[l][1] + 1
    BY <2>1, Places
  <2>3. \A i \in DOMAIN buf : buf[i][1] <= buf[l][1]
    <3> SUFFICES ASSUME NEW i \in DOMAIN buf PROVE buf[i][1] <= buf[l][1]
      OBVIOUS
    <3>1. i = l \/ Place(buf[i]) < Place(buf[l])
      <4>1. i = l \/ i < l
        <5>1. i \in 1..l
          BY <1>b, <2>0, Zenon
        <5> QED BY <5>1
      <4> QED BY <1>10, <2>1, <4>1 DEF InOrder
    <3>2. 2 * buf[i][1] <= Place(buf[i])
      BY <1>8, Places
    <3>3. PICK x1 \in Nat, x2 \in Nat, y1 \in Nat, y2 \in Nat :
             x1 = buf[i][1] /\ x2 = Place(buf[i]) /\ y1 = buf[l][1] /\ y2 = Place(buf[l])
      BY <1>8, <2>1, Zenon
    <3>4. 2 * x1 <= x2 /\ y2 = 2 * y1 + 1 /\ (x1 = y1 \/ x2 < y2)
      BY <2>2, <3>1, <3>2, <3>3, Zenon
    <3>5. x1 <= y1
      BY <3>4
    <3> QED BY <3>3, <3>5, Zenon
  <2>4. \A j \in DOMAIN rest : buf[l][1] < rest[j][1]
    <3> SUFFICES ASSUME NEW j \in DOMAIN rest PROVE buf[l][1] < rest[j][1]
      OBVIOUS
    <3>1. Place(buf[l]) < Place(rest[j])
      BY <1>10, <2>1 DEF InOrder
    <3>2. Place(rest[j]) <= 2 * rest[j][1] + 1
      BY <1>8, Places
    <3>3. PICK x1 \in Nat, x2 \in Nat, y1 \in Nat, y2 \in Nat :
             x1 = rest[j][1] /\ x2 = Place(rest[j]) /\ y1 = buf[l][1] /\ y2 = Place(buf[l])
      BY <1>8, <2>1, Zenon
    <3>4. x2 <= 2 * x1 + 1 /\ y2 = 2 * y1 + 1 /\ y2 < x2
      BY <2>2, <3>1, <3>2, <3>3, Zenon
    <3>5. y1 < x1
      BY <3>4
    <3> QED BY <3>3, <3>5, Zenon
  <2>5. \A k \in run : \A j \in DOMAIN rest : k < rest[j][1]
    <3> SUFFICES ASSUME NEW k \in run, NEW j \in DOMAIN rest PROVE k < rest[j][1]
      OBVIOUS
    <3>1. PICK i \in DOMAIN buf : k = buf[i][1]
      BY <1>15
    <3>2. PICK x1 \in Nat, y1 \in Nat, z1 \in Nat : x1 = buf[i][1] /\ y1 = buf[l][1] /\ z1 = rest[j][1]
      BY <1>8, <2>1, Zenon
    <3>3. x1 <= y1 /\ y1 < z1
      BY <2>3, <2>4, <3>2, Zenon
    <3>4. x1 < z1
      BY <3>3
    <3> QED BY <3>1, <3>2, <3>4, Zenon
  <2>6. \A k \in run : k >= 1 /\ k <= Len(sent) /\ k \notin K
    <3> SUFFICES ASSUME NEW k \in run PROVE k >= 1 /\ k <= Len(sent) /\ k \notin K
      OBVIOUS
    <3>1. PICK i \in DOMAIN buf : k = buf[i][1]
      BY <1>15
    <3>2. k >= 1 /\ k <= Len(sent) /\ \A y \in K : y < k
      BY <1>9, <3>1 DEF Behind
    <3>3. ~(k < k)
      BY <1>16
    <3> QED BY <3>2, <3>3
  <2>7. Behind(sent, run \cup KeysOf(write) \cup KeysOf(ans), rest)
    BY <1>9, <2>5, <2>6 DEF Behind
  <2>8. DOMAIN <<>> = {} /\ <<>> \in Seq(Unit)
    OBVIOUS
  <2>9. Behind(sent, run \cup KeysOf(write) \cup KeysOf(ans), <<>>)
    BY <2>7, <2>8 DEF Behind
  <2>10. InOrder(rest, <<>>)
    BY <1>10, <2>8 DEF InOrder
  <2>11. (\A i \in DOMAIN write : write[i][1] \in K) /\ \A i \in DOMAIN ans : ans[i][1] \in K
    BY DEF KeysOf
  <2>12. Once(write, run, ans)
    <3> HIDE DEF K
    <3>1. Once(write, {}, ans)
      BY DEF ConnOK
    <3> QED BY <2>6, <2>11, <3>1 DEF Once
  <2>13. ConnTypeOK(sent, rest, <<>>, write, run, ans)
    BY <1>1, <1>3, <1>16, <2>8 DEF ConnTypeOK
  <2> QED BY <2>7, <2>9, <2>10, <2>12, <2>13 DEF ConnOK
<1> QED BY <1>3, <1>4, <1>12, <1>13, <1>14, <1>16, <1>17

\* The connection is closed, or the call ends by a panic: what was to be handled
\* is not.
LEMMA ConnStop ==
    ASSUME NEW sent, NEW wir, NEW read, NEW write, NEW run, NEW ans, NEW pd, NEW waits \in BOOLEAN,
           ConnOK(sent, wir, read, write, run, ans, pd, waits), NEW left \in SUBSET run
    PROVE  /\ ConnOK(sent, wir, <<>>, <<>>, run, ans, pd, waits)
           /\ ConnOK(sent, wir, read, <<>>, run, ans, pd, waits)
           /\ ConnOK(sent, wir, read, write, left, ans, pd, waits)
<1>1. DOMAIN <<>> = {} /\ <<>> \in Seq(Unit) /\ <<>> \in Seq(Reply)
  OBVIOUS
<1>2. /\ ConnTypeOK(sent, wir, read, write, run, ans) /\ InOrder(wir, read) /\ Once(write, run, ans)
      /\ Behind(sent, run \cup KeysOf(write) \cup KeysOf(ans), wir)
      /\ Behind(sent, run \cup KeysOf(write) \cup KeysOf(ans), read)
      /\ AcksStored(sent, write, pd) /\ AcksStored(sent, ans, pd)
      /\ waits => OneByOne(sent, write, ans)
  BY DEF ConnOK
<1>3. ConnOK(sent, wir, read, write, left, ans, pd, waits)
  <2>1. Behind(sent, left \cup KeysOf(write) \cup KeysOf(ans), wir) /\ Behind(sent, left \cup KeysOf(write) \cup KeysOf(ans), read)
    BY <1>2 DEF Behind
  <2>2. Once(write, left, ans) /\ ConnTypeOK(sent, wir, read, write, left, ans)
    BY <1>2 DEF Once, ConnTypeOK
  <2> QED BY <1>2, <2>1, <2>2 DEF ConnOK
<1>4. ConnOK(sent, wir, <<>>, <<>>, run, ans, pd, waits) /\ ConnOK(sent, wir, read, <<>>, run, ans, pd, waits)
  <2>1. KeysOf(<<>>) = {}
    BY <1>1 DEF KeysOf
  <2>2. /\ Behind(sent, run \cup KeysOf(<<>>) \cup KeysOf(ans), wir)
        /\ Behind(sent, run \cup KeysOf(<<>>) \cup KeysOf(ans), read)
        /\ Behind(sent, run \cup KeysOf(<<>>) \cup KeysOf(ans), <<>>)
    BY <1>1, <1>2, <2>1 DEF Behind
  <2>3. InOrder(wir, <<>>) /\ Once(<<>>, run, ans) /\ AcksStored(sent, <<>>, pd)
    BY <1>1, <1>2 DEF InOrder, Once, Distinct, AcksStored
  <2>4. ConnTypeOK(sent, wir, <<>>, <<>>, run, ans) /\ ConnTypeOK(sent, wir, read, <<>>, run, ans)
    BY <1>1, <1>2 DEF ConnTypeOK
  <2>5. waits => OneByOne(sent, <<>>, ans)
    BY <1>2 DEF OneByOne
  <2> QED BY <1>2, <2>2, <2>3, <2>4, <2>5 DEF ConnOK
<1> QED BY <1>3, <1>4

\* The row is never removed.
LEMMA ConnRow ==
    ASSUME NEW sent, NEW wir, NEW read, NEW write, NEW run, NEW ans, NEW pd, NEW pd2, NEW waits \in BOOLEAN,
           ConnOK(sent, wir, read, write, run, ans, pd, waits), pd # NoRow => pd2 # NoRow
    PROVE  ConnOK(sent, wir, read, write, run, ans, pd2, waits)
<1>1. AcksStored(sent, write, pd2) /\ AcksStored(sent, ans, pd2)
  BY DEF ConnOK, AcksStored
<1> QED BY <1>1 DEF ConnOK

\* An answer is written.
LEMMA ConnWrite ==
    ASSUME NEW sent, NEW wir, NEW read, NEW write, NEW run, NEW ans, NEW pd, NEW waits \in BOOLEAN,
           ConnOK(sent, wir, read, write, run, ans, pd, waits),
           NEW k \in run, NEW v \in {"ok", "refused"} \cup Row,
           sent[k] = "setpd" /\ v = "ok" => pd # NoRow
    PROVE  ConnOK(sent, wir, read, Append(write, <<k, v>>), run \ {k}, ans, pd, FALSE)
<1>1. /\ sent \in Seq(CommandNames) /\ wir \in Seq(Unit) /\ read \in Seq(Unit)
      /\ write \in Seq(Reply) /\ ans \in Seq(Reply) /\ run \subseteq Nat
  BY DEF ConnOK, ConnTypeOK
<1>2. PICK a \in Reply : a = <<k, v>>
  BY <1>1 DEF Reply
<1>3. PICK w : w = Append(write, a)
  OBVIOUS
<1>4. /\ w \in Seq(Reply) /\ DOMAIN w = 1..(Len(write) + 1) /\ DOMAIN write = 1..Len(write) /\ Len(write) \in Nat
      /\ \A i \in 1..Len(write) : w[i] = write[i]
      /\ w[Len(write) + 1] = a
  BY <1>1, <1>3
<1>5. \A i \in DOMAIN w : (i \in DOMAIN write /\ w[i] = write[i]) \/ (i = Len(write) + 1 /\ w[i] = a)
  BY <1>4
<1>6. a[1] = k /\ a[2] = v
  BY <1>2
<1>7. KeysOf(w) \subseteq KeysOf(write) \cup {k}
  BY <1>5, <1>6 DEF KeysOf
<1> DEFINE K  == run \cup KeysOf(write) \cup KeysOf(ans)
           K2 == (run \ {k}) \cup KeysOf(w) \cup KeysOf(ans)
<1>8. K2 \subseteq K
  BY <1>7
<1>9. Behind(sent, K2, wir) /\ Behind(sent, K2, read)
  <2>1. Behind(sent, K, wir) /\ Behind(sent, K, read)
    BY DEF ConnOK
  <2> HIDE DEF K, K2
  <2> QED BY <1>8, <2>1 DEF Behind
<1>10. Once(w, run \ {k}, ans)
  <2>1. /\ Distinct(write) /\ Distinct(ans)
        /\ \A i \in DOMAIN ans, j \in DOMAIN write : ans[i][1] # write[j][1]
        /\ \A i \in DOMAIN ans : ans[i][1] \notin run
        /\ \A i \in DOMAIN write : write[i][1] \notin run
    BY DEF ConnOK, Once
  <2>2. Distinct(w)
    BY <1>5, <1>6, <2>1 DEF Distinct
  <2>3. \A i \in DOMAIN ans, j \in DOMAIN w : ans[i][1] # w[j][1]
    BY <1>5, <1>6, <2>1
  <2>4. \A i \in DOMAIN w : w[i][1] \notin run \ {k}
    BY <1>5, <1>6, <2>1
  <2> QED BY <2>1, <2>2, <2>3, <2>4 DEF Once
<1>11. AcksStored(sent, w, pd)
  BY <1>5, <1>6 DEF ConnOK, AcksStored
<1>12. ConnTypeOK(sent, wir, read, w, run \ {k}, ans)
  BY <1>1, <1>4 DEF ConnTypeOK
<1>13. ConnOK(sent, wir, read, w, run \ {k}, ans, pd, FALSE)
  BY <1>9, <1>10, <1>11, <1>12 DEF ConnOK
<1> QED BY <1>2, <1>3, <1>13

\* The WriteBuffer is sent.
LEMMA ConnFlush ==
    ASSUME NEW sent, NEW wir, NEW read, NEW write, NEW run, NEW ans, NEW pd,
           ConnOK(sent, wir, read, write, run, ans, pd, FALSE)
    PROVE  ConnOK(sent, wir, read, <<>>, run, ans \o write, pd, FALSE)
<1>1. /\ sent \in Seq(CommandNames) /\ wir \in Seq(Unit) /\ read \in Seq(Unit)
      /\ write \in Seq(Reply) /\ ans \in Seq(Reply) /\ run \subseteq Nat
  BY DEF ConnOK, ConnTypeOK
<1>2. PICK b : b = ans \o write
  OBVIOUS
<1>3. /\ b \in Seq(Reply) /\ Len(b) = Len(ans) + Len(write)
      /\ \A i \in 1..(Len(ans) + Len(write)) : b[i] = IF i <= Len(ans) THEN ans[i] ELSE write[i - Len(ans)]
  BY <1>1, <1>2, ConcatProperties
<1>4. PICK m \in Nat, l \in Nat : m = Len(ans) /\ l = Len(write)
  BY <1>1
<1>5. /\ DOMAIN ans = 1..m /\ DOMAIN write = 1..l /\ DOMAIN b = 1..(m + l)
      /\ \A i \in 1..(m + l) : b[i] = IF i <= m THEN ans[i] ELSE write[i - m]
  BY <1>1, <1>3, <1>4, Elements
<1>6. \A i \in DOMAIN b : \/ i \in DOMAIN ans /\ b[i] = ans[i]
                          \/ i - m \in DOMAIN write /\ b[i] = write[i - m]
  <2> SUFFICES ASSUME NEW i \in 1..(m + l)
               PROVE  (i \in 1..m /\ i <= m) \/ (i - m \in 1..l /\ ~(i <= m))
    BY <1>5
  <2> QED BY <1>4
<1>7. \A i, j \in DOMAIN b : i # j => i - m # j - m
  BY <1>4, <1>5
<1>8. KeysOf(b) \subseteq KeysOf(ans) \cup KeysOf(write)
  BY <1>6 DEF KeysOf
<1>9. DOMAIN <<>> = {} /\ <<>> \in Seq(Reply)
  OBVIOUS
<1>10. KeysOf(<<>>) = {}
  BY <1>9 DEF KeysOf
<1> DEFINE K  == run \cup KeysOf(write) \cup KeysOf(ans)
           K2 == run \cup KeysOf(<<>>) \cup KeysOf(b)
<1>11. K2 \subseteq K
  BY <1>8, <1>10
<1>12. Behind(sent, K2, wir) /\ Behind(sent, K2, read)
  <2>1. Behind(sent, K, wir) /\ Behind(sent, K, read)
    BY DEF ConnOK
  <2> HIDE DEF K, K2
  <2> QED BY <1>11, <2>1 DEF Behind
<1>13. Once(<<>>, run, b)
  <2>1. /\ Distinct(write) /\ Distinct(ans)
        /\ \A i \in DOMAIN ans, j \in DOMAIN write : ans[i][1] # write[j][1]
        /\ \A i \in DOMAIN ans : ans[i][1] \notin run
        /\ \A i \in DOMAIN write : write[i][1] \notin run
    BY DEF ConnOK, Once
  <2>2. Distinct(b)
    BY <1>6, <1>7, <2>1 DEF Distinct
  <2>3. \A i \in DOMAIN b : b[i][1] \notin run
    BY <1>6, <2>1
  <2> QED BY <1>9, <2>2, <2>3 DEF Once, Distinct
<1>14. AcksStored(sent, b, pd) /\ AcksStored(sent, <<>>, pd)
  BY <1>6, <1>9 DEF ConnOK, AcksStored
<1>15. ConnTypeOK(sent, wir, read, <<>>, run, b)
  BY <1>1, <1>3, <1>9 DEF ConnTypeOK
<1>16. ConnOK(sent, wir, read, <<>>, run, b, pd, FALSE)
  BY <1>12, <1>13, <1>14, <1>15 DEF ConnOK
<1> QED BY <1>2, <1>16

\* A client that waits gets its answer at once.
LEMMA ConnWaits ==
    ASSUME NEW sent, NEW wir, NEW read, NEW write, NEW run, NEW ans, NEW pd,
           ConnOK(sent, wir, read, write, run, ans, pd, TRUE),
           NEW k \in run, NEW v \in {"ok", "refused"} \cup Row, Answers(sent[k], v, pd)
    PROVE  run = {k} /\ OneByOne(sent, <<>>, ans \o Append(write, <<k, v>>))
<1>1. /\ sent \in Seq(CommandNames) /\ ans \in Seq(Reply) /\ run \subseteq Nat
  BY DEF ConnOK, ConnTypeOK
<1>2. OneByOne(sent, write, ans)
  BY DEF ConnOK
<1>3. PICK m \in Nat, l \in Nat : m = Len(ans) /\ l = Len(sent) /\ m <= l /\ l <= m + 1
  BY <1>1, <1>2 DEF OneByOne
<1>4. DOMAIN ans = 1..m
  BY <1>1, <1>3
<1>5. \A x \in run : x = m + 1
  <2> SUFFICES ASSUME NEW x \in run PROVE x = m + 1
    OBVIOUS
  <2>1. x \in Nat /\ x >= 1 /\ x <= l
    BY <1>1, <1>3 DEF ConnOK, Behind
  <2>2. \A i \in DOMAIN ans : ans[i][1] # x
    BY DEF ConnOK, Once
  <2>3. \A i \in DOMAIN ans : i # x
    BY <1>2, <2>2 DEF OneByOne
  <2> QED BY <1>3, <1>4, <2>1, <2>3
<1>6. run = {k} /\ k = m + 1
  BY <1>5
<1>7. PICK a \in Reply : a = <<k, v>> /\ a[1] = k /\ a[2] = v
  <2>1. <<k, v>> \in Reply
    BY <1>1 DEF Reply
  <2> QED BY <2>1
<1>8. PICK w : w = Append(write, <<k, v>>)
  OBVIOUS
<1>9. w \in Seq(Reply) /\ Len(w) = 1 /\ w[1] = a
  <2>1. write = <<>>
    BY <1>2 DEF OneByOne
  <2> QED BY <1>7, <1>8, <2>1
<1>10. PICK b : b = ans \o w
  OBVIOUS
<1>11. /\ b \in Seq(Reply) /\ Len(b) = Len(ans) + Len(w)
       /\ \A i \in 1..(Len(ans) + Len(w)) : b[i] = IF i <= Len(ans) THEN ans[i] ELSE w[i - Len(ans)]
  BY <1>1, <1>9, <1>10, ConcatProperties
<1>12. /\ Len(b) = m + 1 /\ DOMAIN b = 1..(m + 1)
       /\ \A i \in 1..(m + 1) : b[i] = IF i <= m THEN ans[i] ELSE w[i - m]
  BY <1>3, <1>9, <1>11, Elements
<1>13. \A i \in DOMAIN b : (i \in DOMAIN ans /\ b[i] = ans[i]) \/ (i = m + 1 /\ b[i] = a)
  <2> SUFFICES ASSUME NEW i \in 1..(m + 1)
               PROVE  (i \in 1..m /\ i <= m) \/ (i = m + 1 /\ i - m = 1 /\ ~(i <= m))
    BY <1>4, <1>9, <1>12
  <2> QED BY <1>3
<1>14. \A i \in DOMAIN b : b[i][1] = i
  BY <1>2, <1>6, <1>7, <1>13 DEF OneByOne
<1>15. ASSUME NEW i \in DOMAIN b, NEW j \in DOMAIN b,
              i < j, sent[i] = "setpd", b[i][2] = "ok", sent[j] = "getpd"
       PROVE  b[j][2] # NoRow
  <2>1. i \in DOMAIN ans /\ b[i] = ans[i]
    <3>1. i # m + 1
      BY <1>3, <1>12, <1>15
    <3> QED BY <1>13, <3>1
  <2>2. CASE j \in DOMAIN ans /\ b[j] = ans[j]
    BY <1>2, <1>15, <2>1, <2>2 DEF OneByOne
  <2>3. CASE j = m + 1 /\ b[j] = a
    <3>1. ans[i][1] = i
      BY <1>2, <2>1 DEF OneByOne
    <3>2. pd # NoRow
      BY <1>15, <2>1, <3>1 DEF ConnOK, AcksStored
    <3> QED BY <1>6, <1>7, <1>15, <2>3, <3>2 DEF Answers
  <2> QED BY <1>13, <2>2, <2>3
<1>16. OneByOne(sent, <<>>, b)
  <2>1. Len(b) <= Len(sent) /\ Len(sent) <= Len(b) + 1
    <3>1. k <= l
      BY <1>3 DEF ConnOK, Behind
    <3>2. m + 1 <= l /\ l <= (m + 1) + 1
      BY <1>3, <1>6, <3>1
    <3> QED BY <1>3, <1>12, <3>2
  <2> QED BY <1>14, <1>15, <2>1 DEF OneByOne
<1> QED BY <1>6, <1>8, <1>10, <1>16

\* A step of one connection.
LEMMA StatsStep ==
    ASSUME StatsIInv, StatsTypeOK', NEW c \in GConn, pdata # NoRow => pdata' # NoRow,
           \A d \in GConn : d # c => /\ gsent'[d] = gsent[d] /\ gwire'[d] = gwire[d] /\ gs'[d] = gs[d]
                                     /\ grun'[d] = grun[d] /\ got'[d] = got[d],
           ConnOK(gsent'[c], gwire'[c], gs'[c].read, gs'[c].write, grun'[c], got'[c], pdata', c \notin GBatching)
    PROVE  StatsIInv'
<1> SUFFICES ASSUME NEW d \in GConn
             PROVE  ConnOK(gsent'[d], gwire'[d], gs'[d].read, gs'[d].write, grun'[d], got'[d], pdata', d \notin GBatching)
  BY DEF StatsIInv
<1>1. CASE d = c
  BY <1>1
<1>2. CASE d # c
  <2>1. ConnOK(gsent[d], gwire[d], gs[d].read, gs[d].write, grun[d], got[d], pdata, d \notin GBatching)
    BY DEF StatsIInv
  <2>2. PICK p : p = pdata'
    OBVIOUS
  <2>3. PICK b \in BOOLEAN : b = (d \notin GBatching)
    OBVIOUS
  <2>4. ConnOK(gsent[d], gwire[d], gs[d].read, gs[d].write, grun[d], got[d], p, b)
    BY <2>1, <2>2, <2>3, ConnRow
  <2> QED BY <1>2, <2>2, <2>3, <2>4
<1> QED BY <1>1, <1>2

LEMMA SendStep ==
    ASSUME StatsIInv, NEW c \in GConn, NEW cmd \in DOMAIN CommandOrder, Send(c, cmd)
    PROVE  StatsIInv'
<1>1. cmd \in CommandNames
  BY DEF CommandOrder, CommandNames
<1>2. StatsTypeOK /\ ConnOK(gsent[c], gwire[c], gs[c].read, gs[c].write, grun[c], got[c], pdata, c \notin GBatching)
  BY DEF StatsIInv
<1>3. gsent[c] \in Seq(CommandNames) /\ gwire[c] \in Seq(Unit)
  BY <1>2 DEF StatsTypeOK
<1>a. PICK b \in BOOLEAN : b = (c \notin GBatching)
  OBVIOUS
<1>4. PICK k, s, w : /\ k = Len(gsent[c]) + 1 /\ s = Append(gsent[c], cmd)
                     /\ w = gwire[c] \o <<<<k, "text">>, <<k, "final">>>>
  OBVIOUS
<1>5. /\ gsent' = [gsent EXCEPT ![c] = s] /\ gwire' = [gwire EXCEPT ![c] = w]
      /\ UNCHANGED <<gs, grun, got, pdata>> /\ (b => Len(got[c]) = Len(gsent[c]))
  BY <1>4, <1>a DEF Send
<1>6. ConnOK(s, w, gs[c].read, gs[c].write, grun[c], got[c], pdata, b)
  BY <1>1, <1>2, <1>4, <1>5, <1>a, ConnSend
<1>7. s \in Seq(CommandNames) /\ w \in Seq(Unit)
  BY <1>6 DEF ConnOK, ConnTypeOK
<1>8. StatsTypeOK' /\ gsent'[c] = s /\ gwire'[c] = w
      /\ \A d \in GConn : d # c => gsent'[d] = gsent[d] /\ gwire'[d] = gwire[d]
  BY <1>2, <1>5, <1>7 DEF StatsTypeOK
<1>9. ConnOK(gsent'[c], gwire'[c], gs'[c].read, gs'[c].write, grun'[c], got'[c], pdata', c \notin GBatching)
  BY <1>4, <1>5, <1>6, <1>8, <1>a
<1> QED BY <1>5, <1>8, <1>9, StatsStep

LEMMA ReadPacketStep ==
    ASSUME StatsIInv, NEW c \in GConn, ReadPacket(c)
    PROVE  StatsIInv'
<1>1. StatsTypeOK /\ ConnOK(gsent[c], gwire[c], gs[c].read, gs[c].write, grun[c], got[c], pdata, c \notin GBatching)
  BY DEF StatsIInv
<1>2. PICK n \in 1..Len(gwire[c]) :
         LET buf == gs[c].read \o SubSeq(gwire[c], 1, n) IN
         /\ gwire' = [gwire EXCEPT ![c] = SubSeq(gwire[c], n + 1, Len(gwire[c]))]
         /\ IF Len(buf) > GLimit \/ c \notin gknown THEN UNCHANGED <<gs, grun>>
            ELSE IF buf[Len(buf)][2] # "final"
            THEN gs' = [gs EXCEPT ![c].read = buf] /\ UNCHANGED grun
            ELSE Decrypt(c, buf) /\ grun' = [grun EXCEPT ![c] = ParseGameStatsMessage(buf)]
  BY DEF ReadPacket
<1>a. PICK b \in BOOLEAN : b = (c \notin GBatching)
  OBVIOUS
<1>3. PICK buf, rest : /\ buf = gs[c].read \o SubSeq(gwire[c], 1, n)
                       /\ rest = SubSeq(gwire[c], n + 1, Len(gwire[c]))
  OBVIOUS
<1>4. /\ gwire' = [gwire EXCEPT ![c] = rest] /\ UNCHANGED <<gsent, got, pdata>> /\ grun[c] = {}
      /\ \/ UNCHANGED <<gs, grun>>
         \/ gs' = [gs EXCEPT ![c].read = buf] /\ UNCHANGED grun
         \/ /\ buf[Len(buf)][2] = "final" /\ gs' = [gs EXCEPT ![c].read = <<>>]
            /\ grun' = [grun EXCEPT ![c] = ParseGameStatsMessage(buf)]
  BY <1>2, <1>3 DEF ReadPacket, Decrypt
<1>5. /\ buf \in Seq(Unit) /\ rest \in Seq(Unit) /\ ParseGameStatsMessage(buf) \subseteq Nat
      /\ ConnOK(gsent[c], rest, gs[c].read, gs[c].write, {}, got[c], pdata, b)
      /\ ConnOK(gsent[c], rest, buf, gs[c].write, {}, got[c], pdata, b)
      /\ buf[Len(buf)][2] = "final" =>
           ConnOK(gsent[c], rest, <<>>, gs[c].write, ParseGameStatsMessage(buf), got[c], pdata, b)
  <2>1. ConnOK(gsent[c], gwire[c], gs[c].read, gs[c].write, {}, got[c], pdata, b)
    BY <1>1, <1>4, <1>a
  <2>2. PICK se, wi, re, wr, an, pd : se = gsent[c] /\ wi = gwire[c] /\ re = gs[c].read /\ wr = gs[c].write
                                      /\ an = got[c] /\ pd = pdata
    OBVIOUS
  <2>3. ConnOK(se, wi, re, wr, {}, an, pd, b)
    BY <2>1, <2>2
  <2>4. n \in 1..Len(wi) /\ buf = re \o SubSeq(wi, 1, n) /\ rest = SubSeq(wi, n + 1, Len(wi))
    BY <1>3, <2>2
  <2>5. /\ buf \in Seq(Unit) /\ rest \in Seq(Unit) /\ ParseGameStatsMessage(buf) \subseteq Nat
        /\ ConnOK(se, rest, re, wr, {}, an, pd, b)
        /\ ConnOK(se, rest, buf, wr, {}, an, pd, b)
        /\ \/ buf[Len(buf)][2] # "final"
           \/ ConnOK(se, rest, <<>>, wr, ParseGameStatsMessage(buf), an, pd, b)
    <3>1. Splits(re, wi, n, buf, rest) /\ n \in 1..Len(wi)
      BY <2>4 DEF Splits
    <3> QED BY <2>3, <3>1, ConnRead, ZenonT(60)
  <2> QED BY <2>2, <2>5
<1>6. gwire' \in [GConn -> Seq(Unit)] /\ gwire'[c] = rest /\ \A d \in GConn : d # c => gwire'[d] = gwire[d]
  BY <1>1, <1>4, <1>5 DEF StatsTypeOK
<1>7. CASE UNCHANGED <<gs, grun>>
  <2>1. StatsTypeOK'
    BY <1>1, <1>4, <1>6, <1>7 DEF StatsTypeOK
  <2>2. ConnOK(gsent'[c], gwire'[c], gs'[c].read, gs'[c].write, grun'[c], got'[c], pdata', c \notin GBatching)
    BY <1>4, <1>5, <1>6, <1>a, <1>7
  <2> QED BY <1>4, <1>6, <1>7, <2>1, <2>2, StatsStep
<1>8. CASE gs' = [gs EXCEPT ![c].read = buf] /\ UNCHANGED grun
  <2>1. /\ gs' \in [GConn -> Session] /\ gs'[c].read = buf /\ gs'[c].write = gs[c].write
        /\ \A d \in GConn : d # c => gs'[d] = gs[d]
    BY <1>1, <1>5, <1>8 DEF StatsTypeOK, Session
  <2>2. StatsTypeOK'
    BY <1>1, <1>4, <1>6, <1>8, <2>1 DEF StatsTypeOK
  <2>3. ConnOK(gsent'[c], gwire'[c], gs'[c].read, gs'[c].write, grun'[c], got'[c], pdata', c \notin GBatching)
    BY <1>4, <1>5, <1>6, <1>a, <1>8, <2>1
  <2> QED BY <1>4, <1>6, <1>8, <2>1, <2>2, <2>3, StatsStep
<1>9. CASE /\ buf[Len(buf)][2] = "final" /\ gs' = [gs EXCEPT ![c].read = <<>>]
           /\ grun' = [grun EXCEPT ![c] = ParseGameStatsMessage(buf)]
  <2>0. <<>> \in Seq(Unit)
    OBVIOUS
  <2>1. /\ gs' \in [GConn -> Session] /\ gs'[c].read = <<>> /\ gs'[c].write = gs[c].write
        /\ \A d \in GConn : d # c => gs'[d] = gs[d]
    BY <1>1, <1>9, <2>0 DEF StatsTypeOK, Session
  <2>2. /\ grun' \in [GConn -> SUBSET Nat] /\ grun'[c] = ParseGameStatsMessage(buf)
        /\ \A d \in GConn : d # c => grun'[d] = grun[d]
    BY <1>1, <1>5, <1>9 DEF StatsTypeOK
  <2>3. StatsTypeOK'
    BY <1>1, <1>4, <1>6, <2>1, <2>2 DEF StatsTypeOK
  <2>4. ConnOK(gsent'[c], gwire'[c], gs'[c].read, gs'[c].write, grun'[c], got'[c], pdata', c \notin GBatching)
    BY <1>4, <1>5, <1>6, <1>a, <1>9, <2>1, <2>2
  <2> QED BY <1>4, <1>6, <2>1, <2>2, <2>3, <2>4, StatsStep
<1> QED BY <1>4, <1>7, <1>8, <1>9

\* A command is answered.  The answer to getpd is the row; setpd is answered with
\* ok only when there is one.
LEMMA AnswerStep ==
    ASSUME StatsIInv, NEW c \in GConn, NEW k \in grun[c], NEW v \in {"ok", "refused"} \cup Row,
           NEW s \in Session, s.read = gs[c].read, s.write = gs[c].write,
           Answer(c, s, <<k, v>>), UNCHANGED <<gsent, gwire>>,
           pdata' \in Row, pdata # NoRow => pdata' # NoRow,
           gsent[c][k] = "setpd" /\ v = "ok" => pdata' # NoRow,
           gsent[c][k] = "getpd" => v = pdata
    PROVE  StatsIInv'
<1>1. StatsTypeOK /\ ConnOK(gsent[c], gwire[c], s.read, s.write, grun[c], got[c], pdata, c \notin GBatching)
  BY DEF StatsIInv
<1>a. PICK b \in BOOLEAN : b = (c \notin GBatching)
  OBVIOUS
<1>2. PICK w, p : w = Append(s.write, <<k, v>>) /\ p = pdata'
  OBVIOUS
<1>3. grun' = [grun EXCEPT ![c] = grun[c] \ {k}]
      /\ \/ /\ grun[c] = {k} /\ gs' = [gs EXCEPT ![c] = [s EXCEPT !.write = <<>>]]
            /\ got' = [got EXCEPT ![c] = got[c] \o w] \/ UNCHANGED got
         \/ grun[c] # {k} /\ gs' = [gs EXCEPT ![c] = [s EXCEPT !.write = w]] /\ UNCHANGED got
  BY <1>2 DEF Answer, Sent
<1>4. ConnOK(gsent[c], gwire[c], s.read, w, grun[c] \ {k}, got[c], p, FALSE)
  <2>1. ConnOK(gsent[c], gwire[c], s.read, s.write, grun[c], got[c], p, b)
    BY <1>1, <1>2, <1>a, ConnRow
  <2> QED BY <1>2, <2>1, ConnWrite
<1>5. b => grun[c] = {k} /\ OneByOne(gsent[c], <<>>, got[c] \o w)
  <2> SUFFICES ASSUME b PROVE grun[c] = {k} /\ OneByOne(gsent[c], <<>>, got[c] \o w)
    OBVIOUS
  <2>1. ConnOK(gsent[c], gwire[c], s.read, s.write, grun[c], got[c], pdata, TRUE)
    BY <1>1, <1>a
  <2>2. PICK se, wi, re, wr, ru, an, pd :
           se = gsent[c] /\ wi = gwire[c] /\ re = s.read /\ wr = s.write /\ ru = grun[c] /\ an = got[c] /\ pd = pdata
    OBVIOUS
  <2>3. ConnOK(se, wi, re, wr, ru, an, pd, TRUE)
    BY <2>1, <2>2
  <2>4. k \in ru /\ (se[k] = "getpd" => v = pd) /\ w = Append(wr, <<k, v>>)
    BY <1>2, <2>2
  <2>6. k \in ru /\ Answers(se[k], v, pd) /\ v \in {"ok", "refused"} \cup Row
    BY <2>4 DEF Answers
  <2>5. ru = {k} /\ OneByOne(se, <<>>, an \o Append(wr, <<k, v>>))
    BY <2>3, <2>6, ConnWaits, ZenonT(60)
  <2> QED BY <2>2, <2>4, <2>5
<1>6. /\ grun' \in [GConn -> SUBSET Nat] /\ grun'[c] = grun[c] \ {k} /\ \A d \in GConn : d # c => grun'[d] = grun[d]
  BY <1>1, <1>3 DEF StatsTypeOK
<1>7. CASE /\ grun[c] = {k} /\ gs' = [gs EXCEPT ![c] = [s EXCEPT !.write = <<>>]]
           /\ got' = [got EXCEPT ![c] = got[c] \o w] \/ UNCHANGED got
  <2>1. /\ ConnOK(gsent[c], gwire[c], s.read, <<>>, grun[c] \ {k}, got[c] \o w, p, FALSE)
        /\ ConnOK(gsent[c], gwire[c], s.read, <<>>, grun[c] \ {k}, got[c], p, FALSE)
    BY <1>4, ConnFlush, ConnStop
  <2>2. /\ ConnOK(gsent[c], gwire[c], s.read, <<>>, grun[c] \ {k}, got[c] \o w, p, b)
        /\ ConnOK(gsent[c], gwire[c], s.read, <<>>, grun[c] \ {k}, got[c], p, b)
    <3>1. b => OneByOne(gsent[c], <<>>, got[c])
      BY <1>1, <1>a DEF ConnOK, OneByOne
    <3> QED BY <1>5, <2>1, <3>1 DEF ConnOK
  <2>3. PICK t, g : /\ t = [s EXCEPT !.write = <<>>]
                    /\ g = got[c] \o w \/ g = got[c]
                    /\ got' = [got EXCEPT ![c] = g]
    <3>1. got = [got EXCEPT ![c] = got[c]]
      BY <1>1 DEF StatsTypeOK
    <3> QED BY <1>7, <3>1
  <2>4. t \in Session /\ t.read = s.read /\ t.write = <<>>
    <3>1. <<>> \in Seq(Reply)
      OBVIOUS
    <3> QED BY <2>3, <3>1 DEF Session
  <2>5. g \in Seq(Reply)
    <3>1. got[c] \o w \in Seq(Reply) /\ got[c] \in Seq(Reply)
      BY <2>1 DEF ConnOK, ConnTypeOK
    <3> QED BY <2>3, <3>1
  <2>6. /\ gs' \in [GConn -> Session] /\ gs'[c] = t /\ \A d \in GConn : d # c => gs'[d] = gs[d]
        /\ got' \in [GConn -> Seq(Reply)] /\ got'[c] = g /\ \A d \in GConn : d # c => got'[d] = got[d]
    BY <1>1, <1>7, <2>3, <2>4, <2>5 DEF StatsTypeOK
  <2>7. StatsTypeOK'
    BY <1>1, <1>6, <2>6 DEF StatsTypeOK
  <2>8. ConnOK(gsent'[c], gwire'[c], gs'[c].read, gs'[c].write, grun'[c], got'[c], pdata', c \notin GBatching)
    BY <1>2, <1>6, <1>a, <2>2, <2>3, <2>4, <2>6
  <2> QED BY <1>6, <2>6, <2>7, <2>8, StatsStep
<1>8. CASE grun[c] # {k} /\ gs' = [gs EXCEPT ![c] = [s EXCEPT !.write = w]] /\ UNCHANGED got
  <2>1. ConnOK(gsent[c], gwire[c], s.read, w, grun[c] \ {k}, got[c], p, b)
    BY <1>4, <1>5, <1>8 DEF ConnOK
  <2>2. PICK t : t = [s EXCEPT !.write = w]
    OBVIOUS
  <2>3. w \in Seq(Reply)
    BY <2>1 DEF ConnOK, ConnTypeOK
  <2>4. t \in Session /\ t.read = s.read /\ t.write = w
    BY <2>2, <2>3 DEF Session
  <2>5. gs' \in [GConn -> Session] /\ gs'[c] = t /\ \A d \in GConn : d # c => gs'[d] = gs[d]
    BY <1>1, <1>8, <2>2, <2>4 DEF StatsTypeOK
  <2>6. StatsTypeOK'
    BY <1>1, <1>6, <1>8, <2>5 DEF StatsTypeOK
  <2>7. ConnOK(gsent'[c], gwire'[c], gs'[c].read, gs'[c].write, grun'[c], got'[c], pdata', c \notin GBatching)
    BY <1>2, <1>6, <1>8, <1>a, <2>1, <2>4, <2>5
  <2> QED BY <1>6, <1>8, <2>5, <2>6, <2>7, StatsStep
<1> QED BY <1>3, <1>7, <1>8

\* A call ends without an answer: the connection is closed, or the handler panics.
LEMMA StoppedStep ==
    ASSUME StatsIInv, NEW c \in GConn, UNCHANGED <<gsent, gwire, got, pdata>>,
           NEW left \in SUBSET grun[c], grun' = [grun EXCEPT ![c] = left],
           \/ gs' = [gs EXCEPT ![c] = NewSession] \/ gs' = [gs EXCEPT ![c].auth = TRUE] \/ UNCHANGED gs
    PROVE  StatsIInv'
<1>1. StatsTypeOK /\ ConnOK(gsent[c], gwire[c], gs[c].read, gs[c].write, grun[c], got[c], pdata, c \notin GBatching)
  BY DEF StatsIInv
<1>2. UNCHANGED <<gsent, gwire, pdata, got>>
  OBVIOUS
<1>3. /\ grun' \in [GConn -> SUBSET Nat] /\ grun'[c] = left /\ \A d \in GConn : d # c => grun'[d] = grun[d]
  BY <1>1 DEF StatsTypeOK
<1>4. NewSession \in Session /\ NewSession.read = <<>> /\ NewSession.write = <<>>
  BY DEF NewSession, Session
<1>5. PICK b \in BOOLEAN : b = (c \notin GBatching)
  OBVIOUS
<1>6. /\ ConnOK(gsent[c], gwire[c], gs[c].read, gs[c].write, left, got[c], pdata, b)
      /\ ConnOK(gsent[c], gwire[c], <<>>, <<>>, left, got[c], pdata, b)
  <2>1. ConnOK(gsent[c], gwire[c], gs[c].read, gs[c].write, left, got[c], pdata, b)
    BY <1>1, <1>5, ConnStop
  <2> QED BY <2>1, ConnStop
<1>7. /\ gs' \in [GConn -> Session] /\ \A d \in GConn : d # c => gs'[d] = gs[d]
      /\ \/ gs'[c].read = <<>> /\ gs'[c].write = <<>>
         \/ gs'[c].read = gs[c].read /\ gs'[c].write = gs[c].write
  <2>1. CASE gs' = [gs EXCEPT ![c] = NewSession]
    BY <1>1, <1>4, <2>1 DEF StatsTypeOK
  <2>2. CASE gs' = [gs EXCEPT ![c].auth = TRUE]
    BY <1>1, <2>2, ZenonT(30) DEF StatsTypeOK, Session
  <2>3. CASE UNCHANGED gs
    BY <1>1, <2>3 DEF StatsTypeOK
  <2> QED BY <2>1, <2>2, <2>3
<1>8. StatsTypeOK'
  BY <1>1, <1>2, <1>3, <1>7 DEF StatsTypeOK
<1>9. ConnOK(gsent'[c], gwire'[c], gs'[c].read, gs'[c].write, grun'[c], got'[c], pdata', c \notin GBatching)
  BY <1>2, <1>3, <1>5, <1>6, <1>7
<1> QED BY <1>2, <1>3, <1>7, <1>8, <1>9, StatsStep

LEMMA HandleStep ==
    ASSUME StatsIInv, NEW c \in GConn, NEW b \in BOOLEAN,
           \/ HandleKa(c) \/ NotLoggedIn(c) \/ HandleGetpd(c) \/ HandleAuth(c, b) \/ HandleAuthp(c, b)
           \/ SetpdSelect(c) \/ SetpdStore(c)
    PROVE  StatsIInv'
<1>1. StatsTypeOK /\ gs[c] \in Session /\ pdata \in Row
  BY DEF StatsIInv, StatsTypeOK
<1>2. \A cmd : \A k \in Doing(c, cmd) : k \in grun[c] /\ gsent[c][k] = cmd
  BY DEF Doing, First
<1>3. CASE HandleKa(c)
  <2>1. PICK k \in Doing(c, "ka") : Answer(c, gs[c], <<k, "ok">>)
    BY <1>3 DEF HandleKa
  <2>2. UNCHANGED <<gsent, gwire, pdata>>
    BY <1>3 DEF HandleKa, NoData
  <2>3. k \in grun[c] /\ gsent[c][k] = "ka"
    BY <1>2
  <2> QED BY <1>1, <2>1, <2>2, <2>3, AnswerStep
<1>4. CASE NotLoggedIn(c)
  <2>1. PICK left \in SUBSET grun[c] : left = {}
    OBVIOUS
  <2>2. grun' = [grun EXCEPT ![c] = left] /\ UNCHANGED <<gsent, gwire, gs, got, pdata>>
    BY <1>4, <2>1 DEF NotLoggedIn, Fatal, NoData
  <2> QED BY <2>2, StoppedStep
<1>5. CASE HandleGetpd(c)
  <2>1. PICK k \in Doing(c, "getpd") : Answer(c, gs[c], <<k, pdata>>)
    BY <1>5 DEF HandleGetpd
  <2>2. UNCHANGED <<gsent, gwire, pdata>>
    BY <1>5 DEF HandleGetpd, NoData
  <2>3. k \in grun[c] /\ gsent[c][k] = "getpd"
    BY <1>2
  <2>4. PICK v \in {"ok", "refused"} \cup Row : v = pdata
    BY <1>1
  <2> QED BY <1>1, <2>1, <2>2, <2>3, <2>4, AnswerStep
<1>6. CASE HandleAuth(c, b)
  <2>1. PICK k \in Doing(c, "auth") :
           IF b THEN Answer(c, [gs[c] EXCEPT !.game = TRUE], <<k, "ok">>) /\ UNCHANGED gopen ELSE Fatal(c, grun[c] \ {k})
    BY <1>6 DEF HandleAuth
  <2>2. NoData(c) /\ UNCHANGED <<gsent, gwire, pdata>>
    BY <1>6 DEF HandleAuth, NoData
  <2>3. k \in grun[c] /\ gsent[c][k] = "auth"
    BY <1>2
  <2>4. CASE b
    <3>1. PICK s : s = [gs[c] EXCEPT !.game = TRUE]
      OBVIOUS
    <3>2. s \in Session /\ s.read = gs[c].read /\ s.write = gs[c].write
      BY <1>1, <3>1 DEF Session
    <3> QED BY <1>1, <2>1, <2>2, <2>3, <2>4, <3>1, <3>2, AnswerStep
  <2>5. CASE ~b
    <3>1. PICK left \in SUBSET grun[c] : left = grun[c] \ {k}
      OBVIOUS
    <3>2. grun' = [grun EXCEPT ![c] = left] /\ UNCHANGED <<gsent, gwire, gs, got, pdata>>
      BY <2>1, <2>2, <2>5, <3>1 DEF Fatal
    <3> QED BY <3>2, StoppedStep
  <2> QED BY <2>4, <2>5
<1>7. CASE HandleAuthp(c, b)
  <2>1. PICK k \in Doing(c, "authp") :
           \/ Answer(c, gs[c], <<k, "refused">>)
           \/ Answer(c, [gs[c] EXCEPT !.auth = TRUE], <<k, "ok">>)
           \/ /\ gs' = [gs EXCEPT ![c].auth = TRUE] /\ grun' = [grun EXCEPT ![c] = {}] /\ UNCHANGED got
    BY <1>7 DEF HandleAuthp
  <2>2. NoData(c) /\ UNCHANGED <<gsent, gwire, pdata>>
    BY <1>7 DEF HandleAuthp, NoData
  <2>3. k \in grun[c] /\ gsent[c][k] = "authp"
    BY <1>2
  <2>4. CASE Answer(c, gs[c], <<k, "refused">>)
    BY <1>1, <2>2, <2>3, <2>4, AnswerStep
  <2>5. CASE Answer(c, [gs[c] EXCEPT !.auth = TRUE], <<k, "ok">>)
    <3>1. PICK s : s = [gs[c] EXCEPT !.auth = TRUE]
      OBVIOUS
    <3>2. s \in Session /\ s.read = gs[c].read /\ s.write = gs[c].write
      BY <1>1, <3>1 DEF Session
    <3> QED BY <1>1, <2>2, <2>3, <2>5, <3>1, <3>2, AnswerStep
  <2>6. CASE gs' = [gs EXCEPT ![c].auth = TRUE] /\ grun' = [grun EXCEPT ![c] = {}] /\ UNCHANGED got
    <3>1. PICK left \in SUBSET grun[c] : left = {}
      OBVIOUS
    <3>2. grun' = [grun EXCEPT ![c] = left]
      BY <2>6, <3>1
    <3> QED BY <2>2, <2>6, <3>2, StoppedStep
  <2> QED BY <2>1, <2>4, <2>5, <2>6
<1>8. CASE SetpdSelect(c)
  BY <1>8 DEF SetpdSelect, StatsIInv, StatsTypeOK
<1>9. CASE SetpdStore(c)
  <2>1. PICK k \in Doing(c, "setpd") :
           \/ Answer(c, gs[c], <<k, "refused">>) /\ UNCHANGED pdata
           \/ Answer(c, gs[c], <<k, "ok">>) /\ pdata' = <<c, k>>
    BY <1>9 DEF SetpdStore, Store
  <2>2. UNCHANGED <<gsent, gwire>>
    BY <1>9 DEF SetpdStore
  <2>3. k \in grun[c] /\ gsent[c][k] = "setpd" /\ k \in Nat
    BY <1>1, <1>2 DEF StatsTypeOK
  <2>4. CASE Answer(c, gs[c], <<k, "refused">>) /\ UNCHANGED pdata
    BY <1>1, <2>2, <2>3, <2>4, AnswerStep
  <2>5. CASE Answer(c, gs[c], <<k, "ok">>) /\ pdata' = <<c, k>>
    <3>1. <<c, k>> # NoRow /\ <<c, k>> \in Row
      BY <2>3 DEF NoRow, Row
    <3> QED BY <1>1, <2>2, <2>3, <2>5, <3>1, AnswerStep
  <2> QED BY <2>1, <2>4, <2>5
<1> QED BY <1>3, <1>4, <1>5, <1>6, <1>7, <1>8, <1>9

LEMMA CloseStatsStep ==
    ASSUME StatsIInv, NEW c \in GConn, CloseStats(c)
    PROVE  StatsIInv'
<1>1. PICK left \in SUBSET grun[c] : left = grun[c]
  OBVIOUS
<1>2. grun' = [grun EXCEPT ![c] = left]
  BY <1>1 DEF CloseStats, StatsIInv, StatsTypeOK
<1>3. gs' = [gs EXCEPT ![c] = NewSession] /\ UNCHANGED <<gsent, gwire, got, pdata>>
  BY DEF CloseStats
<1> QED BY <1>2, <1>3, StoppedStep

LEMMA StatsReloadStep ==
    ASSUME StatsIInv, NEW state, StatsReload(state)
    PROVE  StatsIInv'
<1>1. StatsTypeOK /\ UNCHANGED <<gsent, gwire, grun, got, pdata>>
  BY DEF StatsIInv, StatsReload
<1>2. NewSession \in Session /\ NewSession.read = <<>> /\ NewSession.write = <<>>
  BY DEF NewSession, Session
<1>3. \A c \in GConn : gs'[c] \in Session /\ (gs'[c] = gs[c] \/ gs'[c] = NewSession)
  BY <1>1, <1>2 DEF StatsReload, StatsTypeOK
<1>4. gs' \in [GConn -> Session]
  BY <1>1, <1>3 DEF StatsReload, StatsTypeOK
<1>5. StatsTypeOK'
  BY <1>1, <1>4 DEF StatsTypeOK
<1>6. ASSUME NEW c \in GConn
      PROVE  ConnOK(gsent[c], gwire[c], gs'[c].read, gs'[c].write, grun[c], got[c], pdata, c \notin GBatching)
  <2>1. ConnOK(gsent[c], gwire[c], gs[c].read, gs[c].write, grun[c], got[c], pdata, c \notin GBatching)
    BY DEF StatsIInv
  <2>2. PICK b \in BOOLEAN : b = (c \notin GBatching)
    OBVIOUS
  <2>3. ConnOK(gsent[c], gwire[c], <<>>, <<>>, grun[c], got[c], pdata, b)
    BY <2>1, <2>2, ConnStop
  <2> QED BY <1>2, <1>3, <2>1, <2>2, <2>3
<1> QED BY <1>1, <1>5, <1>6 DEF StatsIInv

\* Every answer is the one to its own command, in order for a client that waits,
\* and a record that was acknowledged is stored, for any number of connections and
\* of commands, any fragments and any buffer size (main.go:175-298,
\* setpd.go:73-114).
THEOREM AnswersAreOwn == StatsInit /\ [][StatsNext]_gvars => []StatsInv
<1>1. StatsInit => StatsIInv
  <2> SUFFICES ASSUME StatsInit PROVE StatsIInv
    OBVIOUS
  <2>1. /\ <<>> \in Seq(Unit) /\ <<>> \in Seq(Reply) /\ <<>> \in Seq(CommandNames)
        /\ DOMAIN <<>> = {} /\ Len(<<>>) = 0
    OBVIOUS
  <2>2. NewSession \in Session /\ NewSession.read = <<>> /\ NewSession.write = <<>>
    BY <2>1 DEF NewSession, Session
  <2>3. StatsTypeOK
    BY <2>1, <2>2 DEF StatsInit, StatsTypeOK, Row
  <2>4. KeysOf(<<>>) = {}
    BY <2>1 DEF KeysOf
  <2>5. \A b \in BOOLEAN : ConnOK(<<>>, <<>>, <<>>, <<>>, {}, <<>>, NoRow, b)
    BY <2>1, <2>4 DEF ConnOK, ConnTypeOK, InOrder, Behind, Once, Distinct, AcksStored, OneByOne
  <2> QED BY <2>2, <2>3, <2>5 DEF StatsIInv, StatsInit
<1>2. StatsIInv /\ [StatsNext]_gvars => StatsIInv'
  <2> SUFFICES ASSUME StatsIInv, [StatsNext]_gvars PROVE StatsIInv'
    OBVIOUS
  <2>1. CASE UNCHANGED gvars
    BY <2>1 DEF gvars, StatsIInv, StatsTypeOK
  <2>2. ASSUME NEW c \in GConn, NEW cmd \in DOMAIN CommandOrder, Send(c, cmd) PROVE StatsIInv'
    BY <2>2, SendStep
  <2>3. ASSUME NEW c \in GConn, ReadPacket(c) PROVE StatsIInv'
    BY <2>3, ReadPacketStep
  <2>4. ASSUME NEW c \in GConn, NEW b \in BOOLEAN,
               \/ HandleKa(c) \/ NotLoggedIn(c) \/ HandleGetpd(c) \/ HandleAuth(c, b) \/ HandleAuthp(c, b)
               \/ SetpdSelect(c) \/ SetpdStore(c)
        PROVE  StatsIInv'
    BY <2>4, HandleStep
  <2>5. ASSUME NEW state, StatsReload(state) PROVE StatsIInv'
    BY <2>5, StatsReloadStep
  <2>6. ASSUME NEW c \in GConn, CloseStats(c) PROVE StatsIInv'
    BY <2>6, CloseStatsStep
  <2> QED BY <2>1, <2>2, <2>3, <2>4, <2>5, <2>6 DEF StatsNext
<1>3. StatsIInv => StatsInv
  <2> SUFFICES ASSUME StatsIInv, NEW c \in GConn
               PROVE  /\ \A i, j \in DOMAIN got[c] : i # j => got[c][i][1] # got[c][j][1]
                      /\ c \notin GBatching => \A i \in DOMAIN got[c] : got[c][i][1] = i
                      /\ \A i \in DOMAIN got[c] :
                           gsent[c][got[c][i][1]] = "setpd" /\ got[c][i][2] = "ok" => pdata # NoRow
                      /\ c \notin GBatching =>
                           \A i, j \in DOMAIN got[c] :
                               i < j /\ gsent[c][i] = "setpd" /\ got[c][i][2] = "ok" /\ gsent[c][j] = "getpd"
                               => got[c][j][2] # NoRow
    BY DEF StatsInv, AnswersMatch, StoredIsStored
  <2>1. ConnOK(gsent[c], gwire[c], gs[c].read, gs[c].write, grun[c], got[c], pdata, c \notin GBatching)
    BY DEF StatsIInv
  <2> QED BY <2>1 DEF ConnOK, Once, Distinct, AcksStored, OneByOne
<1> QED BY <1>1, <1>2, <1>3, PTL


-----------------------------------------------------------------------------
(* The server browser.  What an open connection has in its buffer and on the *)
(* wire is stated as one sequence r of bytes, of a client that sent packets  *)
(* of sizes s, h of which were handled: every byte is one of a packet that   *)
(* was sent, the first is the first of packet h + 1, the last the last of    *)
(* all, and each follows the one before it.  A client that waits for its     *)
(* answers has at most one packet that was not handled.  Of a connection whose *)
(* buffer was lost nothing is known but that its bytes are of packets it sent. *)

Byte == Nat \X Nat

Chain(s, l, r, m, h) ==
    /\ m = 0 => h = l
    /\ m # 0 => r[1] = <<h + 1, 1>> /\ r[m] = <<l, s[l]>>
    /\ \A i \in 1..(m - 1) : r[i + 1] = After(s, r[i])
    /\ \A i \in 1..m : r[i][1] \in 1..l /\ r[i][2] \in 1..s[r[i][1]]

Rest(s, r, h) == Chain(s, Len(s), r, Len(r), h)

\* What is open has its bytes in order.  buf is the buffer, wi the wire.
Reads(s, buf, wi, hs, waits) ==
    /\ \A i \in DOMAIN hs : hs[i] = i
    /\ Rest(s, buf \o wi, Len(hs))
    /\ waits => /\ Len(s) <= Len(hs) + 1
                /\ buf # <<>> => Len(buf) < s[Len(hs) + 1]

BrowserTypeOK ==
    /\ sizes \in [BConn -> Seq(PacketSizes)] /\ wire \in [BConn -> Seq(Byte)]
    /\ connBuffers \in [BConn -> Seq(Byte)] /\ handled \in [BConn -> Seq(Nat)]
    /\ sbOpen \subseteq BConn /\ cut \subseteq BConn

\* The bytes of a client that sent packets of sizes s.
Own(s) == (1..Len(s)) \X Nat

BrowserIInv ==
    /\ BrowserTypeOK
    /\ \A c \in BConn :
         /\ Len(connBuffers[c]) <= BufferLimit
         /\ connBuffers[c] \in Seq(Own(sizes[c])) /\ wire[c] \in Seq(Own(sizes[c]))
         /\ c \notin sbOpen => connBuffers[c] = <<>>
         /\ c \in sbOpen \ cut => Reads(sizes[c], connBuffers[c], wire[c], handled[c], c \notin Pipelining)

LEMMA LeastOf ==
    ASSUME NEW T \in SUBSET Nat, T # {}
    PROVE  \E n \in T : \A m \in T : n <= m
<1>1. PICK n \in T : \A m \in T : ~(<<m, n>> \in OpToRel(<, Nat))
  BY WFMin, NatLessThanWellFounded, Zenon
<1>2. \A m \in T : ~(m < n)
  BY <1>1 DEF OpToRel
<1> QED BY <1>2

Sizes(s, l) == \A k \in 1..l : s[k] \in Nat /\ s[k] >= 2

\* x is r, whose length is m, with a packet k of n bytes.
Longer(r, m, x, n, k) ==
    /\ \A i \in 1..m : x[i] = r[i]
    /\ \A i \in (m + 1)..(m + n) : x[i] = <<k, i - m>>

\* l packets were sent and m bytes of them are left; one of n bytes is sent.
LEMMA Grows ==
    ASSUME NEW s, NEW t, NEW r, NEW x, NEW l \in Nat, NEW m \in Nat, NEW n \in Nat, NEW h \in Nat,
           Chain(s, l, r, m, h), Sizes(t, l + 1), t[l + 1] = n, \A k \in 1..l : t[k] = s[k],
           Longer(r, m, x, n, l + 1)
    PROVE  Chain(t, l + 1, x, m + n, h)
<1> USE DEF Chain, Sizes, Longer
<1>0. n >= 2
  <2>1. l + 1 \in 1..(l + 1)
    OBVIOUS
  <2> QED BY <2>1
<1>1. x[1] = <<h + 1, 1>> /\ x[m + n] = <<l + 1, n>>
  <2>1. m + n \in (m + 1)..(m + n) /\ (m + n) - m = n
    BY <1>0
  <2>2. CASE m = 0
    <3>1. 1 \in (m + 1)..(m + n) /\ 1 - m = 1 /\ h = l
      BY <1>0, <2>2
    <3> QED BY <2>1, <3>1
  <2>3. CASE m # 0
    <3>1. 1 \in 1..m
      BY <2>3
    <3> QED BY <2>1, <2>3, <3>1
  <2> QED BY <2>2, <2>3
<1>2. ASSUME NEW i \in 1..(m + n - 1) PROVE x[i + 1] = After(t, x[i])
  <2>1. CASE i + 1 <= m
    <3>1. i \in 1..m /\ i + 1 \in 1..m /\ i \in 1..(m - 1)
      BY <2>1
    <3>2. t[r[i][1]] = s[r[i][1]]
      BY <3>1
    <3> QED BY <3>1, <3>2 DEF After
  <2>2. CASE i = m
    <3>1. i \in 1..m /\ i + 1 \in (m + 1)..(m + n) /\ (i + 1) - m = 1 /\ m # 0
      BY <1>0, <2>2
    <3>2. x[i] = <<l, s[l]>> /\ x[i + 1] = <<l + 1, 1>> /\ r[i] = <<l, s[l]>>
      BY <2>2, <3>1
    <3>3. r[i][1] = l /\ r[i][1] \in 1..l
      BY <3>1, <3>2
    <3>4. s[l] \in Nat /\ t[l] = s[l]
      BY <3>3
    <3>5. ~(s[l] < s[l])
      BY <3>4
    <3> QED BY <3>2, <3>4, <3>5 DEF After
  <2>3. CASE i > m
    <3>1. /\ i \in (m + 1)..(m + n) /\ i + 1 \in (m + 1)..(m + n)
          /\ i - m < n /\ (i + 1) - m = (i - m) + 1
      BY <2>3
    <3>2. x[i] = <<l + 1, i - m>> /\ x[i + 1] = <<l + 1, (i - m) + 1>>
      BY <3>1
    <3> QED BY <3>1, <3>2 DEF After
  <2> QED BY <2>1, <2>2, <2>3
<1>3. ASSUME NEW i \in 1..(m + n) PROVE x[i][1] \in 1..(l + 1) /\ x[i][2] \in 1..t[x[i][1]]
  <2>1. CASE i \in 1..m
    <3>1. r[i][1] \in 1..l /\ r[i][2] \in 1..s[r[i][1]] /\ x[i] = r[i]
      BY <2>1
    <3>2. r[i][1] \in 1..(l + 1) /\ t[r[i][1]] = s[r[i][1]]
      BY <3>1
    <3> QED BY <3>1, <3>2
  <2>2. CASE i \in (m + 1)..(m + n)
    <3>1. x[i] = <<l + 1, i - m>> /\ i - m \in 1..n /\ l + 1 \in 1..(l + 1)
      BY <2>2
    <3>2. x[i][1] = l + 1 /\ x[i][2] = i - m
      BY <3>1
    <3> QED BY <3>1, <3>2
  <2> QED BY <2>1, <2>2
<1>4. m + n # 0
  BY <1>0
<1> QED BY <1>1, <1>2, <1>3, <1>4

\* A packet's bytes go to the end of the wire.
LEMMA RestSend ==
    ASSUME NEW s \in Seq(PacketSizes), NEW r \in Seq(Byte), NEW h \in Nat, Rest(s, r, h),
           NEW n \in PacketSizes
    PROVE  r \o Bytes(Len(s) + 1, n) \in Seq(Byte) /\ Rest(Append(s, n), r \o Bytes(Len(s) + 1, n), h)
<1>1. PICK l \in Nat, m \in Nat : l = Len(s) /\ m = Len(r)
  OBVIOUS
<1>2. PICK t : t = Append(s, n)
  OBVIOUS
<1>3. Len(t) = l + 1 /\ t[l + 1] = n /\ \A k \in 1..l : t[k] = s[k]
  BY <1>1, <1>2
<1>4. n \in Nat /\ n >= 2
  BY BrowserAssumption
<1>5. PICK y : y = Bytes(l + 1, n)
  OBVIOUS
<1>6. y \in Seq(Byte) /\ Len(y) = n /\ \A i \in 1..n : y[i] = <<l + 1, i>>
  <2>1. y = [i \in 1..n |-> <<l + 1, i>>]
    BY <1>5 DEF Bytes
  <2>2. \A i \in 1..n : <<l + 1, i>> \in Byte
    BY <1>1 DEF Byte
  <2> QED BY <1>4, <2>1, <2>2
<1>a. PICK x : x = r \o y
  OBVIOUS
<1>b. /\ x \in Seq(Byte) /\ Len(x) = Len(r) + Len(y)
      /\ \A i \in 1..(Len(r) + Len(y)) : x[i] = IF i <= Len(r) THEN r[i] ELSE y[i - Len(r)]
  BY <1>6, <1>a, ConcatProperties
<1>7. /\ Len(x) = m + n
      /\ \A i \in 1..(m + n) : x[i] = IF i <= m THEN r[i] ELSE y[i - m]
  BY <1>1, <1>6, <1>b, Zenon
<1>8. /\ \A i \in 1..m : x[i] = r[i]
      /\ \A i \in (m + 1)..(m + n) : x[i] = <<l + 1, i - m>>
  <2>1. \A i \in 1..m : i \in 1..(m + n) /\ i <= m
    BY <1>1, <1>4
  <2>2. \A i \in (m + 1)..(m + n) : i \in 1..(m + n) /\ ~(i <= m) /\ i - m \in 1..n
    BY <1>1, <1>4
  <2> QED BY <1>6, <1>7, <2>1, <2>2
<1>9. Longer(r, m, x, n, l + 1)
  BY <1>8 DEF Longer
<1>10. Sizes(t, l + 1)
  <2>1. \A k \in 1..l : s[k] \in Nat /\ s[k] >= 2
    <3>1. \A q \in PacketSizes : q \in Nat /\ q >= 2
      BY BrowserAssumption
    <3>2. \A k \in 1..l : s[k] \in PacketSizes
      BY <1>1
    <3> QED BY <3>1, <3>2
  <2> QED BY <1>1, <1>3, <1>4, <2>1 DEF Sizes
<1>11. Chain(s, l, r, m, h)
  BY <1>1 DEF Rest
<1>12. Chain(t, l + 1, x, m + n, h)
  BY <1>3, <1>4, <1>9, <1>10, <1>11, Grows
<1>13. Rest(t, x, h)
  BY <1>3, <1>7, <1>12 DEF Rest
<1> QED BY <1>1, <1>2, <1>5, <1>a, <1>b, <1>13

\* r begins with the z bytes of packet k.
Begins(r, z, k) == \A i \in 1..z : r[i] = <<k, i>>

\* The bytes that were not handled begin with the whole packet h + 1.
LEMMA FirstPacket ==
    ASSUME NEW s, NEW r, NEW l \in Nat, NEW m \in Nat, NEW h \in Nat,
           Chain(s, l, r, m, h), Sizes(s, l), m # 0
    PROVE  /\ h + 1 \in 1..l /\ s[h + 1] \in Nat /\ s[h + 1] <= m
           /\ Begins(r, s[h + 1], h + 1)
<1>1. /\ r[1] = <<h + 1, 1>> /\ r[m] = <<l, s[l]>> /\ 1 \in 1..m /\ m \in 1..m
      /\ \A i \in 1..(m - 1) : r[i + 1] = After(s, r[i])
      /\ \A i \in 1..m : r[i][1] \in 1..l /\ r[i][2] \in 1..s[r[i][1]]
  BY DEF Chain
<1>2. h + 1 \in 1..l
  <2>1. r[1][1] = h + 1
    BY <1>1
  <2> QED BY <1>1, <2>1
<1>3. PICK z \in Nat : z = s[h + 1] /\ z >= 2
  BY <1>2 DEF Sizes
<1>4. \A i \in 1..m : i <= z => r[i] = <<h + 1, i>>
  <2> DEFINE T == {i \in 1..m : i <= z /\ r[i] # <<h + 1, i>>}
  <2> SUFFICES ASSUME T # {} PROVE FALSE
    OBVIOUS
  <2>1. PICK n \in T : \A k \in T : n <= k
    <3>1. T \in SUBSET Nat
      OBVIOUS
    <3> HIDE DEF T
    <3> QED BY <3>1, LeastOf
  <2>2. n \in 1..m /\ n <= z /\ r[n] # <<h + 1, n>>
    OBVIOUS
  <2>3. n # 1
    BY <1>1, <2>2
  <2>4. n - 1 \in 1..m /\ n - 1 \in 1..(m - 1) /\ n - 1 < z /\ n - 1 <= z /\ ~(n <= n - 1) /\ (n - 1) + 1 = n
    BY <1>3, <2>2, <2>3
  <2>5. r[n - 1] = <<h + 1, n - 1>>
    BY <2>1, <2>4
  <2>6. r[n] = After(s, r[n - 1])
    BY <1>1, <2>4
  <2>7. PICK b : b = r[n - 1] /\ b[1] = h + 1 /\ b[2] = n - 1
    <3>1. PICK b : b = <<h + 1, n - 1>>
      OBVIOUS
    <3>2. b[1] = h + 1 /\ b[2] = n - 1
      BY <3>1
    <3> QED BY <2>5, <3>1, <3>2
  <2>8. After(s, b) = <<h + 1, n>>
    BY <1>3, <2>4, <2>7 DEF After
  <2> QED BY <2>2, <2>6, <2>7, <2>8
<1>5. z <= m
  <2> SUFFICES ASSUME m < z PROVE FALSE
    BY <1>3
  <2>1. r[m] = <<h + 1, m>>
    BY <1>1, <1>3, <1>4
  <2>2. h + 1 = l /\ m = s[l]
    BY <1>1, <2>1
  <2> QED BY <1>3, <2>2
<1>6. \A i \in 1..z : i \in 1..m /\ i <= z
  BY <1>3, <1>5
<1>7. Begins(r, s[h + 1], h + 1)
  BY <1>3, <1>4, <1>6 DEF Begins
<1> QED BY <1>2, <1>3, <1>5, <1>7

\* x is r, whose length is m, without its first z bytes.
Without(r, m, x, z) == \A i \in 1..(m - z) : x[i] = r[z + i]

\* The first packet is taken off.
LEMMA Shrinks ==
    ASSUME NEW s, NEW r, NEW x, NEW l \in Nat, NEW m \in Nat, NEW h \in Nat,
           Chain(s, l, r, m, h), Sizes(s, l), m # 0, Without(r, m, x, s[h + 1])
    PROVE  Chain(s, l, x, m - s[h + 1], h + 1)
<1>0. PICK z \in Nat : z = s[h + 1]
  BY FirstPacket
<1>a. \A i \in 1..(m - z) : x[i] = r[z + i]
  BY <1>0 DEF Without
<1>1. /\ h + 1 \in 1..l /\ z <= m /\ \A i \in 1..z : r[i] = <<h + 1, i>>
  <2>1. /\ h + 1 \in 1..l /\ s[h + 1] \in Nat /\ s[h + 1] <= m
        /\ Begins(r, s[h + 1], h + 1)
    BY FirstPacket
  <2> QED BY <1>0, <2>1 DEF Begins
<1>2. z >= 2
  BY <1>0, <1>1 DEF Sizes
<1>3. r[z] = <<h + 1, z>>
  BY <1>1, <1>2
<1>4. /\ r[m] = <<l, s[l]>>
      /\ \A i \in 1..(m - 1) : r[i + 1] = After(s, r[i])
      /\ \A i \in 1..m : r[i][1] \in 1..l /\ r[i][2] \in 1..s[r[i][1]]
  BY DEF Chain
<1>5. m - z = 0 => h + 1 = l
  <2> SUFFICES ASSUME m = z PROVE h + 1 = l
    BY <1>1
  <2> QED BY <1>3, <1>4
<1>6. m - z # 0 => x[1] = <<(h + 1) + 1, 1>> /\ x[m - z] = <<l, s[l]>>
  <2> SUFFICES ASSUME m # z PROVE x[1] = <<(h + 1) + 1, 1>> /\ x[m - z] = <<l, s[l]>>
    BY <1>1
  <2>1. 1 \in 1..(m - z) /\ m - z \in 1..(m - z) /\ z + (m - z) = m /\ z \in 1..(m - 1)
    BY <1>1, <1>2
  <2>2. x[1] = r[z + 1] /\ x[m - z] = r[z + (m - z)]
    BY <1>a, <2>1
  <2>3. PICK b : b = r[z] /\ b[1] = h + 1 /\ b[2] = z
    <3>1. r[z][1] = h + 1 /\ r[z][2] = z
      BY <1>3
    <3> QED BY <3>1
  <2>4. After(s, b) = <<(h + 1) + 1, 1>>
    BY <1>0, <2>3 DEF After
  <2> QED BY <1>4, <2>1, <2>2, <2>3, <2>4
<1>7. ASSUME NEW i \in 1..(m - z - 1) PROVE x[i + 1] = After(s, x[i])
  <2>1. i \in 1..(m - z) /\ i + 1 \in 1..(m - z) /\ z + i \in 1..(m - 1) /\ z + (i + 1) = (z + i) + 1
    BY <1>1
  <2> QED BY <1>4, <1>a, <2>1
<1>8. ASSUME NEW i \in 1..(m - z) PROVE x[i][1] \in 1..l /\ x[i][2] \in 1..s[x[i][1]]
  <2>1. z + i \in 1..m
    BY <1>1
  <2> QED BY <1>4, <1>a, <2>1
<1>9. Chain(s, l, x, m - z, h + 1)
  BY <1>5, <1>6, <1>7, <1>8 DEF Chain
<1> QED BY <1>0, <1>9

\* When at most one packet was not handled, its bytes are all there are.
LEMMA OnlyPacket ==
    ASSUME NEW s, NEW r, NEW l \in Nat, NEW m \in Nat, NEW h \in Nat,
           Chain(s, l, r, m, h), Sizes(s, l), m # 0, l <= h + 1
    PROVE  m = s[h + 1]
<1>1. PICK z \in Nat : z = s[h + 1] /\ z <= m
  BY FirstPacket
<1>2. PICK x : x = [i \in 1..(m - z) |-> r[z + i]]
  OBVIOUS
<1>3. Without(r, m, x, s[h + 1])
  BY <1>1, <1>2 DEF Without
<1>4. Chain(s, l, x, m - z, h + 1)
  BY <1>1, <1>3, Shrinks
<1>5. m - z = 0
  <2> SUFFICES ASSUME m - z # 0 PROVE FALSE
    OBVIOUS
  <2>1. x[1] = <<(h + 1) + 1, 1>> /\ 1 \in 1..(m - z)
    BY <1>1, <1>4 DEF Chain
  <2>2. x[1][1] \in 1..l /\ x[1][1] = (h + 1) + 1
    BY <1>4, <2>1 DEF Chain
  <2> QED BY <2>2
<1> QED BY <1>1, <1>5

\* A fragment moves from the wire to the buffer; nothing is lost between them.
LEMMA Moved ==
    ASSUME NEW buf \in Seq(Byte), NEW wi \in Seq(Byte), NEW n \in 1..Len(wi),
           NEW b2, NEW w2, Splits(buf, wi, n, b2, w2)
    PROVE  /\ b2 \in Seq(Byte) /\ w2 \in Seq(Byte) /\ b2 \o w2 = buf \o wi
           /\ Len(b2) = Len(buf) + n /\ Len(b2) <= Len(b2 \o w2)
<1>1. PICK x : x = SubSeq(wi, 1, n)
  OBVIOUS
<1>2. w2 = SubSeq(wi, n + 1, Len(wi)) /\ b2 = buf \o x
  BY <1>1 DEF Splits
<1>3. /\ x \in Seq(Byte) /\ Len(x) = n /\ \A i \in 1..n : x[i] = wi[i]
      /\ w2 \in Seq(Byte) /\ Len(w2) = Len(wi) - n /\ \A i \in 1..(Len(wi) - n) : w2[i] = wi[n + i]
  <2>1. n \in 0..Len(wi)
    OBVIOUS
  <2> QED BY <1>1, <1>2, <2>1, Cut
<1>4. PICK y : y = x \o w2
  OBVIOUS
<1>5. /\ y \in Seq(Byte) /\ Len(y) = Len(x) + Len(w2)
      /\ \A i \in 1..(Len(x) + Len(w2)) : y[i] = IF i <= Len(x) THEN x[i] ELSE w2[i - Len(x)]
  BY <1>3, <1>4, ConcatProperties
<1>6. PICK l \in Nat : l = Len(wi)
  OBVIOUS
<1>7. n \in Nat /\ n >= 1 /\ n <= l
  BY <1>6
<1>8. /\ Len(y) = n + (l - n)
      /\ \A i \in 1..(n + (l - n)) : y[i] = IF i <= n THEN x[i] ELSE w2[i - n]
  BY <1>3, <1>5, <1>6, Zenon
<1>9. n + (l - n) = l
  BY <1>7
<1>10. \A i \in 1..l : y[i] = wi[i]
  <2> SUFFICES ASSUME NEW i \in 1..l PROVE y[i] = wi[i]
    OBVIOUS
  <2>1. y[i] = IF i <= n THEN x[i] ELSE w2[i - n]
    BY <1>8, <1>9
  <2>2. CASE i <= n
    <3>1. i \in 1..n
      BY <1>7, <2>2
    <3> QED BY <1>3, <2>1, <2>2, <3>1
  <2>3. CASE ~(i <= n)
    <3>1. i - n \in 1..(l - n) /\ n + (i - n) = i
      BY <1>7, <2>3
    <3>2. w2[i - n] = wi[n + (i - n)]
      BY <1>3, <1>6, <3>1
    <3> QED BY <2>1, <2>3, <3>1, <3>2
  <2> QED BY <2>2, <2>3
<1>11. y = wi
  <2>1. Len(y) = Len(wi) /\ \A i \in 1..Len(y) : y[i] = wi[i]
    BY <1>6, <1>8, <1>9, <1>10
  <2> QED BY <1>5, <2>1, SeqEqual
<1>a. x \in Seq(Byte) /\ w2 \in Seq(Byte)
  BY <1>3
<1>12. b2 \o w2 = buf \o wi
  <2>1. (buf \o x) \o w2 = buf \o (x \o w2)
    BY <1>a, ConcatAssociative
  <2> QED BY <1>2, <1>4, <1>11, <2>1
<1>13. b2 \in Seq(Byte) /\ Len(b2) = Len(buf) + n
  BY <1>2, <1>3, ConcatProperties
<1>14. Len(b2) <= Len(b2 \o w2)
  <2>1. b2 \in Seq(Byte)
    BY <1>13
  <2>2. Len(b2 \o w2) = Len(b2) + Len(w2)
    BY <1>a, <2>1, ConcatProperties
  <2>3. Len(b2) \in Nat /\ Len(w2) \in Nat
    BY <1>a, <2>1
  <2> QED BY <2>2, <2>3
<1> QED BY <1>3, <1>12, <1>13, <1>14

LEMMA SizesOf ==
    ASSUME NEW s \in Seq(PacketSizes)
    PROVE  Sizes(s, Len(s))
<1>1. \A q \in PacketSizes : q \in Nat /\ q >= 2
  BY BrowserAssumption
<1>2. \A k \in 1..Len(s) : s[k] \in PacketSizes
  OBVIOUS
<1> QED BY <1>1, <1>2 DEF Sizes

LEMMA ReadsSend ==
    ASSUME NEW s \in Seq(PacketSizes), NEW buf \in Seq(Byte), NEW wi \in Seq(Byte), NEW hs \in Seq(Nat),
           NEW waits, Reads(s, buf, wi, hs, waits), NEW n \in PacketSizes, waits => Len(hs) = Len(s)
    PROVE  /\ wi \o Bytes(Len(s) + 1, n) \in Seq(Byte)
           /\ Reads(Append(s, n), buf, wi \o Bytes(Len(s) + 1, n), hs, waits)
<1>1. PICK t, y : t = Append(s, n) /\ y = Bytes(Len(s) + 1, n)
  OBVIOUS
<1>2. y \in Seq(Byte)
  <2>1. y = [i \in 1..n |-> <<Len(s) + 1, i>>] /\ n \in Nat
    BY <1>1, BrowserAssumption DEF Bytes
  <2>2. \A i \in 1..n : <<Len(s) + 1, i>> \in Byte
    BY DEF Byte
  <2> QED BY <2>1, <2>2
<1>3. PICK r : r = buf \o wi
  OBVIOUS
<1>4. /\ r \in Seq(Byte) /\ Len(r) = Len(buf) + Len(wi) /\ wi \o y \in Seq(Byte)
      /\ r \o y = buf \o (wi \o y)
  BY <1>2, <1>3, ConcatProperties, ConcatAssociative
<1>5. Rest(s, r, Len(hs)) /\ \A i \in DOMAIN hs : hs[i] = i
  BY <1>3 DEF Reads
<1>6. PICK h \in Nat : h = Len(hs)
  OBVIOUS
<1>7. Rest(t, r \o y, h)
  BY <1>1, <1>4, <1>5, <1>6, RestSend
<1>8. ASSUME waits
      PROVE  Len(t) <= Len(hs) + 1 /\ buf = <<>>
  <2>1. Len(t) = Len(s) + 1 /\ Len(s) \in Nat
    BY <1>1
  <2>2. PICK l \in Nat, m \in Nat : l = Len(s) /\ m = Len(r)
    BY <1>4
  <2>3. Chain(s, l, r, m, h) /\ Sizes(s, l)
    BY <1>5, <1>6, <2>2, SizesOf DEF Rest
  <2>4. h = l
    BY <1>6, <1>8, <2>2
  <2>5. m = 0
    <3> SUFFICES ASSUME m # 0 PROVE FALSE
      OBVIOUS
    <3>1. h + 1 \in 1..l
      BY <2>3, FirstPacket
    <3> QED BY <2>4, <3>1
  <2>6. Len(buf) = 0
    <3>1. Len(buf) + Len(wi) = 0 /\ Len(buf) \in Nat /\ Len(wi) \in Nat
      BY <1>4, <2>2, <2>5
    <3> QED BY <3>1
  <2> QED BY <1>6, <2>1, <2>2, <2>4, <2>6
<1>9. Reads(t, buf, wi \o y, hs, waits)
  BY <1>4, <1>5, <1>6, <1>7, <1>8 DEF Reads
<1> QED BY <1>1, <1>4, <1>9

\* The sequence y \o w2 is b2 \o w2 without its first z bytes when y is b2 without them.
LEMMA CutBefore ==
    ASSUME NEW b2 \in Seq(Byte), NEW w2 \in Seq(Byte), NEW y \in Seq(Byte), NEW z \in Nat,
           z <= Len(b2), Len(y) = Len(b2) - z, \A i \in 1..(Len(b2) - z) : y[i] = b2[z + i]
    PROVE  /\ Len(y \o w2) = Len(b2 \o w2) - z
           /\ Without(b2 \o w2, Len(b2 \o w2), y \o w2, z)
<1>1. PICK r, x : r = b2 \o w2 /\ x = y \o w2
  OBVIOUS
<1>2. /\ Len(r) = Len(b2) + Len(w2)
      /\ \A i \in 1..(Len(b2) + Len(w2)) : r[i] = IF i <= Len(b2) THEN b2[i] ELSE w2[i - Len(b2)]
      /\ Len(x) = Len(y) + Len(w2)
      /\ \A i \in 1..(Len(y) + Len(w2)) : x[i] = IF i <= Len(y) THEN y[i] ELSE w2[i - Len(y)]
  BY <1>1, ConcatProperties
<1>3. PICK p \in Nat, q \in Nat : p = Len(b2) /\ q = Len(w2)
  OBVIOUS
<1>4. /\ z <= p /\ Len(r) = p + q /\ Len(x) = (p - z) + q
      /\ \A i \in 1..(p + q) : r[i] = IF i <= p THEN b2[i] ELSE w2[i - p]
      /\ \A i \in 1..((p - z) + q) : x[i] = IF i <= p - z THEN y[i] ELSE w2[i - (p - z)]
      /\ \A i \in 1..(p - z) : y[i] = b2[z + i]
  BY <1>2, <1>3, Zenon
<1>5. (p + q) - z = (p - z) + q
  BY <1>4
<1>6. ASSUME NEW i \in 1..((p - z) + q) PROVE x[i] = r[z + i]
  <2>1. z + i \in 1..(p + q)
    BY <1>4
  <2>2. r[z + i] = IF z + i <= p THEN b2[z + i] ELSE w2[(z + i) - p]
    BY <1>4, <2>1
  <2>3. x[i] = IF i <= p - z THEN y[i] ELSE w2[i - (p - z)]
    BY <1>4
  <2>4. CASE i <= p - z
    <3>1. i \in 1..(p - z) /\ z + i <= p
      BY <1>4, <2>4
    <3> QED BY <1>4, <2>2, <2>3, <2>4, <3>1
  <2>5. CASE ~(i <= p - z)
    <3>1. ~(z + i <= p) /\ (z + i) - p = i - (p - z)
      BY <1>4, <2>5
    <3> QED BY <2>2, <2>3, <2>5, <3>1
  <2> QED BY <2>4, <2>5
<1>7. Without(r, p + q, x, z)
  BY <1>5, <1>6 DEF Without
<1>8. Len(x) = Len(r) - z /\ Len(r) = p + q
  BY <1>4, <1>5
<1> QED BY <1>1, <1>7, <1>8

\* HandlePacket's view of a fragment: the buffer b2 begins with packet h + 1, which
\* stays in it or is handled and taken off.
LEMMA ReadsFragment ==
    ASSUME NEW s \in Seq(PacketSizes), NEW buf \in Seq(Byte), NEW wi \in Seq(Byte), NEW hs \in Seq(Nat),
           NEW waits, Reads(s, buf, wi, hs, waits), NEW n \in 1..Len(wi),
           NEW b2, NEW w2, Splits(buf, wi, n, b2, w2), NEW h \in Nat, h = Len(hs)
    PROVE  /\ b2 \in Seq(Byte) /\ w2 \in Seq(Byte) /\ b2[1][1] = h + 1 /\ b2[1][2] = 1
           /\ h + 1 \in 1..Len(s) /\ s[h + 1] \in Nat /\ s[h + 1] >= 2
           /\ Len(b2) < s[h + 1] => Reads(s, b2, w2, hs, waits)
           /\ Len(b2) >= s[h + 1] =>
                /\ SubSeq(b2, s[h + 1] + 1, Len(b2)) \in Seq(Byte)
                /\ Len(SubSeq(b2, s[h + 1] + 1, Len(b2))) <= Len(b2)
                /\ Reads(s, SubSeq(b2, s[h + 1] + 1, Len(b2)), w2, Append(hs, h + 1), waits)
<1>1. /\ b2 \in Seq(Byte) /\ w2 \in Seq(Byte) /\ b2 \o w2 = buf \o wi
      /\ Len(b2) = Len(buf) + n /\ Len(b2) <= Len(b2 \o w2)
  BY Moved
<1>2. PICK r : r = b2 \o w2
  OBVIOUS
<1>3. /\ r \in Seq(Byte) /\ Len(r) = Len(b2) + Len(w2)
      /\ \A i \in 1..(Len(b2) + Len(w2)) : r[i] = IF i <= Len(b2) THEN b2[i] ELSE w2[i - Len(b2)]
  BY <1>1, <1>2, ConcatProperties
<1>4. PICK l \in Nat, m \in Nat, p \in Nat : l = Len(s) /\ m = Len(r) /\ p = Len(b2)
  BY <1>1, <1>3
<1>5. p >= 1 /\ p <= m /\ m # 0
  <2>1. Len(buf) \in Nat /\ n \in Nat /\ n >= 1
    OBVIOUS
  <2>2. p = Len(buf) + n /\ p <= m
    BY <1>1, <1>2, <1>4
  <2> QED BY <2>1, <2>2
<1>6. Chain(s, l, r, m, h) /\ Sizes(s, l) /\ \A i \in DOMAIN hs : hs[i] = i
  <2>1. Rest(s, r, h) /\ \A i \in DOMAIN hs : hs[i] = i
    BY <1>1, <1>2 DEF Reads
  <2> QED BY <1>4, <2>1, SizesOf DEF Rest
<1>7. PICK z \in Nat : z = s[h + 1] /\ z >= 2 /\ h + 1 \in 1..l /\ z <= m
  <2>1. h + 1 \in 1..l /\ s[h + 1] \in Nat /\ s[h + 1] <= m
    BY <1>5, <1>6, FirstPacket
  <2>2. s[h + 1] >= 2
    BY <1>6, <2>1 DEF Sizes
  <2> QED BY <2>1, <2>2
<1>8. b2[1][1] = h + 1 /\ b2[1][2] = 1
  <2>1. r[1] = <<h + 1, 1>>
    BY <1>5, <1>6 DEF Chain
  <2>2. r[1] = b2[1]
    <3>1. 1 \in 1..(Len(b2) + Len(w2)) /\ 1 <= Len(b2)
      BY <1>3, <1>4, <1>5
    <3> QED BY <1>3, <3>1
  <2>3. b2[1] = <<h + 1, 1>>
    BY <2>1, <2>2
  <2> QED BY <2>3
<1>9. waits => l <= h + 1
  BY <1>4 DEF Reads
<1>10. ASSUME p < z PROVE Reads(s, b2, w2, hs, waits)
  <2>1. Rest(s, b2 \o w2, Len(hs))
    BY <1>1 DEF Reads
  <2> QED BY <1>4, <1>6, <1>7, <1>9, <1>10, <2>1 DEF Reads
<1>11. ASSUME p >= z
       PROVE  /\ SubSeq(b2, z + 1, p) \in Seq(Byte) /\ Len(SubSeq(b2, z + 1, p)) <= p
              /\ Reads(s, SubSeq(b2, z + 1, p), w2, Append(hs, h + 1), waits)
  <2>1. PICK y : y = SubSeq(b2, z + 1, Len(b2))
    OBVIOUS
  <2>2. y \in Seq(Byte) /\ Len(y) = Len(b2) - z /\ \A i \in 1..(Len(b2) - z) : y[i] = b2[z + i]
    <3>1. z \in 0..Len(b2)
      BY <1>4, <1>11
    <3> QED BY <1>1, <2>1, <3>1, Cut
  <2>3. PICK x : x = y \o w2
    OBVIOUS
  <2>4. Len(x) = m - z /\ Without(r, m, x, s[h + 1])
    <3>1. z <= Len(b2)
      BY <1>4, <1>11
    <3>2. Len(y \o w2) = Len(b2 \o w2) - z /\ Without(b2 \o w2, Len(b2 \o w2), y \o w2, z)
      BY <1>1, <2>2, <3>1, CutBefore
    <3> QED BY <1>2, <1>4, <1>7, <2>3, <3>2
  <2>5. Chain(s, l, x, m - s[h + 1], h + 1)
    BY <1>5, <1>6, <2>4, Shrinks
  <2>6. Rest(s, x, h + 1)
    BY <1>4, <1>7, <2>4, <2>5 DEF Rest
  <2>7. PICK g : g = Append(hs, h + 1)
    OBVIOUS
  <2>8. Len(g) = h + 1 /\ \A i \in DOMAIN g : g[i] = i
    BY <1>6, <2>7
  <2>9. ASSUME waits PROVE l <= (h + 1) + 1 /\ y = <<>>
    <3>1. l <= h + 1
      BY <1>9, <2>9
    <3>2. m = s[h + 1]
      BY <1>5, <1>6, <3>1, OnlyPacket
    <3>3. Len(y) = p - z
      BY <1>4, <2>2
    <3>4. p - z = 0
      BY <1>5, <1>7, <1>11, <3>2
    <3>5. y \in Seq(Byte) /\ Len(y) = 0
      BY <2>2, <3>3, <3>4
    <3> QED BY <3>1, <3>5
  <2>10. Reads(s, y, w2, g, waits)
    BY <1>4, <2>3, <2>6, <2>8, <2>9 DEF Reads
  <2>11. Len(y) <= p
    <3>1. Len(y) = p - z
      BY <1>4, <2>2
    <3> QED BY <3>1
  <2> QED BY <1>4, <2>1, <2>2, <2>7, <2>10, <2>11
<1> QED BY <1>1, <1>4, <1>7, <1>8, <1>10, <1>11

\* The sum over the fields of an entry exists for up to five of them.
LEMMA Lengths ==
    ASSUME NEW f, NEW k \in 0..5, k = Len(f)
    PROVE  \E n : n = [i \in 0..Len(f) |-> IF i = 0 THEN 0 ELSE n[i - 1] + FieldLength(f[i])]
<1> DEFINE L(i) == FieldLength(f[i])
<1> HIDE DEF L
<1>1. PICK n : n = [i \in 0..k |-> IF i = 0 THEN 0 ELSE IF i = 1 THEN 0 + L(1)
                      ELSE IF i = 2 THEN (0 + L(1)) + L(2) ELSE IF i = 3 THEN ((0 + L(1)) + L(2)) + L(3)
                      ELSE IF i = 4 THEN (((0 + L(1)) + L(2)) + L(3)) + L(4)
                      ELSE ((((0 + L(1)) + L(2)) + L(3)) + L(4)) + L(5)]
  OBVIOUS
<1>2. \A i \in 0..k : n[i] = IF i = 0 THEN 0 ELSE n[i - 1] + L(i)
  BY <1>1
<1>3. n = [i \in 0..k |-> IF i = 0 THEN 0 ELSE n[i - 1] + L(i)]
  BY <1>1, <1>2
<1> QED BY <1>3 DEF L

\* The length of an entry of three to five fields is their sum.
LEMMA Sums ==
    ASSUME NEW e, NEW k \in 3..5, k = Len(e.fields)
    PROVE  LET L(i) == FieldLength(e.fields[i])
           IN  /\ k = 3 => EntryLength(e) = L(1) + L(2) + L(3)
               /\ k = 4 => EntryLength(e) = L(1) + L(2) + L(3) + L(4)
               /\ k = 5 => EntryLength(e) = L(1) + L(2) + L(3) + L(4) + L(5)
<1>1. PICK f : f = e.fields
  OBVIOUS
<1> DEFINE Adds(n) == n = [i \in 0..Len(f) |-> IF i = 0 THEN 0 ELSE n[i - 1] + FieldLength(f[i])]
<1>2. EntryLength(e) = (CHOOSE n : Adds(n))[Len(f)]
  BY <1>1 DEF EntryLength
<1>3. PICK n : n = CHOOSE q : Adds(q)
  OBVIOUS
<1>4. Adds(n)
  <2>1. \E q : Adds(q)
    BY <1>1, Lengths
  <2> HIDE DEF Adds
  <2> QED BY <1>3, <2>1
<1>5. \A i : FieldLength(f[i]) \in {2, 4}
  BY DEF FieldLength
<1>6. /\ n[0] = 0 /\ n[1] = n[0] + FieldLength(f[1]) /\ n[2] = n[1] + FieldLength(f[2])
      /\ n[3] = n[2] + FieldLength(f[3])
      /\ k >= 4 => n[4] = n[3] + FieldLength(f[4])
      /\ k = 5 => n[5] = n[4] + FieldLength(f[5])
  BY <1>1, <1>4
<1>7. PICK a \in {2, 4}, b \in {2, 4}, c \in {2, 4}, d \in {2, 4}, g \in {2, 4} :
         /\ a = FieldLength(f[1]) /\ b = FieldLength(f[2]) /\ c = FieldLength(f[3])
         /\ d = FieldLength(f[4]) /\ g = FieldLength(f[5])
  BY <1>5, Zenon
<1>8. /\ n[1] = a /\ n[2] = a + b /\ n[3] = a + b + c
      /\ k >= 4 => n[4] = a + b + c + d
      /\ k = 5 => n[5] = a + b + c + d + g
  <2>1. n[1] = 0 + a /\ n[2] = n[1] + b /\ n[3] = n[2] + c
    BY <1>6, <1>7
  <2>2. (k >= 4 => n[4] = n[3] + d) /\ (k = 5 => n[5] = n[4] + g)
    BY <1>6, <1>7
  <2>3. n[1] = a /\ n[2] = a + b /\ n[3] = a + b + c
    BY <1>7, <2>1
  <2>4. k = 5 => k >= 4
    OBVIOUS
  <2> QED BY <1>7, <2>2, <2>3, <2>4
<1>9. EntryLength(e) = n[k]
  BY <1>1, <1>2, <1>3
<1>10. /\ k = 3 => EntryLength(e) = a + b + c
       /\ k = 4 => EntryLength(e) = a + b + c + d
       /\ k = 5 => EntryLength(e) = a + b + c + d + g
  <2>1. k = 3 => n[k] = a + b + c
    BY <1>8
  <2>2. k = 4 => n[k] = a + b + c + d
    <3> SUFFICES ASSUME k = 4 PROVE n[4] = a + b + c + d
      OBVIOUS
    <3>1. k >= 4
      OBVIOUS
    <3> QED BY <1>8, <3>1
  <2>3. k = 5 => n[k] = a + b + c + d + g
    BY <1>8
  <2> QED BY <1>9, <2>1, <2>2, <2>3
<1> QED BY <1>1, <1>7, <1>10, Zenon

FieldNames == {"ip", "port", "privateip", "privateport", "icmp"}

LEMMA Added ==
    ASSUME NEW x \in Seq(FieldNames), NEW v \in FieldNames
    PROVE  /\ x \o <<v>> \in Seq(FieldNames) /\ Len(x \o <<v>>) = Len(x) + 1
           /\ (x \o <<v>>)[Len(x) + 1] = v /\ \A i \in 1..Len(x) : (x \o <<v>>)[i] = x[i]
           /\ x \o <<>> = x
<1>1. PICK y : y = <<v>>
  OBVIOUS
<1>2. y \in Seq(FieldNames) /\ Len(y) = 1 /\ y[1] = v
  BY <1>1
<1>3. PICK z : z = x \o y
  OBVIOUS
<1>4. /\ z \in Seq(FieldNames) /\ Len(z) = Len(x) + Len(y)
      /\ \A i \in 1..(Len(x) + Len(y)) : z[i] = IF i <= Len(x) THEN x[i] ELSE y[i - Len(x)]
  BY <1>2, <1>3, ConcatProperties
<1>5. PICK l \in Nat : l = Len(x)
  OBVIOUS
<1>6. Len(z) = l + 1 /\ \A i \in 1..(l + 1) : z[i] = IF i <= l THEN x[i] ELSE y[i - l]
  BY <1>2, <1>4, <1>5, Zenon
<1>7. z[l + 1] = v
  <2>1. l + 1 \in 1..(l + 1) /\ ~(l + 1 <= l) /\ (l + 1) - l = 1
    OBVIOUS
  <2> QED BY <1>2, <1>6, <2>1
<1>8. \A i \in 1..l : z[i] = x[i]
  BY <1>6
<1>9. x \o <<>> = x
  BY ConcatEmptySeq
<1> QED BY <1>1, <1>3, <1>4, <1>5, <1>6, <1>7, <1>8, <1>9

\* The fields of an entry with a local address ip and a local port po, or without.
LEMMA Fields ==
    ASSUME NEW f, NEW ip, NEW po,
           f = <<"ip", "port">> \o (IF ip = "ok" THEN <<"privateip">> ELSE <<>>)
                 \o (IF po # "none" THEN <<"privateport">> ELSE <<>>) \o <<"icmp">>
    PROVE  /\ f[1] = "ip" /\ f[2] = "port"
           /\ ip = "ok" /\ po # "none" => Len(f) = 5 /\ f[3] = "privateip" /\ f[4] = "privateport" /\ f[5] = "icmp"
           /\ ip = "ok" /\ po = "none" => Len(f) = 4 /\ f[3] = "privateip" /\ f[4] = "icmp"
           /\ ip # "ok" /\ po # "none" => Len(f) = 4 /\ f[3] = "privateport" /\ f[4] = "icmp"
           /\ ip # "ok" /\ po = "none" => Len(f) = 3 /\ f[3] = "icmp"
<1>1. PICK x : x = <<"ip", "port">>
  OBVIOUS
<1>0. "ip" \in FieldNames /\ "port" \in FieldNames /\ "privateip" \in FieldNames
      /\ "privateport" \in FieldNames /\ "icmp" \in FieldNames
  BY DEF FieldNames
<1>2. x \in Seq(FieldNames) /\ Len(x) = 2 /\ x[1] = "ip" /\ x[2] = "port"
  BY <1>0, <1>1
<1>3. PICK y : y = x \o (IF ip = "ok" THEN <<"privateip">> ELSE <<>>)
  OBVIOUS
<1>4. PICK z : z = y \o (IF po # "none" THEN <<"privateport">> ELSE <<>>)
  OBVIOUS
<1>5. f = z \o <<"icmp">>
  BY <1>1, <1>3, <1>4
<1>6. /\ y \in Seq(FieldNames) /\ y[1] = "ip" /\ y[2] = "port"
      /\ ip = "ok" => Len(y) = 3 /\ y[3] = "privateip"
      /\ ip # "ok" => Len(y) = 2
  <2>1. CASE ip = "ok"
    <3>1. y = x \o <<"privateip">>
      BY <1>3, <2>1
    <3>2. y \in Seq(FieldNames) /\ Len(y) = Len(x) + 1 /\ y[Len(x) + 1] = "privateip" /\ \A i \in 1..Len(x) : y[i] = x[i]
      BY <1>0, <1>2, <3>1, Added
    <3> QED BY <1>2, <2>1, <3>2
  <2>2. CASE ip # "ok"
    <3>1. y = x
      BY <1>2, <1>3, <2>2, Added
    <3> QED BY <1>2, <2>2, <3>1
  <2> QED BY <2>1, <2>2
<1>7. PICK l \in 2..3 : l = Len(y)
  BY <1>6
<1>8. /\ z \in Seq(FieldNames) /\ (\A i \in 1..l : z[i] = y[i])
      /\ po # "none" => Len(z) = l + 1 /\ z[l + 1] = "privateport"
      /\ po = "none" => Len(z) = l
  <2>1. CASE po # "none"
    <3>1. z = y \o <<"privateport">>
      BY <1>4, <2>1
    <3>2. z \in Seq(FieldNames) /\ Len(z) = Len(y) + 1 /\ z[Len(y) + 1] = "privateport" /\ \A i \in 1..Len(y) : z[i] = y[i]
      BY <1>0, <1>6, <3>1, Added
    <3> QED BY <1>7, <2>1, <3>2
  <2>2. CASE po = "none"
    <3>1. z = y
      BY <1>4, <1>6, <2>2, Added
    <3> QED BY <1>6, <1>7, <2>2, <3>1
  <2> QED BY <2>1, <2>2
<1>9. PICK m \in 2..4 : m = Len(z)
  <2>1. l \in 2..4 /\ l + 1 \in 2..4
    <3>1. \A q \in 2..3 : q \in 2..4 /\ q + 1 \in 2..4
      OBVIOUS
    <3> QED BY <3>1, Zenon
  <2>2. Len(z) = l \/ Len(z) = l + 1
    BY <1>8
  <2> QED BY <2>1, <2>2
<1>10. Len(f) = m + 1 /\ f[m + 1] = "icmp" /\ \A i \in 1..m : f[i] = z[i]
  <2>1. Len(f) = Len(z) + 1 /\ f[Len(z) + 1] = "icmp" /\ \A i \in 1..Len(z) : f[i] = z[i]
    <3>1. z \in Seq(FieldNames)
      BY <1>8
    <3>2. PICK g : g = z \o <<"icmp">>
      OBVIOUS
    <3>3. Len(g) = Len(z) + 1 /\ g[Len(z) + 1] = "icmp" /\ \A i \in 1..Len(z) : g[i] = z[i]
      BY <1>0, <3>1, <3>2, Added
    <3>4. f = g
      BY <1>5, <3>2
    <3> QED BY <3>3, <3>4, Zenon
  <2> QED BY <1>9, <2>1
<1>11. 1 \in 1..l /\ 2 \in 1..l /\ 1 \in 1..m /\ 2 \in 1..m
  OBVIOUS
<1>12. f[1] = "ip" /\ f[2] = "port"
  BY <1>6, <1>8, <1>10, <1>11
<1>13. CASE ip = "ok" /\ po # "none"
  <2>1. l = 3 /\ m = 4
    BY <1>6, <1>7, <1>8, <1>9, <1>13
  <2> QED BY <1>6, <1>8, <1>10, <1>12, <1>13, <2>1
<1>14. CASE ip = "ok" /\ po = "none"
  <2>1. l = 3 /\ m = 3
    BY <1>6, <1>7, <1>8, <1>9, <1>14
  <2> QED BY <1>6, <1>8, <1>10, <1>12, <1>14, <2>1
<1>15. CASE ip # "ok" /\ po # "none"
  <2>1. l = 2 /\ m = 3
    BY <1>6, <1>7, <1>8, <1>9, <1>15
  <2> QED BY <1>6, <1>8, <1>10, <1>12, <1>15, <2>1
<1>16. CASE ip # "ok" /\ po = "none"
  <2>1. l = 2 /\ m = 2
    BY <1>6, <1>7, <1>8, <1>9, <1>16
  <2> QED BY <1>6, <1>8, <1>10, <1>12, <1>16, <2>1
<1> QED BY <1>13, <1>14, <1>15, <1>16

\* What a client reads of an entry is what the server wrote, for all servers.
LEMMA EntriesFit ==
    ASSUME NEW s \in ServerFields, NEW gpOwn \in BOOLEAN,
           Entry(s, gpOwn) # Skipped, s.localip0 # "bad"
    PROVE  EntryLength(Entry(s, gpOwn)) = ReadLength(Entry(s, gpOwn))
<1>1. PICK e : e = Entry(s, gpOwn)
  OBVIOUS
<1>2. e = OwnEntry(s) \/ e = OtherEntry(s)
  BY <1>1 DEF Entry
<1>3. CASE e = OtherEntry(s)
  <2>1. /\ e.fields = <<"searchlow", "searchhigh", "privateip", "privateport", "icmp">>
        /\ "port" \in e.flags /\ "privateip" \in e.flags /\ "privateport" \in e.flags /\ "icmp" \in e.flags
    BY <1>1, <1>3 DEF OtherEntry
  <2>2. EntryLength(e) = 16
    <3>1. PICK k \in 3..5 : k = 5
      OBVIOUS
    <3>2. k = Len(e.fields)
      BY <2>1, <3>1
    <3>3. EntryLength(e) = FieldLength(e.fields[1]) + FieldLength(e.fields[2]) + FieldLength(e.fields[3])
                             + FieldLength(e.fields[4]) + FieldLength(e.fields[5])
      BY <3>1, <3>2, Sums
    <3> QED BY <2>1, <3>3 DEF FieldLength
  <2>3. ReadLength(e) = 16
    BY <2>1 DEF ReadLength
  <2> QED BY <1>1, <2>2, <2>3
<1>4. CASE e = OwnEntry(s)
  <2>0. s.localip0 \in {"ok", "none"}
    BY <1>1, <1>4 DEF ServerFields, OwnEntry
  <2>2. /\ "port" \in e.flags /\ "icmp" \in e.flags
        /\ "privateip" \in e.flags <=> s.localip0 # "none"
        /\ "privateport" \in e.flags <=> s.localport # "none"
        /\ e.fields = <<"ip", "port">>
                          \o (IF s.localip0 = "ok" THEN <<"privateip">> ELSE <<>>)
                          \o (IF s.localport # "none" THEN <<"privateport">> ELSE <<>>)
                          \o <<"icmp">>
    BY <1>1, <1>4 DEF OwnEntry
  <2>b. PICK f : f = e.fields
    OBVIOUS
  <2>1. PICK ip, po : ip = s.localip0 /\ po = s.localport
    OBVIOUS
  <2>a. /\ f[1] = "ip" /\ f[2] = "port"
        /\ ip = "ok" /\ po # "none" => Len(f) = 5 /\ f[3] = "privateip" /\ f[4] = "privateport" /\ f[5] = "icmp"
        /\ ip = "ok" /\ po = "none" => Len(f) = 4 /\ f[3] = "privateip" /\ f[4] = "icmp"
        /\ ip # "ok" /\ po # "none" => Len(f) = 4 /\ f[3] = "privateport" /\ f[4] = "icmp"
        /\ ip # "ok" /\ po = "none" => Len(f) = 3 /\ f[3] = "icmp"
    <3>1. f = <<"ip", "port">> \o (IF ip = "ok" THEN <<"privateip">> ELSE <<>>)
                \o (IF po # "none" THEN <<"privateport">> ELSE <<>>) \o <<"icmp">>
      BY <2>1, <2>2, <2>b
    <3> QED BY <3>1, Fields
  <2>3. CASE s.localip0 = "ok" /\ s.localport # "none"
    <3>1. Len(f) = 5 /\ f[1] = "ip" /\ f[2] = "port" /\ f[3] = "privateip" /\ f[4] = "privateport" /\ f[5] = "icmp"
      BY <2>1, <2>a, <2>3
    <3>2. EntryLength(e) = 16
      <4>1. PICK k \in 3..5 : k = 5
        OBVIOUS
      <4>2. k = Len(e.fields)
        BY <2>b, <3>1, <4>1
      <4>3. EntryLength(e) = FieldLength(e.fields[1]) + FieldLength(e.fields[2]) + FieldLength(e.fields[3])
                               + FieldLength(e.fields[4]) + FieldLength(e.fields[5])
        BY <4>1, <4>2, Sums
      <4> QED BY <2>b, <3>1, <4>3 DEF FieldLength
    <3>3. ReadLength(e) = 16
      BY <2>2, <2>3 DEF ReadLength
    <3> QED BY <1>1, <3>2, <3>3
  <2>4. CASE s.localip0 = "ok" /\ s.localport = "none"
    <3>1. Len(f) = 4 /\ f[1] = "ip" /\ f[2] = "port" /\ f[3] = "privateip" /\ f[4] = "icmp"
      BY <2>1, <2>a, <2>4
    <3>2. EntryLength(e) = 14
      <4>1. PICK k \in 3..5 : k = 4
        OBVIOUS
      <4>2. k = Len(e.fields)
        BY <2>b, <3>1, <4>1
      <4>3. EntryLength(e) = FieldLength(e.fields[1]) + FieldLength(e.fields[2]) + FieldLength(e.fields[3])
                               + FieldLength(e.fields[4])
        BY <4>1, <4>2, Sums
      <4> QED BY <2>b, <3>1, <4>3 DEF FieldLength
    <3>3. ReadLength(e) = 14
      BY <2>2, <2>4 DEF ReadLength
    <3> QED BY <1>1, <3>2, <3>3
  <2>5. CASE s.localip0 = "none" /\ s.localport # "none"
    <3>1. Len(f) = 4 /\ f[1] = "ip" /\ f[2] = "port" /\ f[3] = "privateport" /\ f[4] = "icmp"
      BY <2>1, <2>a, <2>5
    <3>2. EntryLength(e) = 12
      <4>1. PICK k \in 3..5 : k = 4
        OBVIOUS
      <4>2. k = Len(e.fields)
        BY <2>b, <3>1, <4>1
      <4>3. EntryLength(e) = FieldLength(e.fields[1]) + FieldLength(e.fields[2]) + FieldLength(e.fields[3])
                               + FieldLength(e.fields[4])
        BY <4>1, <4>2, Sums
      <4> QED BY <2>b, <3>1, <4>3 DEF FieldLength
    <3>3. ReadLength(e) = 12
      BY <2>2, <2>5 DEF ReadLength
    <3> QED BY <1>1, <3>2, <3>3
  <2>6. CASE s.localip0 = "none" /\ s.localport = "none"
    <3>1. Len(f) = 3 /\ f[1] = "ip" /\ f[2] = "port" /\ f[3] = "icmp"
      BY <2>1, <2>a, <2>6
    <3>2. EntryLength(e) = 10
      <4>1. PICK k \in 3..5 : k = 3
        OBVIOUS
      <4>2. k = Len(e.fields)
        BY <2>b, <3>1, <4>1
      <4>3. EntryLength(e) = FieldLength(e.fields[1]) + FieldLength(e.fields[2]) + FieldLength(e.fields[3])
        BY <4>1, <4>2, Sums
      <4> QED BY <2>b, <3>1, <4>3 DEF FieldLength
    <3>3. ReadLength(e) = 10
      BY <2>2, <2>6 DEF ReadLength
    <3> QED BY <1>1, <3>2, <3>3
  <2> QED BY <2>0, <2>3, <2>4, <2>5, <2>6
<1> QED BY <1>2, <1>3, <1>4

\* A step of one connection.
LEMMA BrowserStep ==
    ASSUME BrowserIInv, BrowserTypeOK', NEW c \in BConn,
           \A d \in BConn : d # c => /\ sizes'[d] = sizes[d] /\ wire'[d] = wire[d]
                                     /\ connBuffers'[d] = connBuffers[d] /\ handled'[d] = handled[d]
                                     /\ d \in sbOpen' <=> d \in sbOpen,
           UNCHANGED cut, Len(connBuffers'[c]) <= BufferLimit,
           connBuffers'[c] \in Seq(Own(sizes'[c])), wire'[c] \in Seq(Own(sizes'[c])),
           c \notin sbOpen' => connBuffers'[c] = <<>>,
           c \in sbOpen' \ cut => Reads(sizes'[c], connBuffers'[c], wire'[c], handled'[c], c \notin Pipelining)
    PROVE  BrowserIInv'
<1>1. ASSUME NEW d \in BConn
      PROVE  /\ Len(connBuffers'[d]) <= BufferLimit
             /\ connBuffers'[d] \in Seq(Own(sizes'[d])) /\ wire'[d] \in Seq(Own(sizes'[d]))
             /\ d \notin sbOpen' => connBuffers'[d] = <<>>
             /\ d \in sbOpen' \ cut' => Reads(sizes'[d], connBuffers'[d], wire'[d], handled'[d], d \notin Pipelining)
  <2>1. CASE d = c
    BY <2>1
  <2>2. CASE d # c
    <3>1. /\ Len(connBuffers[d]) <= BufferLimit
          /\ connBuffers[d] \in Seq(Own(sizes[d])) /\ wire[d] \in Seq(Own(sizes[d]))
          /\ d \notin sbOpen => connBuffers[d] = <<>>
          /\ d \in sbOpen \ cut => Reads(sizes[d], connBuffers[d], wire[d], handled[d], d \notin Pipelining)
      BY DEF BrowserIInv
    <3> QED BY <2>2, <3>1
  <2> QED BY <2>1, <2>2
<1> QED BY <1>1 DEF BrowserIInv

\* The connection is closed by the server or by its client.
LEMMA ClosedStep ==
    ASSUME BrowserIInv, NEW c \in BConn, Closed(c), NEW w \in Seq(Byte),
           w \in Seq(Own(sizes[c])), wire' = [wire EXCEPT ![c] = w], UNCHANGED <<sizes, cut>>
    PROVE  BrowserIInv'
<1>1. BrowserTypeOK
  BY DEF BrowserIInv
<1>2. <<>> \in Seq(Byte) /\ Len(<<>>) = 0 /\ 0 <= BufferLimit
  BY BrowserAssumption
<1>3. /\ connBuffers' \in [BConn -> Seq(Byte)] /\ connBuffers'[c] = <<>>
      /\ wire' \in [BConn -> Seq(Byte)] /\ wire'[c] = w
      /\ \A d \in BConn : d # c => connBuffers'[d] = connBuffers[d] /\ wire'[d] = wire[d]
  BY <1>1, <1>2 DEF BrowserTypeOK, Closed
<1>4. BrowserTypeOK'
  BY <1>1, <1>3 DEF BrowserTypeOK, Closed
<1>5. c \notin sbOpen' /\ \A d \in BConn : d # c => (d \in sbOpen' <=> d \in sbOpen)
  BY DEF Closed
<1>6. \A d \in BConn : d # c => handled'[d] = handled[d] /\ sizes'[d] = sizes[d]
  BY DEF Closed
<1>7. Len(connBuffers'[c]) <= BufferLimit
  BY <1>2, <1>3
<1>8. connBuffers'[c] \in Seq(Own(sizes'[c])) /\ wire'[c] \in Seq(Own(sizes'[c]))
  <2>1. <<>> \in Seq(Own(sizes[c]))
    OBVIOUS
  <2> QED BY <1>3, <2>1
<1> QED BY <1>3, <1>4, <1>5, <1>6, <1>7, <1>8, BrowserStep

LEMMA Wider ==
    ASSUME NEW S, NEW T, S \subseteq T, NEW x \in Seq(S)
    PROVE  x \in Seq(T)
OBVIOUS

LEMMA RequestStep ==
    ASSUME BrowserIInv, NEW c \in BConn, NEW n \in PacketSizes, Request(c, n)
    PROVE  BrowserIInv'
<1>1. BrowserTypeOK /\ c \in sbOpen /\ Len(connBuffers[c]) <= BufferLimit
  BY DEF BrowserIInv, Request
<1>2. c \notin cut => Reads(sizes[c], connBuffers[c], wire[c], handled[c], c \notin Pipelining)
  BY <1>1 DEF BrowserIInv
<1>3. PICK s \in Seq(PacketSizes), buf \in Seq(Byte), wi \in Seq(Byte), hs \in Seq(Nat) :
         s = sizes[c] /\ buf = connBuffers[c] /\ wi = wire[c] /\ hs = handled[c]
  BY <1>1 DEF BrowserTypeOK
<1>4. PICK waits : waits = (c \notin Pipelining)
  OBVIOUS
<1>5. (c \notin cut => Reads(s, buf, wi, hs, waits)) /\ (waits => Len(hs) = Len(s))
  BY <1>2, <1>3, <1>4 DEF Request
<1>6. PICK t, w : t = Append(s, n) /\ w = wi \o Bytes(Len(s) + 1, n)
  OBVIOUS
<1>a. PICK y : y = Bytes(Len(s) + 1, n)
  OBVIOUS
<1>b. Own(s) \subseteq Own(t)
  BY <1>6 DEF Own
<1>c. y \in Seq(Own(t)) /\ y \in Seq(Byte)
  <2>1. y = [i \in 1..n |-> <<Len(s) + 1, i>>] /\ n \in Nat
    BY <1>a, BrowserAssumption DEF Bytes
  <2>2. \A i \in 1..n : <<Len(s) + 1, i>> \in Own(t) /\ <<Len(s) + 1, i>> \in Byte
    BY <1>6 DEF Own, Byte
  <2> QED BY <2>1, <2>2
<1>d. buf \in Seq(Own(t)) /\ w \in Seq(Own(t)) /\ w \in Seq(Byte)
  <2>1. buf \in Seq(Own(s)) /\ wi \in Seq(Own(s))
    BY <1>3 DEF BrowserIInv
  <2>2. buf \in Seq(Own(t)) /\ wi \in Seq(Own(t))
    BY <1>b, <2>1, Wider
  <2>3. wi \o y \in Seq(Own(t)) /\ wi \o y \in Seq(Byte)
    BY <1>c, <2>2, ConcatProperties
  <2> QED BY <1>6, <1>a, <2>2, <2>3
<1>7. w \in Seq(Byte) /\ (c \notin cut => Reads(t, buf, w, hs, waits))
  BY <1>5, <1>6, <1>d, ReadsSend
<1>8. t \in Seq(PacketSizes)
  BY <1>6
<1>9. /\ sizes' = [sizes EXCEPT ![c] = t] /\ wire' = [wire EXCEPT ![c] = w]
      /\ UNCHANGED <<connBuffers, handled, sbOpen, cut>>
  BY <1>3, <1>6 DEF Request
<1>10. /\ sizes' \in [BConn -> Seq(PacketSizes)] /\ wire' \in [BConn -> Seq(Byte)]
       /\ sizes'[c] = t /\ wire'[c] = w
       /\ \A d \in BConn : d # c => sizes'[d] = sizes[d] /\ wire'[d] = wire[d]
  BY <1>1, <1>7, <1>8, <1>9 DEF BrowserTypeOK
<1>11. BrowserTypeOK'
  BY <1>1, <1>9, <1>10 DEF BrowserTypeOK
<1>12. c \notin cut => Reads(sizes'[c], connBuffers'[c], wire'[c], handled'[c], c \notin Pipelining)
  BY <1>3, <1>4, <1>7, <1>9, <1>10
<1>13. connBuffers'[c] \in Seq(Own(sizes'[c])) /\ wire'[c] \in Seq(Own(sizes'[c]))
  BY <1>3, <1>9, <1>10, <1>d
<1> QED BY <1>1, <1>9, <1>10, <1>11, <1>12, <1>13, BrowserStep

LEMMA FragmentStep ==
    ASSUME BrowserIInv, NEW c \in BConn, Fragment(c)
    PROVE  BrowserIInv'
<1>1. BrowserTypeOK /\ c \in sbOpen /\ UNCHANGED <<sizes, cut>>
  BY DEF BrowserIInv, Fragment
<1>2. c \notin cut => Reads(sizes[c], connBuffers[c], wire[c], handled[c], c \notin Pipelining)
  BY <1>1 DEF BrowserIInv
<1>3. PICK s \in Seq(PacketSizes), buf \in Seq(Byte), wi \in Seq(Byte), hs \in Seq(Nat) :
         s = sizes[c] /\ buf = connBuffers[c] /\ wi = wire[c] /\ hs = handled[c]
  BY <1>1 DEF BrowserTypeOK
<1>4. PICK waits : waits = (c \notin Pipelining)
  OBVIOUS
<1>5. c \notin cut => Reads(s, buf, wi, hs, waits)
  BY <1>2, <1>3, <1>4
<1>6. PICK n \in 1..Len(wi) :
         /\ wire' = [wire EXCEPT ![c] = SubSeq(wi, n + 1, Len(wi))]
         /\ HandlePacket(c, SubSeq(wi, 1, n))
  BY <1>3 DEF Fragment
<1>7. PICK b2, w2 : b2 = buf \o SubSeq(wi, 1, n) /\ w2 = SubSeq(wi, n + 1, Len(wi))
  OBVIOUS
<1>8. Splits(buf, wi, n, b2, w2)
  BY <1>7 DEF Splits
<1>9. PICK h \in Nat : h = Len(hs)
  OBVIOUS
<1>10. c \notin cut =>
         /\ b2[1][1] = h + 1 /\ b2[1][2] = 1 /\ s[h + 1] \in Nat /\ s[h + 1] >= 2
         /\ Len(b2) < s[h + 1] => Reads(s, b2, w2, hs, waits)
         /\ Len(b2) >= s[h + 1] => Reads(s, SubSeq(b2, s[h + 1] + 1, Len(b2)), w2, Append(hs, h + 1), waits)
  BY <1>5, <1>8, <1>9, ReadsFragment
<1>a. /\ b2 \in Seq(Own(s)) /\ w2 \in Seq(Own(s)) /\ b2 \in Seq(Byte) /\ w2 \in Seq(Byte)
      /\ Len(b2) >= 1
  <2>1. buf \in Seq(Own(s)) /\ wi \in Seq(Own(s)) /\ n \in 0..Len(wi)
    BY <1>3 DEF BrowserIInv
  <2>2. PICK x : x = SubSeq(wi, 1, n)
    OBVIOUS
  <2>3. x \in Seq(Own(s)) /\ w2 \in Seq(Own(s))
    BY <1>7, <2>1, <2>2, Cut
  <2>4. b2 \in Seq(Own(s))
    BY <1>7, <2>1, <2>2, <2>3, ConcatProperties
  <2>5. b2 \in Seq(Byte) /\ w2 \in Seq(Byte) /\ Len(b2) = Len(buf) + n
    BY <1>8, Moved
  <2>6. Len(buf) \in Nat /\ n >= 1 /\ n \in Nat
    OBVIOUS
  <2> QED BY <2>3, <2>4, <2>5, <2>6
<1>b. PICK l \in Nat, k \in Nat : l = Len(b2) /\ k = b2[1][1] /\ l >= 1 /\ k \in 1..Len(s)
  <2>1. Len(b2) \in Nat /\ b2[1] \in Own(s)
    BY <1>a
  <2> QED BY <1>a, <2>1 DEF Own
<1>11. PICK z \in Nat :
         /\ c \notin cut => z = s[h + 1] /\ z >= 2
         /\ IF l > BufferLimit THEN Closed(c)
            ELSE IF l >= HeaderSize /\ (z < MinPacket \/ z > BufferLimit) THEN Closed(c)
            ELSE IF l < HeaderSize \/ l < z
            THEN connBuffers' = [connBuffers EXCEPT ![c] = b2] /\ UNCHANGED <<handled, sbOpen>>
            ELSE HandleFirst(c, b2, z)
  <2>1. connBuffers[c] \o SubSeq(wi, 1, n) = b2
    BY <1>3, <1>7
  <2>2. PICK size \in PacketSize(c, b2) :
            IF l > BufferLimit THEN Closed(c)
            ELSE IF l >= HeaderSize /\ (size < MinPacket \/ size > BufferLimit) THEN Closed(c)
            ELSE IF l < HeaderSize \/ l < size
            THEN connBuffers' = [connBuffers EXCEPT ![c] = b2] /\ UNCHANGED <<handled, sbOpen>>
            ELSE HandleFirst(c, b2, size)
    BY <1>6, <1>b, <2>1 DEF HandlePacket
  <2>3. size \in Nat
    <3>1. CASE b2[1][2] = 1
      <4>1. size = s[k] /\ s[k] \in PacketSizes
        BY <1>3, <1>b, <2>2, <3>1 DEF PacketSize
      <4> QED BY <4>1, BrowserAssumption
    <3>2. CASE b2[1][2] # 1
      BY <3>2, BrowserAssumption DEF PacketSize
    <3> QED BY <3>1, <3>2
  <2>4. c \notin cut => size = s[h + 1] /\ size >= 2
    BY <1>3, <1>10 DEF PacketSize
  <2> QED BY <2>2, <2>3, <2>4
<1>12. wire' = [wire EXCEPT ![c] = w2]
  BY <1>6, <1>7
<1>13. \/ Closed(c)
       \/ /\ l <= BufferLimit /\ (c \notin cut => l < z) /\ connBuffers' = [connBuffers EXCEPT ![c] = b2]
          /\ UNCHANGED <<handled, sbOpen>>
       \/ /\ l <= BufferLimit /\ l >= z
          /\ connBuffers' = [connBuffers EXCEPT ![c] = SubSeq(b2, z + 1, l)]
          /\ handled' = [handled EXCEPT ![c] = Append(hs, k)]
          /\ UNCHANGED sbOpen
  <2>1. \/ Closed(c)
        \/ /\ ~(l > BufferLimit) /\ (l < 2 \/ l < z) /\ connBuffers' = [connBuffers EXCEPT ![c] = b2]
           /\ UNCHANGED <<handled, sbOpen>>
        \/ ~(l > BufferLimit) /\ ~(l < 2 \/ l < z) /\ HandleFirst(c, b2, z)
    BY <1>11 DEF HeaderSize
  <2>2. HandleFirst(c, b2, z) =>
          /\ connBuffers' = [connBuffers EXCEPT ![c] = SubSeq(b2, z + 1, l)]
          /\ handled' = [handled EXCEPT ![c] = Append(hs, k)]
          /\ UNCHANGED sbOpen
    BY <1>3, <1>b DEF HandleFirst
  <2>3. /\ ~(l > BufferLimit) => l <= BufferLimit
        /\ (l < 2 \/ l < z) /\ c \notin cut => l < z
        /\ ~(l < 2 \/ l < z) => l >= z
    BY <1>11, BrowserAssumption
  <2> QED BY <2>1, <2>2, <2>3
<1>14. CASE Closed(c)
  BY <1>1, <1>3, <1>12, <1>14, <1>a, ClosedStep
<1>15. /\ wire' \in [BConn -> Seq(Byte)] /\ wire'[c] = w2 /\ \A d \in BConn : d # c => wire'[d] = wire[d]
  BY <1>1, <1>12, <1>a DEF BrowserTypeOK
<1>16. CASE /\ l <= BufferLimit /\ (c \notin cut => l < z) /\ connBuffers' = [connBuffers EXCEPT ![c] = b2]
            /\ UNCHANGED <<handled, sbOpen>>
  <2>1. c \notin cut => Reads(s, b2, w2, hs, waits)
    BY <1>10, <1>11, <1>16, <1>b
  <2>2. /\ connBuffers' \in [BConn -> Seq(Byte)] /\ connBuffers'[c] = b2
        /\ \A d \in BConn : d # c => connBuffers'[d] = connBuffers[d]
    BY <1>1, <1>16, <1>a DEF BrowserTypeOK
  <2>3. BrowserTypeOK'
    BY <1>1, <1>15, <1>16, <2>2 DEF BrowserTypeOK
  <2>4. c \notin cut => Reads(sizes'[c], connBuffers'[c], wire'[c], handled'[c], c \notin Pipelining)
    BY <1>1, <1>3, <1>4, <1>15, <1>16, <2>1, <2>2
  <2>5. Len(connBuffers'[c]) <= BufferLimit
    BY <1>16, <1>b, <2>2
  <2>6. connBuffers'[c] \in Seq(Own(sizes'[c])) /\ wire'[c] \in Seq(Own(sizes'[c]))
    BY <1>1, <1>3, <1>15, <1>a, <2>2
  <2> QED BY <1>1, <1>15, <1>16, <2>2, <2>3, <2>4, <2>5, <2>6, BrowserStep
<1>17. CASE /\ l <= BufferLimit /\ l >= z
            /\ connBuffers' = [connBuffers EXCEPT ![c] = SubSeq(b2, z + 1, l)]
            /\ handled' = [handled EXCEPT ![c] = Append(hs, k)]
            /\ UNCHANGED sbOpen
  <2>1. PICK y, g : y = SubSeq(b2, z + 1, l) /\ g = Append(hs, k)
    OBVIOUS
  <2>2. /\ y \in Seq(Byte) /\ y \in Seq(Own(s)) /\ Len(y) <= l
        /\ c \notin cut => Reads(s, y, w2, g, waits)
    <3>1. z \in 0..Len(b2)
      BY <1>17, <1>b
    <3>2. y \in Seq(Byte) /\ y \in Seq(Own(s)) /\ Len(y) = l - z
      BY <1>a, <1>b, <2>1, <3>1, Cut
    <3>3. l - z <= l
      OBVIOUS
    <3>4. c \notin cut => Reads(s, y, w2, g, waits)
      BY <1>10, <1>11, <1>17, <1>b, <2>1
    <3> QED BY <3>2, <3>3, <3>4
  <2>3. g \in Seq(Nat)
    BY <2>1
  <2>4. connBuffers' = [connBuffers EXCEPT ![c] = y] /\ handled' = [handled EXCEPT ![c] = g]
    BY <1>17, <2>1
  <2>5. /\ connBuffers' \in [BConn -> Seq(Byte)] /\ connBuffers'[c] = y
        /\ handled' \in [BConn -> Seq(Nat)] /\ handled'[c] = g
        /\ \A d \in BConn : d # c => connBuffers'[d] = connBuffers[d] /\ handled'[d] = handled[d]
    BY <1>1, <2>2, <2>3, <2>4 DEF BrowserTypeOK
  <2>6. BrowserTypeOK'
    BY <1>1, <1>15, <1>17, <2>5 DEF BrowserTypeOK
  <2>7. c \notin cut => Reads(sizes'[c], connBuffers'[c], wire'[c], handled'[c], c \notin Pipelining)
    BY <1>1, <1>3, <1>4, <1>15, <2>2, <2>5
  <2>8. Len(connBuffers'[c]) <= BufferLimit
    <3>1. PICK q \in Nat : q = Len(y) /\ q <= l
      BY <2>2
    <3>2. q <= BufferLimit
      <4>1. l <= BufferLimit /\ BufferLimit \in Nat
        BY <1>17, BrowserAssumption
      <4> QED BY <3>1, <4>1
    <3> QED BY <2>5, <3>1, <3>2
  <2>9. connBuffers'[c] \in Seq(Own(sizes'[c])) /\ wire'[c] \in Seq(Own(sizes'[c]))
    BY <1>1, <1>3, <1>15, <1>a, <2>2, <2>5
  <2> QED BY <1>1, <1>15, <1>17, <2>5, <2>6, <2>7, <2>8, <2>9, BrowserStep
<1> QED BY <1>13, <1>14, <1>16, <1>17

LEMMA RestartStep ==
    ASSUME BrowserIInv, NEW state, StartServer(state)
    PROVE  BrowserIInv'
<1>1. CASE state = "load"
  BY <1>1 DEF StartServer, sbvars, BrowserIInv, BrowserTypeOK
<1>2. CASE state # "load"
  <2>1. /\ connBuffers' = [c \in BConn |-> <<>>] /\ sbOpen' \subseteq sbOpen
        /\ sizes' = sizes /\ wire' = wire /\ handled' = handled
        /\ cut' = cut \cup {c \in sbOpen' : connBuffers[c] # <<>>}
    BY <1>2 DEF StartServer
  <2>2. <<>> \in Seq(Byte) /\ Len(<<>>) = 0 /\ 0 <= BufferLimit
    BY BrowserAssumption
  <2>3. BrowserTypeOK'
    BY <2>1, <2>2 DEF BrowserIInv, BrowserTypeOK
  <2>4. \A c \in BConn : connBuffers'[c] = <<>>
    BY <2>1
  <2>5. \A c \in BConn : Len(connBuffers'[c]) <= BufferLimit
    BY <2>2, <2>4
  <2>6. ASSUME NEW c \in BConn PROVE connBuffers'[c] \in Seq(Own(sizes'[c])) /\ wire'[c] \in Seq(Own(sizes'[c]))
    <3>1. <<>> \in Seq(Own(sizes[c])) /\ wire[c] \in Seq(Own(sizes[c]))
      BY DEF BrowserIInv
    <3> QED BY <2>1, <2>4, <3>1
  <2>7. ASSUME NEW c \in BConn, c \in sbOpen' \ cut'
        PROVE  Reads(sizes'[c], connBuffers'[c], wire'[c], handled'[c], c \notin Pipelining)
    <3>1. c \in sbOpen \ cut /\ connBuffers'[c] = connBuffers[c]
      BY <2>1, <2>4, <2>7
    <3>2. Reads(sizes[c], connBuffers[c], wire[c], handled[c], c \notin Pipelining)
      BY <3>1 DEF BrowserIInv
    <3> QED BY <2>1, <3>1, <3>2
  <2> QED BY <2>3, <2>4, <2>5, <2>6, <2>7 DEF BrowserIInv
<1> QED BY <1>1, <1>2

\* The invariant says what StreamKept and LeftoverOnlyPipelined say.
LEMMA BrowserImplies ==
    ASSUME BrowserIInv
    PROVE  BrowserInv
<1>1. BrowserTypeOK
  BY DEF BrowserIInv
<1>2. StreamKept
  <2> SUFFICES ASSUME NEW c \in sbOpen \ cut, NEW r, r = connBuffers[c] \o wire[c]
               PROVE  /\ \A i \in DOMAIN handled[c] : handled[c][i] = i
                      /\ r = <<>> => Len(handled[c]) = Len(sizes[c])
                      /\ r # <<>> =>
                           /\ r[1] = <<Len(handled[c]) + 1, 1>>
                           /\ \A i \in 1..(Len(r) - 1) : r[i + 1] = After(sizes[c], r[i])
                           /\ r[Len(r)] = <<Len(sizes[c]), sizes[c][Len(sizes[c])]>>
    BY DEF StreamKept
  <2>1. Reads(sizes[c], connBuffers[c], wire[c], handled[c], c \notin Pipelining)
    BY <1>1 DEF BrowserIInv, BrowserTypeOK
  <2>2. r \in Seq(Byte)
    <3>1. connBuffers[c] \in Seq(Byte) /\ wire[c] \in Seq(Byte)
      BY <1>1 DEF BrowserTypeOK
    <3> QED BY <3>1, ConcatProperties
  <2>3. Len(r) = 0 <=> r = <<>>
    <3>1. PICK q \in Seq(Byte) : q = r
      BY <2>2
    <3>2. Len(q) = 0 <=> q = <<>>
      BY <3>1, EmptySeq
    <3> QED BY <3>1, <3>2
  <2>4. Chain(sizes[c], Len(sizes[c]), r, Len(r), Len(handled[c])) /\ \A i \in DOMAIN handled[c] : handled[c][i] = i
    BY <2>1 DEF Reads, Rest
  <2> QED BY <2>3, <2>4 DEF Chain
<1>3. LeftoverOnlyPipelined
  <2> SUFFICES ASSUME NEW c \in BConn
               PROVE  /\ Len(connBuffers[c]) <= BufferLimit
                      /\ connBuffers[c] # <<>> /\ c \notin Pipelining \cup cut =>
                           Len(connBuffers[c]) < sizes[c][connBuffers[c][1][1]]
    BY DEF LeftoverOnlyPipelined
  <2>1. Len(connBuffers[c]) <= BufferLimit
    BY DEF BrowserIInv
  <2>2. ASSUME connBuffers[c] # <<>>, c \notin Pipelining \cup cut
        PROVE  Len(connBuffers[c]) < sizes[c][connBuffers[c][1][1]]
    <3>1. Reads(sizes[c], connBuffers[c], wire[c], handled[c], c \notin Pipelining)
      BY <2>2 DEF BrowserIInv
    <3>2. PICK buf \in Seq(Byte), wi \in Seq(Byte), h \in Nat :
             buf = connBuffers[c] /\ wi = wire[c] /\ h = Len(handled[c])
      BY <1>1 DEF BrowserTypeOK
    <3>3. PICK r : r = buf \o wi
      OBVIOUS
    <3>4. /\ Len(buf) < sizes[c][h + 1] /\ Chain(sizes[c], Len(sizes[c]), r, Len(r), h)
      BY <2>2, <3>1, <3>2, <3>3 DEF Reads, Rest
    <3>5. /\ Len(r) = Len(buf) + Len(wi)
          /\ \A i \in 1..(Len(buf) + Len(wi)) : r[i] = IF i <= Len(buf) THEN buf[i] ELSE wi[i - Len(buf)]
      BY <3>3, ConcatProperties
    <3>6. PICK p \in Nat, q \in Nat : p = Len(buf) /\ q = Len(wi) /\ p # 0
      BY <2>2, <3>2
    <3>7. r[1] = buf[1] /\ Len(r) # 0
      <4>1. 1 \in 1..(p + q) /\ 1 <= p /\ p + q # 0
        BY <3>6
      <4> QED BY <3>5, <3>6, <4>1
    <3>8. buf[1] = <<h + 1, 1>>
      BY <3>4, <3>7 DEF Chain
    <3>9. buf[1][1] = h + 1
      BY <3>8
    <3> QED BY <3>2, <3>4, <3>9
  <2> QED BY <2>1, <2>2
<1>4. EntriesReadable
  BY EntriesFit DEF EntriesReadable
<1> QED BY <1>2, <1>3, <1>4 DEF BrowserInv

\* For any number of clients, of packets of any sizes from 2 on and of fragments of
\* any length, and across restarts of all three kinds: the server browser puts every
\* stream together without losing, repeating or moving a byte
\* (serverbrowser/main.go:89-167), except one whose buffer an integrated restart
\* lost; of these and of the others no buffer is ever larger than the limit; only a
\* client that does not wait for its answers can have a whole packet left in its
\* buffer, and the flags and fields of every entry agree (server.go:185-323).
THEOREM StreamsAreKept == BrowserInit /\ [][BrowserNext]_sbvars => []BrowserInv
<1>1. BrowserInit => BrowserIInv
  <2> SUFFICES ASSUME BrowserInit PROVE BrowserIInv
    OBVIOUS
  <2>1. <<>> \in Seq(Byte) /\ <<>> \in Seq(Nat) /\ <<>> \in Seq(PacketSizes) /\ Len(<<>>) = 0 /\ 0 <= BufferLimit
    BY BrowserAssumption
  <2>2. BrowserTypeOK
    BY <2>1 DEF BrowserInit, BrowserTypeOK
  <2>3. \A c \in BConn : /\ connBuffers[c] = <<>> /\ wire[c] = <<>> /\ sizes[c] = <<>> /\ handled[c] = <<>>
                         /\ c \in sbOpen
                         /\ <<>> \in Seq(Own(<<>>))
    BY DEF BrowserInit
  <2>4. <<>> \o <<>> = <<>>
    BY <2>1, ConcatEmptySeq
  <2>5. Rest(<<>>, <<>>, 0)
    BY <2>1 DEF Rest, Chain
  <2>6. \A w : Reads(<<>>, <<>>, <<>>, <<>>, w)
    BY <2>1, <2>4, <2>5 DEF Reads
  <2>7. \A c \in BConn : Len(connBuffers[c]) <= BufferLimit
    BY <2>1, <2>3
  <2>8. ASSUME NEW c \in BConn PROVE Reads(sizes[c], connBuffers[c], wire[c], handled[c], c \notin Pipelining)
    BY <2>3, <2>6
  <2> QED BY <2>2, <2>3, <2>7, <2>8 DEF BrowserIInv
<1>2. BrowserIInv /\ [BrowserNext]_sbvars => BrowserIInv'
  <2> SUFFICES ASSUME BrowserIInv, [BrowserNext]_sbvars PROVE BrowserIInv'
    OBVIOUS
  <2>1. CASE UNCHANGED sbvars
    BY <2>1 DEF sbvars, BrowserIInv, BrowserTypeOK
  <2>2. ASSUME NEW c \in BConn, NEW n \in PacketSizes, Request(c, n) PROVE BrowserIInv'
    BY <2>2, RequestStep
  <2>3. ASSUME NEW c \in BConn, Fragment(c) PROVE BrowserIInv'
    BY <2>3, FragmentStep
  <2>4. ASSUME NEW c \in BConn, HangUp(c) PROVE BrowserIInv'
    <3>0. <<>> \in Seq(Byte)
      OBVIOUS
    <3>1. PICK w \in Seq(Byte) : w = <<>>
      BY <3>0
    <3>2. w \in Seq(Own(sizes[c]))
      BY <3>1
    <3> QED BY <2>4, <3>1, <3>2, ClosedStep DEF HangUp
  <2>5. ASSUME NEW state, StartServer(state) PROVE BrowserIInv'
    BY <2>5, RestartStep
  <2> QED BY <2>1, <2>2, <2>3, <2>4, <2>5 DEF BrowserNext
<1>3. BrowserIInv => BrowserInv
  BY BrowserImplies
<1> QED BY <1>1, <1>2, <1>3, PTL

-----------------------------------------------------------------------------
(* gpcm's connections: the tables agree, a banned user stays only in the two  *)
(* ways that the code allows, and GPCM implements Presence.                  *)

\* What a handler knows of its own connection wherever it has released the
\* mutex.  A login belongs to no session yet; the backend knows the connection,
\* since a restart waits for the handler.
Handlers ==
    \A c \in Conn :
        /\ pc[c] = "none" => ~loggedIn[c]
        /\ pc[c] \in {"checked", "waiting", "registered"} =>
              pid[c] \in Profile /\ ~loggedIn[c] /\ known[c]
        /\ pc[c] = "leaving" => loggedIn[c] /\ known[c]

\* Whose an entry of sessions may be, also after an exLogin replaced a profile
\* ID: never a connection that is still looking for a place, so that Register
\* overwrites nothing and gives a connection one entry.
Entries ==
    \A p \in Profile, c \in Conn : sessions[p] = c =>
        /\ pc[c] \in {"registered", "idle", "leaving", "closed"}
        /\ pc[c] = "registered" => pid[c] = p
        /\ pc[c] \in {"idle", "leaving"} => loggedIn[c] /\ known[c]
        /\ pc[c] = "closed" => pid[c] # p

\* The inductive invariant.
LoginInv == TypeOK /\ Handlers /\ Entries /\ SessionsAgree

\* The same for bans: a session has the profile ID of its user's row unless the
\* row was moved meanwhile, and a login that waits was already in the middle of it.
WaitingSlipped ==
    \A c \in Entered \ slipped : acct[c] \in User =>
        /\ dbProfile[acct[c]] = pid[c]
        /\ pc[c] \in {"checked", "waiting"} /\ acct[c] \in banned => pid[c] \in kicking

-----------------------------------------------------------------------------
(* The inductive invariant. *)

LEMMA InitLoginInv == Init => LoginInv /\ WaitingSlipped /\ BannedOnlySlipped
<1> SUFFICES ASSUME Init PROVE LoginInv /\ WaitingSlipped /\ BannedOnlySlipped
  OBVIOUS
<1>1. TypeOK
  <2>1. drift \in BOOLEAN
    BY Zenon DEF Init
  <2>2. /\ dead \in [Conn -> BOOLEAN]
        /\ known \in [Conn -> BOOLEAN]
        /\ loggedIn \in [Conn -> BOOLEAN]
    BY DEF Init
  <2> QED BY <2>1, <2>2 DEF Init, TypeOK, Steps
<1>2. Handlers /\ Entries /\ SessionsAgree
  BY GPCMAssumption DEF Init, Handlers, Entries, SessionsAgree, GPCMAssumption
<1>3. WaitingSlipped /\ BannedOnlySlipped
  BY GPCMAssumption DEF Init, WaitingSlipped, BannedOnlySlipped, Entered, GPCMAssumption
<1> QED BY <1>1, <1>2, <1>3 DEF LoginInv

\* Connections come and are closed by their clients, and logins are refused.
LEMMA StepConnection ==
    ASSUME LoginInv, NEW c \in Conn,
           \/ NewConnection(c) \/ Disconnect(c) \/ LoginCheckFails(c)
           \/ ExLoginCheckFails(c)
           \/ \E u \in User, p \in Profile \cup {NoProfile} : LoginRefused(c, u, p)
    PROVE  LoginInv'
<1> USE GPCMAssumption DEF LoginInv, GPCMAssumption, dbVars
<1>1. CASE NewConnection(c)
  <2>1. TypeOK'
    BY <1>1 DEF NewConnection, TypeOK, Steps
  <2>2. Handlers' /\ Entries' /\ SessionsAgree'
    BY <1>1 DEF NewConnection, TypeOK, Steps, Handlers, Entries, SessionsAgree
  <2> QED BY <2>1, <2>2
<1>2. CASE Disconnect(c) \/ LoginCheckFails(c) \/ ExLoginCheckFails(c)
  <2>1. TypeOK'
    BY <1>2 DEF Disconnect, LoginCheckFails, ExLoginCheckFails, TypeOK
  <2>2. Handlers' /\ Entries' /\ SessionsAgree'
    BY <1>2 DEF Disconnect, LoginCheckFails, ExLoginCheckFails, Handlers, Entries,
                SessionsAgree
  <2> QED BY <2>1, <2>2
<1>3. ASSUME NEW u \in User, NEW p \in Profile \cup {NoProfile}, LoginRefused(c, u, p)
      PROVE  LoginInv'
  <2>1. TypeOK'
    <3>1. dbProfile' \in [User -> Profile \cup {NoProfile}]
      BY <1>3 DEF LoginRefused, RowAfterLogin, TypeOK
    <3>2. slipped' \subseteq Conn
      BY <1>3 DEF LoginRefused, MovedUnder, Entered, TypeOK
    <3> QED BY <1>3, <3>1, <3>2 DEF LoginRefused, TypeOK
  <2>2. Handlers' /\ Entries' /\ SessionsAgree'
    BY <1>3 DEF LoginRefused, TypeOK, Handlers, Entries, SessionsAgree
  <2> QED BY <2>1, <2>2
<1> QED BY <1>1, <1>2, <1>3

\* A login up to its registration, and its end.
LEMMA StepLogin ==
    ASSUME LoginInv, NEW c \in Conn,
           \/ \E u \in User, p \in Profile \cup {NoProfile} : Login(c, u, p)
           \/ LoginLookup(c) \/ LoginPoll(c) \/ LoginGiveUp(c) \/ LoginDone(c)
    PROVE  LoginInv'
<1> USE GPCMAssumption DEF LoginInv, GPCMAssumption, dbVars
<1>1. ASSUME NEW u \in User, NEW p \in Profile \cup {NoProfile}, Login(c, u, p)
      PROVE  LoginInv'
  <2>1. PICK q \in Profile : /\ dbProfile' = [dbProfile EXCEPT ![u] = q]
                             /\ pid'  = [pid EXCEPT ![c] = q]
                             /\ slipped' = (slipped \cup MovedUnder(u, q)) \ {c}
    BY <1>1 DEF Login
  <2>2. TypeOK'
    BY <1>1, <2>1 DEF Login, MovedUnder, Entered, TypeOK, Steps
  <2>3. Handlers' /\ Entries' /\ SessionsAgree'
    BY <1>1, <2>1 DEF Login, TypeOK, Handlers, Entries, SessionsAgree
  <2> QED BY <2>2, <2>3
<1>2. ASSUME pc[c] \in {"checked", "waiting"}, sessions[pid[c]] = NoConn, Register(c),
             UNCHANGED <<dead, known, acct, pid, loggedIn, qr2Logins, dbVars, drift, slipped>>
      PROVE  LoginInv'
  <2>1. pid[c] \in Profile /\ ~loggedIn[c] /\ known[c]
    BY <1>2 DEF Handlers
  <2>2. TypeOK'
    BY <1>2, <2>1 DEF Register, TypeOK, Steps
  <2>3. Handlers' /\ Entries'
    BY <1>2, <2>1 DEF Register, TypeOK, Handlers, Entries
  <2>4. SessionsAgree'
    BY <1>2, <2>1 DEF Register, TypeOK, Entries, SessionsAgree
  <2> QED BY <2>2, <2>3, <2>4
<1>3. CASE LoginPoll(c)
  BY <1>2, <1>3 DEF LoginPoll
<1>4. CASE LoginLookup(c)
  <2>1. CASE sessions[pid[c]] = NoConn
    BY <1>2, <1>4, <2>1 DEF LoginLookup
  <2>2. CASE sessions[pid[c]] # NoConn
    <3>1. /\ pc[c] = "checked" /\ pc' = [pc EXCEPT ![c] = "waiting"]
          /\ dead' = [dead EXCEPT ![sessions[pid[c]]] = TRUE]
          /\ UNCHANGED <<known, acct, pid, loggedIn, sessions, qr2Logins, dbVars, drift,
                         slipped>>
      BY <1>4, <2>2 DEF LoginLookup
    <3>2. TypeOK'
      BY <3>1 DEF TypeOK, Steps
    <3>3. Handlers' /\ Entries' /\ SessionsAgree'
      BY <3>1 DEF TypeOK, Handlers, Entries, SessionsAgree
    <3> QED BY <3>2, <3>3
  <2> QED BY <2>1, <2>2
<1>5. CASE LoginGiveUp(c)
  <2>1. TypeOK'
    BY <1>5 DEF LoginGiveUp, TypeOK, Steps
  <2>2. Handlers' /\ Entries' /\ SessionsAgree'
    BY <1>5 DEF LoginGiveUp, TypeOK, Handlers, Entries, SessionsAgree
  <2> QED BY <2>1, <2>2
<1>6. CASE LoginDone(c)
  <2>1. TypeOK'
    BY <1>6 DEF LoginDone, TypeOK, Steps, Handlers
  <2>2. Handlers' /\ Entries'
    BY <1>6 DEF LoginDone, TypeOK, Handlers, Entries
  <2>3. SessionsAgree'
    BY <1>6 DEF LoginDone, TypeOK, Handlers, Entries, SessionsAgree
  <2> QED BY <2>1, <2>2, <2>3
<1> QED BY <1>1, <1>3, <1>4, <1>5, <1>6

\* An exLogin, after which the tables need not agree, and the end of a session.
LEMMA StepSession ==
    ASSUME LoginInv, NEW c \in Conn,
           ExLogin(c) \/ ExLoginRefused(c) \/ CloseConnection(c) \/ CloseDelete(c)
    PROVE  LoginInv'
<1> USE GPCMAssumption DEF LoginInv, GPCMAssumption, dbVars
<1>1. CASE ExLogin(c)
  <2>1. drift' \in BOOLEAN
    BY <1>1, Zenon DEF ExLogin
  <2>2. TypeOK'
    BY <1>1, <2>1 DEF ExLogin, TypeOK
  <2>3. Handlers' /\ Entries'
    BY <1>1 DEF ExLogin, TypeOK, Handlers, Entries
  <2>4. ASSUME ~drift' PROVE ~drift /\ UNCHANGED pid
    BY <1>1, <2>4 DEF ExLogin, TypeOK
  <2>5. SessionsAgree'
    BY <1>1, <2>4 DEF ExLogin, SessionsAgree
  <2> QED BY <2>2, <2>3, <2>5
<1>2. CASE ExLoginRefused(c)
  <2>1. TypeOK'
    BY <1>2 DEF ExLoginRefused, TypeOK
  <2>2. Handlers' /\ Entries' /\ SessionsAgree'
    BY <1>2 DEF ExLoginRefused, TypeOK, Handlers, Entries, SessionsAgree
  <2> QED BY <2>1, <2>2
<1>3. CASE CloseConnection(c)
  <2>1. TypeOK'
    BY <1>3 DEF CloseConnection, TypeOK, Steps
  <2>2. Handlers' /\ Entries'
    BY <1>3 DEF CloseConnection, TypeOK, Handlers, Entries
  <2>3. SessionsAgree'
    BY <1>3 DEF CloseConnection, TypeOK, SessionsAgree
  <2> QED BY <2>1, <2>2, <2>3
<1>4. CASE CloseDelete(c)
  <2>1. TypeOK'
    BY <1>4 DEF CloseDelete, TypeOK, Steps
  <2>2. Handlers' /\ Entries'
    BY <1>4 DEF CloseDelete, TypeOK, Handlers, Entries
  <2>3. SessionsAgree'
    BY <1>4 DEF CloseDelete, TypeOK, Handlers, SessionsAgree
  <2> QED BY <2>1, <2>2, <2>3
<1> QED BY <1>1, <1>2, <1>3, <1>4

\* Bans, kicks and restarts.
LEMMA StepServer ==
    ASSUME LoginInv,
           \/ \E p \in Profile : BanUser(p) \/ UnbanUser(p) \/ KickPlayer(p) \/ HandleKick(p)
           \/ Reload
    PROVE  LoginInv'
<1> USE GPCMAssumption DEF LoginInv, GPCMAssumption, dbVars, connVars
<1>1. ASSUME NEW p \in Profile, BanUser(p) \/ UnbanUser(p)
      PROVE  LoginInv'
  <2>1. TypeOK'
    BY <1>1 DEF BanUser, UnbanUser, RowsOf, TypeOK
  <2>2. Handlers' /\ Entries' /\ SessionsAgree'
    BY <1>1 DEF BanUser, UnbanUser, Handlers, Entries, SessionsAgree
  <2> QED BY <2>1, <2>2
<1>2. ASSUME NEW p \in Profile, KickPlayer(p) \/ HandleKick(p)
      PROVE  LoginInv'
  <2>1. TypeOK'
    BY <1>2 DEF KickPlayer, HandleKick, TypeOK
  <2>2. Handlers' /\ Entries' /\ SessionsAgree'
    BY <1>2 DEF KickPlayer, HandleKick, Handlers, Entries, SessionsAgree
  <2> QED BY <2>1, <2>2
<1>3. CASE Reload
  <2>1. known' \in [Conn -> BOOLEAN]
    BY <1>3 DEF Reload, KnownAfterLoad
  <2>2. TypeOK'
    BY <1>3, <2>1 DEF Reload, TypeOK
  <2>3. \A p \in Profile, c \in Conn : sessions[p] = c => known'[c]
    BY <1>3 DEF Reload, KnownAfterLoad
  <2>4. Handlers' /\ Entries'
    BY <1>3, <2>3 DEF Reload, Handlers, Entries
  <2>5. SessionsAgree'
    BY <1>3, <2>3 DEF Reload, SessionsAgree, TypeOK
  <2> QED BY <2>2, <2>4, <2>5
<1> QED BY <1>1, <1>2, <1>3

LEMMA StepLoginInv == LoginInv /\ [Next]_vars => LoginInv'
<1> SUFFICES ASSUME LoginInv, [Next]_vars PROVE LoginInv'
  OBVIOUS
<1>1. CASE UNCHANGED vars
  BY <1>1 DEF vars, connVars, dbVars, LoginInv, TypeOK, Handlers, Entries, SessionsAgree
<1>2. CASE Next
  BY <1>2, StepConnection, StepLogin, StepSession, StepServer DEF Next
<1> QED BY <1>1, <1>2

LEMMA LoginInvHolds == Spec => []LoginInv
BY InitLoginInv, StepLoginInv, PTL DEF Spec

-----------------------------------------------------------------------------
(* The tables. *)

\* gpcm's map of sessions, the flags of its connections and qr2's logins agree
\* at every point where a handler has released the mutex, through logins that
\* wait for another's end, kicks, closes and restarts; and the only entries that
\* are left behind are those of an exLogin that replaced a profile ID
\* (login.go:371-464, main.go:112-164, 343-365).
THEOREM SessionTablesAgree == Spec => []SessionsInv
<1>1. LoginInv => SessionsInv
  BY GPCMAssumption
     DEF LoginInv, SessionsInv, StaleOnlyAfterExLogin, TypeOK, Entries, SessionsAgree,
         GPCMAssumption
<1> QED BY <1>1, LoginInvHolds, PTL

-----------------------------------------------------------------------------
(* Bans. *)

LEMMA StepBanned ==
    LoginInv /\ WaitingSlipped /\ BannedOnlySlipped /\ [Next]_vars
        => WaitingSlipped' /\ BannedOnlySlipped'
<1> SUFFICES ASSUME LoginInv, WaitingSlipped, BannedOnlySlipped, [Next]_vars
             PROVE  WaitingSlipped' /\ BannedOnlySlipped'
  OBVIOUS
<1> USE DEF WaitingSlipped, BannedOnlySlipped, Entered, dbVars, connVars
<1>1. TypeOK /\ Handlers /\ SessionsAgree
  BY DEF LoginInv
<1>2. CASE UNCHANGED vars
  BY <1>2 DEF vars
<1>3. ASSUME NEW c \in Conn,
             NewConnection(c) \/ Disconnect(c) \/ LoginCheckFails(c) \/ ExLoginCheckFails(c)
      PROVE  WaitingSlipped' /\ BannedOnlySlipped'
  BY <1>1, <1>3 DEF NewConnection, Disconnect, LoginCheckFails, ExLoginCheckFails, TypeOK
<1>4. ASSUME NEW c \in Conn, NEW u \in User, NEW p \in Profile \cup {NoProfile},
             Login(c, u, p) \/ LoginRefused(c, u, p)
      PROVE  WaitingSlipped' /\ BannedOnlySlipped'
  <2>1. CASE LoginRefused(c, u, p) /\ UNCHANGED <<dbProfile, slipped>>
    BY <1>1, <2>1, GPCMAssumption DEF LoginRefused, TypeOK, GPCMAssumption
  <2>2. ASSUME NEW q \in Profile, LoginRefused(c, u, p),
               dbProfile' = [dbProfile EXCEPT ![u] = q],
               slipped' = slipped \cup MovedUnder(u, q)
        PROVE  WaitingSlipped' /\ BannedOnlySlipped'
    BY <1>1, <2>2, GPCMAssumption DEF LoginRefused, MovedUnder, TypeOK, GPCMAssumption
  <2>3. CASE Login(c, u, p)
    <3>1. PICK q \in Profile : /\ dbProfile' = [dbProfile EXCEPT ![u] = q]
                               /\ pid'  = [pid EXCEPT ![c] = q]
                               /\ slipped' = (slipped \cup MovedUnder(u, q)) \ {c}
      BY <2>3 DEF Login
    <3>2. \A d \in Entered \ {c} : d \notin slipped' /\ acct[d] = u => q = dbProfile[u]
      BY <3>1 DEF MovedUnder
    <3> QED BY <1>1, <2>3, <3>1, <3>2 DEF Login, TypeOK
  <2> QED BY <1>4, <2>1, <2>2, <2>3 DEF LoginRefused
<1>5. ASSUME NEW c \in Conn, LoginLookup(c) \/ LoginPoll(c)
      PROVE  WaitingSlipped' /\ BannedOnlySlipped'
  BY <1>1, <1>5 DEF LoginLookup, LoginPoll, Register, TypeOK, Handlers
<1>6. ASSUME NEW c \in Conn, LoginGiveUp(c) \/ LoginDone(c)
      PROVE  WaitingSlipped' /\ BannedOnlySlipped'
  BY <1>1, <1>6 DEF LoginGiveUp, LoginDone, TypeOK, Handlers
<1>7. ASSUME NEW c \in Conn, ExLogin(c) \/ ExLoginRefused(c)
      PROVE  WaitingSlipped' /\ BannedOnlySlipped'
  <2>1. CASE ExLoginRefused(c)
    BY <1>1, <2>1, GPCMAssumption DEF ExLoginRefused, TypeOK, GPCMAssumption
  <2>2. CASE ExLogin(c)
    <3>1. WaitingSlipped'
      BY <1>1, <2>2 DEF ExLogin, TypeOK
    <3>2. ASSUME ~drift' PROVE ~drift /\ UNCHANGED pid
      BY <1>1, <2>2, <3>2 DEF ExLogin, TypeOK
    <3>3. BannedOnlySlipped'
      BY <2>2, <3>2 DEF ExLogin
    <3> QED BY <3>1, <3>3
  <2> QED BY <1>7, <2>1, <2>2
<1>8. ASSUME NEW c \in Conn, CloseConnection(c) \/ CloseDelete(c)
      PROVE  WaitingSlipped' /\ BannedOnlySlipped'
  BY <1>1, <1>8 DEF CloseConnection, CloseDelete, TypeOK
<1>9. ASSUME NEW p \in Profile, BanUser(p) \/ UnbanUser(p) \/ HandleKick(p)
      PROVE  WaitingSlipped' /\ BannedOnlySlipped'
  BY <1>1, <1>9 DEF BanUser, UnbanUser, HandleKick, RowsOf, TypeOK
<1>10. ASSUME NEW p \in Profile, KickPlayer(p)
       PROVE  WaitingSlipped' /\ BannedOnlySlipped'
  <2>1. \A c \in Conn : ~drift /\ (loggedIn[c] \/ pc[c] = "registered") /\ pid[c] = p
                          => dead'[c]
    BY <1>1, <1>10, GPCMAssumption
       DEF KickPlayer, Kicked, SessionsAgree, TypeOK, GPCMAssumption
  <2> QED BY <1>1, <1>10, <2>1 DEF KickPlayer, TypeOK
<1>11. CASE Reload
  BY <1>11 DEF Reload
<1> QED
  BY <1>2, <1>3, <1>4, <1>5, <1>6, <1>7, <1>8, <1>9, <1>10, <1>11 DEF Next

\* A banned user that is still connected once its kick is over was between the
\* database's answer and its registration at that moment, or its row, with the
\* ban, was moved to another profile ID under its session, and there is no other
\* way (gpcm/login.go:371-401, kick.go:113-134, database/login.go:195-202).
THEOREM BannedAreKicked == Spec => []BannedOnlySlipped
BY InitLoginInv, LoginInvHolds, StepBanned, PTL DEF Spec

-----------------------------------------------------------------------------
(* The refinement. *)

\* The phase of a profile as long as no exLogin replaced a profile ID.
LEMMA PhaseNow ==
    ASSUME ~drift, NEW p \in Profile
    PROVE  PhaseOf(p) = IF sessions[p] = NoConn THEN "free"
                        ELSE IF pc[sessions[p]] = "registered" THEN "entering"
                        ELSE IF pc[sessions[p]] = "leaving" THEN "leaving" ELSE "present"
BY DEF PhaseOf

LEMMA PhaseNext ==
    ASSUME ~drift', NEW p \in Profile
    PROVE  PhaseOf(p)' = IF sessions'[p] = NoConn THEN "free"
                         ELSE IF pc'[sessions'[p]] = "registered" THEN "entering"
                         ELSE IF pc'[sessions'[p]] = "leaving" THEN "leaving" ELSE "present"
BY DEF PhaseOf

\* A step that leaves the entries of sessions, the places of their connections
\* and qr2's logins alone is not seen.
LEMMA Unseen ==
    ASSUME ~drift, ~drift', UNCHANGED <<sessions, qr2Logins>>,
           \A p \in Profile : sessions[p] # NoConn => pc'[sessions[p]] = pc[sessions[p]]
    PROVE  UNCHANGED P!vars
<1>1. \A p \in Profile : PhaseOf(p)' = PhaseOf(p)
  BY PhaseNow, PhaseNext
<1> QED BY <1>1 DEF P!vars

\* The step in which exactly profile p changes its phase.
LEMMA OneProfile ==
    ASSUME ~drift, ~drift', NEW p \in Profile, NEW new,
           PhaseOf(p)' = new,
           \A q \in Profile \ {p} : PhaseOf(q)' = PhaseOf(q)
    PROVE  [q \in Profile |-> PhaseOf(q)]' = [[q \in Profile |-> PhaseOf(q)] EXCEPT ![p] = new]
OBVIOUS

\* Every step of GPCM is a step of Presence or is not seen there.
LEMMA PresenceStep == LoginInv /\ [Next]_vars => [P!Next]_P!vars
<1> SUFFICES ASSUME LoginInv, [Next]_vars PROVE P!Next \/ UNCHANGED P!vars
  OBVIOUS
<1> USE GPCMAssumption DEF GPCMAssumption, dbVars, connVars
<1>1. TypeOK /\ Handlers /\ Entries /\ SessionsAgree
  BY DEF LoginInv
<1>2. drift \in BOOLEAN /\ (drift => drift')
  BY <1>1 DEF TypeOK, Next, vars, NewConnection, Disconnect, LoginCheckFails,
       ExLoginCheckFails, Login, LoginRefused, LoginLookup, LoginPoll, LoginGiveUp,
       LoginDone, ExLogin, ExLoginRefused, CloseConnection, CloseDelete, BanUser,
       UnbanUser, KickPlayer, HandleKick, Reload
<1>3. CASE drift
  BY <1>2, <1>3 DEF P!vars, PhaseOf
<1>4. CASE ~drift /\ drift'
  BY <1>4 DEF P!Next, P!Disorder, PhaseOf
<1>5. CASE ~drift /\ ~drift'
  <2> USE <1>5
  <2>1. CASE UNCHANGED vars
    BY <2>1, Unseen DEF vars
  <2>2. ASSUME NEW c \in Conn,
               NewConnection(c) \/ Disconnect(c) \/ LoginCheckFails(c) \/ ExLoginCheckFails(c)
        PROVE  UNCHANGED P!vars
    BY <1>1, <2>2, Unseen
       DEF NewConnection, Disconnect, LoginCheckFails, ExLoginCheckFails, TypeOK, Entries
  <2>3. ASSUME NEW c \in Conn, NEW u \in User, NEW p \in Profile \cup {NoProfile},
               Login(c, u, p) \/ LoginRefused(c, u, p)
        PROVE  UNCHANGED P!vars
    BY <1>1, <2>3, Unseen DEF Login, LoginRefused, TypeOK, Entries
  <2>4. ASSUME NEW c \in Conn, pc[c] \in {"checked", "waiting"}, sessions[pid[c]] = NoConn,
               Register(c), UNCHANGED qr2Logins
        PROVE  P!Next
    <3>1. PICK p \in Profile : p = pid[c]
      BY <1>1, <2>4 DEF Handlers
    <3>2. \A q \in Profile : sessions[q] # c
      BY <1>1, <2>4 DEF Entries
    <3>3. /\ sessions[p] = NoConn
          /\ sessions' = [sessions EXCEPT ![p] = c]
          /\ pc' = [pc EXCEPT ![c] = "registered"]
      BY <2>4, <3>1 DEF Register
    <3>4. PhaseOf(p) = "free" /\ PhaseOf(p)' = "entering"
      BY <1>1, <3>3, PhaseNow, PhaseNext DEF TypeOK
    <3>5. \A q \in Profile \ {p} : PhaseOf(q)' = PhaseOf(q)
      BY <1>1, <3>2, <3>3, PhaseNow, PhaseNext DEF TypeOK
    <3>6. P!Enter(p, c)
      BY <2>4, <3>2, <3>3, <3>4, <3>5, OneProfile DEF P!Enter
    <3> QED BY <3>6 DEF P!Next
  <2>5. ASSUME NEW c \in Conn, LoginPoll(c)
        PROVE  P!Next
    BY <2>4, <2>5 DEF LoginPoll
  <2>6. ASSUME NEW c \in Conn, LoginLookup(c)
        PROVE  P!Next \/ UNCHANGED P!vars
    <3>1. CASE sessions[pid[c]] = NoConn
      BY <2>4, <2>6, <3>1 DEF LoginLookup
    <3>2. CASE sessions[pid[c]] # NoConn
      BY <1>1, <2>6, <3>2, Unseen DEF LoginLookup, TypeOK, Entries
    <3> QED BY <3>1, <3>2
  <2>7. ASSUME NEW c \in Conn, LoginGiveUp(c)
        PROVE  UNCHANGED P!vars
    BY <1>1, <2>7, Unseen DEF LoginGiveUp, TypeOK, Entries
  <2>8. ASSUME NEW c \in Conn, LoginDone(c)
        PROVE  P!Next
    <3>1. PICK p \in Profile : p = pid[c]
      BY <1>1, <2>8 DEF LoginDone, Handlers
    <3>2. /\ sessions[p] = c
          /\ \A q \in Profile : sessions[q] = c => q = p
          /\ pc[c] = "registered" /\ pc' = [pc EXCEPT ![c] = "idle"]
          /\ qr2Logins' = qr2Logins \cup {p}
          /\ UNCHANGED sessions
      BY <1>1, <2>8, <3>1 DEF LoginDone, Handlers, Entries, SessionsAgree
    <3>3. PhaseOf(p) = "entering" /\ PhaseOf(p)' = "present"
      BY <1>1, <3>2, PhaseNow, PhaseNext DEF TypeOK
    <3>4. \A q \in Profile \ {p} : PhaseOf(q)' = PhaseOf(q)
      BY <1>1, <3>2, PhaseNow, PhaseNext DEF TypeOK
    <3>5. P!Announce(p)
      BY <3>2, <3>3, <3>4, OneProfile DEF P!Announce
    <3> QED BY <3>5 DEF P!Next
  <2>9. ASSUME NEW c \in Conn, ExLogin(c) \/ ExLoginRefused(c)
        PROVE  UNCHANGED P!vars
    BY <2>9, Unseen DEF ExLogin, ExLoginRefused
  <2>10. ASSUME NEW c \in Conn, CloseConnection(c)
         PROVE  P!Next \/ UNCHANGED P!vars
    <3>1. CASE ~(known[c] /\ loggedIn[c])
      BY <1>1, <2>10, <3>1, Unseen DEF CloseConnection, TypeOK, Entries
    <3>2. CASE known[c] /\ loggedIn[c]
      <4>1. PICK p \in Profile : p = pid[c]
        BY <1>1, <3>2 DEF SessionsAgree, TypeOK
      <4>2. /\ sessions[p] = c
            /\ \A q \in Profile : sessions[q] = c => q = p
            /\ pc[c] = "idle" /\ pc' = [pc EXCEPT ![c] = "leaving"]
            /\ qr2Logins' = qr2Logins \ {p}
            /\ UNCHANGED sessions
        BY <1>1, <2>10, <3>2, <4>1 DEF CloseConnection, SessionsAgree, TypeOK
      <4>3. PhaseOf(p) = "present" /\ PhaseOf(p)' = "leaving"
        BY <1>1, <4>2, PhaseNow, PhaseNext DEF TypeOK
      <4>4. \A q \in Profile \ {p} : PhaseOf(q)' = PhaseOf(q)
        BY <1>1, <4>2, PhaseNow, PhaseNext DEF TypeOK
      <4>5. P!Withdraw(p)
        BY <4>2, <4>3, <4>4, OneProfile DEF P!Withdraw
      <4> QED BY <4>5 DEF P!Next
    <3> QED BY <3>1, <3>2
  <2>11. ASSUME NEW c \in Conn, CloseDelete(c)
         PROVE  P!Next
    <3>1. PICK p \in Profile : p = pid[c]
      BY <1>1, <2>11 DEF CloseDelete, Handlers, SessionsAgree, TypeOK
    <3>2. /\ sessions[p] = c
          /\ \A q \in Profile : sessions[q] = c => q = p
          /\ pc[c] = "leaving" /\ pc' = [pc EXCEPT ![c] = "closed"]
          /\ UNCHANGED qr2Logins
      BY <1>1, <2>11, <3>1 DEF CloseDelete, Handlers, SessionsAgree, TypeOK
    <3>3. sessions' = [sessions EXCEPT ![p] = NoConn]
      BY <1>1, <2>11, <3>1 DEF CloseDelete, TypeOK
    <3>4. PhaseOf(p) = "leaving" /\ PhaseOf(p)' = "free"
      BY <1>1, <3>2, <3>3, PhaseNow, PhaseNext DEF TypeOK
    <3>5. \A q \in Profile \ {p} : PhaseOf(q)' = PhaseOf(q)
      BY <1>1, <3>2, <3>3, PhaseNow, PhaseNext DEF TypeOK
    <3>6. P!Free(p)
      BY <3>2, <3>3, <3>4, <3>5, OneProfile DEF P!Free
    <3> QED BY <3>6 DEF P!Next
  <2>12. ASSUME NEW p \in Profile,
                BanUser(p) \/ UnbanUser(p) \/ KickPlayer(p) \/ HandleKick(p)
         PROVE  UNCHANGED P!vars
    BY <2>12, Unseen DEF BanUser, UnbanUser, KickPlayer, HandleKick
  <2>13. CASE Reload
    BY <2>13, Unseen DEF Reload
  <2> QED
    BY <2>1, <2>2, <2>3, <2>5, <2>6, <2>7, <2>8, <2>9, <2>10, <2>11, <2>12, <2>13 DEF Next
<1> QED BY <1>2, <1>3, <1>4, <1>5

\* Package gpcm implements Presence: a profile passes from one connection to the
\* next only after qr2 has forgotten it and its holder has left, however many
\* logins poll for it, whoever is kicked, and across restarts (login.go:381-425,
\* main.go:112-164).
THEOREM GPCMImplementsPresence == Spec => ImplementsPresence
<1>1. Init => P!Init
  BY PhaseNow DEF Init, P!Init
<1> QED BY <1>1, PresenceStep, LoginInvHolds, PTL DEF Spec, P!Spec, ImplementsPresence
=============================================================================
