------------------------- MODULE MatchCommandProofs -------------------------
(***************************************************************************)
(* The relay of match commands, for every buffer of 32-bit words and every *)
(* version: for each command, what its decoder accepts has the shape "fits"*)
(* (XDecoded), and a command of that shape is encoded to words that decode *)
(* to it (XRound).  Hiding the addresses keeps the shape.  The invariant   *)
(* of a relay, RelayInv, says where in its course these facts hold.        *)
(***************************************************************************)
EXTENDS MatchCommand, TLAPS

-----------------------------------------------------------------------------
(* Words and numbers.                                                       *)

\* A number is written as four bytes.
LEMMA PutWord ==
    ASSUME NEW n \in Nat
    PROVE  PutLE(n) \in Words /\ PutBE(n) \in Words
<1>1. PutLE(n) \in Words BY DEF PutLE, Words
<1>2. PutBE(n) \in Words BY DEF PutLE, PutBE, Words, Reverse
<1> QED BY <1>1, <1>2

\* The four digits to base 256 of a 32-bit number add up to it.
LEMMA Back ==
    ASSUME NEW n \in U32
    PROVE  (n % 256) + 256 * ((n \div 256) % 256) + 65536 * ((n \div 65536) % 256)
             + 16777216 * ((n \div 16777216) % 256) = n
BY DEF U32

\* What PutUint32 wrote in little-endian order is read back.
LEMMA LERound ==
    ASSUME NEW n \in U32
    PROVE  LE(PutLE(n)) = n
<1>1. LE(PutLE(n)) = (n % 256) + 256 * ((n \div 256) % 256) + 65536 * ((n \div 65536) % 256)
             + 16777216 * ((n \div 16777216) % 256)
  BY DEF LE, PutLE
<1> QED BY <1>1, Back

\* Swapping the bytes of a word twice gives it back, and a word is a 32-bit number.
LEMMA ReverseWord ==
    ASSUME NEW w \in Words
    PROVE  /\ Reverse(w) \in Words /\ Reverse(Reverse(w)) = w
           /\ LE(w) \in U32 
<1>1. Len(w) = 4 BY DEF Words
<1>2. Reverse(w) = [i \in 1..4 |-> w[4 - i + 1]] BY <1>1 DEF Reverse
<1>3. Reverse(w) \in Words BY <1>2 DEF Words
<1>4. Len(Reverse(w)) = 4 BY <1>3 DEF Words
<1>5. Reverse(Reverse(w)) = [i \in 1..4 |-> w[4 - (4 - i + 1) + 1]] BY <1>2, <1>4 DEF Reverse
<1>6. Reverse(Reverse(w)) = w BY <1>5 DEF Words
<1>7. LE(w) \in U32
  <2>1. PICK p \in 0..255 : w[1] = p BY DEF Words
  <2>2. PICK q \in 0..255 : w[2] = q BY DEF Words
  <2>3. PICK r \in 0..255 : w[3] = r BY DEF Words
  <2>4. PICK s \in 0..255 : w[4] = s BY DEF Words
  <2>5. LE(w) = p + 256 * q + 65536 * r + 16777216 * s BY <2>1, <2>2, <2>3, <2>4 DEF LE
  <2>6. \A n \in Nat : n < 4294967296 => n \div 16777216 < 256 OBVIOUS
  <2> QED BY <2>5, <2>6 DEF U32
<1> QED BY <1>3, <1>6, <1>7

\* The same as LERound for big-endian order, in which addresses are written.
LEMMA BERound ==
    ASSUME NEW n \in U32
    PROVE  BE(PutBE(n)) = n
BY PutWord, LERound, ReverseWord DEF BE, PutBE, U32

\* The words of t, followed by those of u: where the decoder finds each.
LEMMA Glue ==
    ASSUME NEW S, NEW t \in Seq(S), NEW u \in Seq(S)
    PROVE  /\ Len(t \o u) = Len(t) + Len(u) /\ t \o u \in Seq(S)
           /\ \A k \in 0 .. Len(t) - 1 : Word(t \o u, k) = t[k + 1]
           /\ From(t \o u, Len(t)) = u
<1>1. Len(t \o u) = Len(t) + Len(u) /\ t \o u \in Seq(S) OBVIOUS
<1>2. \A k \in 0 .. Len(t) - 1 : Word(t \o u, k) = t[k + 1] BY <1>1 DEF Word
<1>3. From(t \o u, Len(t)) = u BY <1>1 DEF From
<1> QED BY <1>1, <1>2, <1>3

\* A read within the buffer gives a 32-bit number, and the rest of it is a buffer.
LEMMA Read ==
    ASSUME NEW b \in Seq(Words), NEW k \in 0 .. Len(b)
    PROVE  /\ k < Len(b) => Word(b, k) = b[k + 1] /\ L(b, k) \in U32 /\ B(b, k) \in U32
           /\ From(b, k) \in Seq(Words) /\ Len(From(b, k)) = Len(b) - k
<1>1. ASSUME k < Len(b)
      PROVE  Word(b, k) = b[k + 1] /\ L(b, k) \in U32 /\ B(b, k) \in U32
  <2>1. Word(b, k) = b[k + 1] /\ b[k + 1] \in Words BY <1>1 DEF Word
  <2> QED BY <2>1, ReverseWord DEF L, B, BE
<1>2. From(b, k) \in Seq(Words) /\ Len(From(b, k)) = Len(b) - k
  BY DEF From
<1> QED BY <1>1, <1>2

\* d is a command with the fields F.
Has(d, F) ==
    /\ d = Command(d.f, d.pids, d.user)
    /\ d.f = [k \in F |-> d.f[k]]
    /\ \A k \in F : d.f[k] \in U32
    /\ d.pids \in Seq(U32) /\ d.user \in Seq(Words)
    /\ \A k \in F \cap {"PublicPort", "LocalPort"} : d.f[k] <= 65535
    /\ \A k \in F \cap {"IsFriend"} : d.f[k] <= 1

-----------------------------------------------------------------------------
(* Reservations.                                                            *)

\* The fields of a reservation in versions 3, 11 and 90.
Fields3 == {"MatchType", "HasPublicIP", "PublicIP", "PublicPort"}
Fields11 == Fields3 \cup {"IsFriend", "LocalPlayerCount"}
Fields90 == Fields11 \cup {"LocalIP", "LocalPort", "Unknown", "ResvCheckValue"}

\* What a reservation of n words decodes to: the short form of version 3 has no
\* address, and one with half an address (n = 2) is taken for it.
ReservationFits(d, v, n) ==
    /\ d.pids = NoWords /\ d.f["MatchType"] <= 3
    /\ \/ /\ v = 3 /\ n \in {1, 2} /\ d.user = NoWords /\ d.f["HasPublicIP"] = 0
          /\ Has(d, {"MatchType", "HasPublicIP"})
       \/ d.f["HasPublicIP"] = 1 /\ v = 3 /\ n = 3 + Len(d.user) /\ Has(d, Fields3)
       \/ d.f["HasPublicIP"] = 1 /\ v = 11 /\ n = 5 + Len(d.user) /\ Has(d, Fields11)
       \/ d.f["HasPublicIP"] = 1 /\ v = 90 /\ n = 9 + Len(d.user) /\ Has(d, Fields90)

\* Whatever reservation the decoder accepts, it read within the buffer.
LEMMA ReservationDecoded ==
    ASSUME NEW b \in Seq(Words), NEW v \in {3, 11, 90}, DecodeReservation(b, v).ok
    PROVE  ReservationFits(DecodeReservation(b, v), v, Len(b))
<1> DEFINE d == DecodeReservation(b, v)
<1>1. Len(b) \in Nat /\ 0 \in U32 /\ 1 \in U32 BY DEF U32
<1>2. ~NotDecoded.ok BY DEF NotDecoded
<1>3. \A k \in 0 .. Len(b) - 1 : L(b, k) \in U32 /\ B(b, k) \in U32
  <2> SUFFICES ASSUME NEW k \in 0 .. Len(b) - 1 PROVE L(b, k) \in U32 /\ B(b, k) \in U32
    OBVIOUS
  <2>1. k \in 0 .. Len(b) /\ k < Len(b) BY <1>1
  <2> QED BY <2>1, Read
<1>4. \A k \in 0 .. Len(b) : From(b, k) \in Seq(Words) /\ Len(From(b, k)) = Len(b) - k BY Read
<1>5. \A n \in U32 : n \in Nat BY DEF U32
<1>6. CASE v = 3 /\ Len(b) < 3
  <2>1. Len(b) >= 1 /\ ~(L(b, 0) > 3) BY <1>1, <1>2, <1>6 DEF DecodeReservation
  <2>2. \A k \in Nat : k < 3 /\ k >= 1 => 0 \in 0 .. k - 1 /\ k \in {1, 2} OBVIOUS
  <2>3. Len(b) \in Nat /\ Len(b) < 3 /\ Len(b) >= 1 BY <1>1, <1>6, <2>1
  <2>4. Len(b) \in {1, 2} /\ 0 \in 0 .. Len(b) - 1 BY <2>2, <2>3
  <2>5. L(b, 0) \in U32 BY <1>3, <2>4
  <2>6. Len(b) \in {1, 2} /\ L(b, 0) \in U32 BY <2>4, <2>5
  <2>7. L(b, 0) <= 3 BY <1>5, <2>1, <2>6
  <2>8. Len(b) \in {1, 2} /\ L(b, 0) <= 3 /\ L(b, 0) \in U32 BY <2>6, <2>7
  <2>9. d = Command([MatchType |-> L(b, 0), HasPublicIP |-> 0], NoWords, NoWords)
    BY <1>1, <1>6, <1>2 DEF DecodeReservation
  <2> HIDE DEF d
  <2>10. d.pids = NoWords /\ d.f["MatchType"] = L(b, 0) /\ d.f["HasPublicIP"] = 0 /\ d.user = NoWords
    BY <2>9 DEF Command
  <2>11. Has(d, {"MatchType", "HasPublicIP"}) BY <1>1, <2>8, <2>9 DEF Has, Command, NoWords
  <2> QED BY <1>6, <2>8, <2>10, <2>11 DEF ReservationFits, d
<1>7. CASE v = 3 /\ Len(b) >= 3
  <2>1. /\ Len(b) >= 3
        /\ ~(L(b, 0) > 3) /\ ~(L(b, 2) > 65535)
    BY <1>1, <1>2, <1>7 DEF DecodeReservation
  <2>2. /\ L(b, 0) <= 3 /\ L(b, 2) <= 65535
        /\ L(b, 0) \in U32 /\ B(b, 1) \in U32 /\ L(b, 2) \in U32
    BY <1>1, <1>3, <1>5, <2>1
  <2>3. d = Command([MatchType |-> L(b, 0), HasPublicIP |-> 1, PublicIP |-> B(b, 1),
                     PublicPort |-> L(b, 2)],
                    NoWords, From(b, 3))
    BY <1>1, <1>2, <1>7 DEF DecodeReservation
  <2> HIDE DEF d
  <2>4. From(b, 3) \in Seq(Words) /\ Len(b) = 3 + Len(From(b, 3)) BY <1>1, <1>4, <2>1
  <2>5. Has(d, Fields3) BY <1>1, <2>2, <2>3, <2>4 DEF Has, Command, NoWords, Fields3
  <2>6. d.pids = NoWords /\ d.f["MatchType"] = L(b, 0) /\ d.f["HasPublicIP"] = 1 /\ d.user = From(b, 3)
    BY <2>3 DEF Command
  <2> QED BY <1>7, <2>2, <2>4, <2>5, <2>6 DEF ReservationFits, d
<1>8. CASE v = 11
  <2>1. /\ Len(b) >= 5
        /\ ~(L(b, 0) > 3) /\ ~(L(b, 2) > 65535) /\ ~(L(b, 3) > 1)
    BY <1>1, <1>2, <1>8 DEF DecodeReservation
  <2>2. /\ L(b, 0) <= 3 /\ L(b, 2) <= 65535 /\ L(b, 3) <= 1
        /\ L(b, 0) \in U32 /\ B(b, 1) \in U32 /\ L(b, 2) \in U32 /\ L(b, 3) \in U32
        /\ L(b, 4) \in U32
    BY <1>1, <1>3, <1>5, <2>1
  <2>3. d = Command([MatchType |-> L(b, 0), HasPublicIP |-> 1, PublicIP |-> B(b, 1),
                     PublicPort |-> L(b, 2), IsFriend |-> L(b, 3), LocalPlayerCount |-> L(b, 4)],
                    NoWords, From(b, 5))
    BY <1>1, <1>2, <1>8 DEF DecodeReservation
  <2> HIDE DEF d
  <2>4. From(b, 5) \in Seq(Words) /\ Len(b) = 5 + Len(From(b, 5)) BY <1>1, <1>4, <2>1
  <2>5. Has(d, Fields11) BY <1>1, <2>2, <2>3, <2>4 DEF Has, Command, NoWords, Fields11, Fields3
  <2>6. d.pids = NoWords /\ d.f["MatchType"] = L(b, 0) /\ d.f["HasPublicIP"] = 1 /\ d.user = From(b, 5)
    BY <2>3 DEF Command
  <2> QED BY <1>8, <2>2, <2>4, <2>5, <2>6 DEF ReservationFits, d
<1>9. CASE v = 90
  <2>1. /\ Len(b) >= 9
        /\ ~(L(b, 0) > 3) /\ ~(L(b, 2) > 65535) /\ ~(L(b, 4) > 65535) /\ ~(L(b, 6) > 1)
    BY <1>1, <1>2, <1>9 DEF DecodeReservation
  <2>2. /\ L(b, 0) <= 3 /\ L(b, 2) <= 65535 /\ L(b, 4) <= 65535 /\ L(b, 6) <= 1
        /\ L(b, 0) \in U32 /\ B(b, 1) \in U32 /\ L(b, 2) \in U32 /\ B(b, 3) \in U32
        /\ L(b, 4) \in U32 /\ L(b, 5) \in U32 /\ L(b, 6) \in U32 /\ L(b, 7) \in U32
        /\ L(b, 8) \in U32
    <3>1. /\ L(b, 0) \in U32 /\ B(b, 1) \in U32 /\ L(b, 2) \in U32 /\ B(b, 3) \in U32
          /\ L(b, 4) \in U32 /\ L(b, 5) \in U32 /\ L(b, 6) \in U32 /\ L(b, 7) \in U32
          /\ L(b, 8) \in U32
      BY <1>1, <1>3, <2>1
    <3>2. L(b, 0) \in Nat /\ L(b, 2) \in Nat /\ L(b, 4) \in Nat /\ L(b, 6) \in Nat BY <1>5, <3>1
    <3>3. L(b, 0) <= 3 /\ L(b, 2) <= 65535 /\ L(b, 4) <= 65535 /\ L(b, 6) <= 1 BY <2>1, <3>2
    <3> QED BY <3>1, <3>3
  <2>3. d = Command([MatchType |-> L(b, 0), HasPublicIP |-> 1, PublicIP |-> B(b, 1),
                     PublicPort |-> L(b, 2), LocalIP |-> B(b, 3), LocalPort |-> L(b, 4),
                     Unknown |-> L(b, 5), IsFriend |-> L(b, 6), LocalPlayerCount |-> L(b, 7),
                     ResvCheckValue |-> L(b, 8)],
                    NoWords, From(b, 9))
    BY <1>1, <1>2, <1>9 DEF DecodeReservation
  <2> HIDE DEF d
  <2>4. From(b, 9) \in Seq(Words) /\ Len(b) = 9 + Len(From(b, 9)) BY <1>1, <1>4, <2>1
  <2>5. Has(d, Fields90) BY <1>1, <2>2, <2>3, <2>4 DEF Has, Command, NoWords, Fields90, Fields11, Fields3
  <2>6. d.pids = NoWords /\ d.f["MatchType"] = L(b, 0) /\ d.f["HasPublicIP"] = 1 /\ d.user = From(b, 9)
    BY <2>3 DEF Command
  <2> QED BY <1>9, <2>2, <2>4, <2>5, <2>6 DEF ReservationFits, d
<1> QED BY <1>1, <1>6, <1>7, <1>8, <1>9

\* A reservation is encoded to what decodes to it; only half an address is lost.
LEMMA ReservationRound ==
    ASSUME NEW d, NEW v, NEW n, ReservationFits(d, v, n)
    PROVE  /\ DecodeReservation(EncodeReservation(d, v), v) = d
           /\ Len(EncodeReservation(d, v)) = n \/ (v = 3 /\ n = 2 /\ Len(EncodeReservation(d, v)) = 1)
<1> DEFINE b == EncodeReservation(d, v)
<1>1. \A k \in U32 : /\ PutLE(k) \in Words /\ PutBE(k) \in Words
                     /\ LE(PutLE(k)) = k /\ BE(PutBE(k)) = k /\ k \in Nat
  BY PutWord, LERound, BERound DEF U32
<1>2. \A k \in U32 : PutLE(k) \in Words /\ PutBE(k) \in Words BY <1>1
<1>3. CASE /\ v = 3 /\ n \in {1, 2} /\ d.user = NoWords /\ d.f["HasPublicIP"] = 0
           /\ Has(d, {"MatchType", "HasPublicIP"})
  <2>1. d.f["MatchType"] \in U32 /\ d = Command(d.f, d.pids, d.user) BY <1>3 DEF Has
  <2>2. d.f["MatchType"] <= 3 /\ d.pids = NoWords BY DEF ReservationFits
  <2>3. d.f["MatchType"] \in U32 /\ d.f["MatchType"] <= 3 /\ d.pids = NoWords
    BY <2>1, <2>2
  <2>4. b = <<PutLE(d.f["MatchType"])>> BY <1>3 DEF EncodeReservation
  <2> HIDE DEF b
  <2>5. Len(b) = 1 /\ L(b, 0) = d.f["MatchType"] BY <1>1, <2>3, <2>4 DEF L, Word
  <2>6. ~(L(b, 0) > 3) BY <1>1, <2>3, <2>5
  <2>7. DecodeReservation(b, v) = Command([MatchType |-> d.f["MatchType"], HasPublicIP |-> 0],
                                          NoWords, NoWords)
    BY <1>3, <2>5, <2>6 DEF DecodeReservation
  <2>8. d.f = [MatchType |-> d.f["MatchType"], HasPublicIP |-> 0] BY <1>3 DEF Has
  <2>9. DecodeReservation(b, v) = d BY <1>3, <2>1, <2>3, <2>7, <2>8
  <2> QED BY <1>3, <2>5, <2>9 DEF b
<1>4. CASE d.f["HasPublicIP"] = 1 /\ v = 3 /\ n = 3 + Len(d.user) /\ Has(d, Fields3)
  <2> DEFINE t == <<PutLE(d.f["MatchType"]), PutBE(d.f["PublicIP"]), PutLE(d.f["PublicPort"])>>
  <2>1. d.f["MatchType"] \in U32 /\ d.f["PublicIP"] \in U32 /\ d.f["PublicPort"] \in U32
    BY <1>4 DEF Has, Fields3
  <2>2. /\ d.f["MatchType"] \in U32 /\ d.f["PublicIP"] \in U32 /\ d.f["PublicPort"] \in U32
        /\ d.f["MatchType"] <= 3 /\ d.f["PublicPort"] <= 65535
        /\ d.pids = NoWords /\ d.user \in Seq(Words)
    BY <1>4 DEF Has, ReservationFits, Fields3
  <2>3. /\ PutLE(d.f["MatchType"]) \in Words /\ PutBE(d.f["PublicIP"]) \in Words
        /\ PutLE(d.f["PublicPort"]) \in Words
    BY <1>2, <2>1
  <2>4. t \in Seq(Words) /\ Len(t) = 3 BY <2>3
  <2>5. b = t \o d.user BY <1>4, <1>1, <2>2 DEF EncodeReservation, NoWords
  <2> HIDE DEF b, t
  <2>6. /\ Len(b) = 3 + Len(d.user) /\ Len(b) >= 3 /\ From(b, 3) = d.user
        /\ \A k \in 0 .. 2 : Word(b, k) = t[k + 1]
    <3>1. /\ Len(t \o d.user) = Len(t) + Len(d.user) /\ From(t \o d.user, Len(t)) = d.user
          /\ \A k \in 0 .. Len(t) - 1 : Word(t \o d.user, k) = t[k + 1]
      <4>1. t \in Seq(Words) /\ d.user \in Seq(Words) BY <2>2, <2>4
      <4> QED BY <4>1, Glue
    <3> QED BY <2>2, <2>4, <2>5, <3>1
  <2>7. /\ L(b, 0) = d.f["MatchType"] /\ B(b, 1) = d.f["PublicIP"] /\ L(b, 2) = d.f["PublicPort"]
    <3>1. /\ Word(b, 0) = PutLE(d.f["MatchType"]) /\ Word(b, 1) = PutBE(d.f["PublicIP"])
          /\ Word(b, 2) = PutLE(d.f["PublicPort"])
      BY <2>6 DEF t
    <3> QED BY <2>1, <3>1, LERound, BERound DEF L, B
  <2>8. ~(L(b, 0) > 3) /\ ~(L(b, 2) > 65535)
    <3>1. L(b, 0) <= 3 /\ L(b, 2) <= 65535 BY <2>2, <2>7
    <3>2. L(b, 0) \in Nat /\ L(b, 2) \in Nat BY <1>1, <2>2, <2>7
    <3> QED BY <3>1, <3>2
  <2>9. DecodeReservation(b, v) =
            Command([MatchType |-> d.f["MatchType"], HasPublicIP |-> 1,
                     PublicIP |-> d.f["PublicIP"], PublicPort |-> d.f["PublicPort"]],
                    NoWords, d.user)
    BY <1>4, <2>6, <2>7, <2>8 DEF DecodeReservation
  <2>10. d.f = [MatchType |-> d.f["MatchType"], HasPublicIP |-> 1, PublicIP |-> d.f["PublicIP"],
               PublicPort |-> d.f["PublicPort"]]
    BY <1>4 DEF Has, Fields3
  <2>11. d = Command(d.f, d.pids, d.user) BY <1>4 DEF Has
  <2>12. DecodeReservation(b, v) = d BY <2>2, <2>9, <2>10, <2>11
  <2> QED BY <1>4, <2>6, <2>12 DEF b
<1>5. CASE d.f["HasPublicIP"] = 1 /\ v = 11 /\ n = 5 + Len(d.user) /\ Has(d, Fields11)
  <2> DEFINE t == <<PutLE(d.f["MatchType"]), PutBE(d.f["PublicIP"]), PutLE(d.f["PublicPort"]),
                    PutLE(d.f["IsFriend"]), PutLE(d.f["LocalPlayerCount"])>>
  <2>1. d.f["MatchType"] \in U32 /\ d.f["PublicIP"] \in U32 /\ d.f["PublicPort"] \in U32
        /\ d.f["IsFriend"] \in U32 /\ d.f["LocalPlayerCount"] \in U32
    BY <1>5 DEF Has, Fields11, Fields3
  <2>2. /\ d.f["MatchType"] \in U32 /\ d.f["PublicIP"] \in U32 /\ d.f["PublicPort"] \in U32
        /\ d.f["IsFriend"] \in U32 /\ d.f["LocalPlayerCount"] \in U32
        /\ d.f["MatchType"] <= 3 /\ d.f["PublicPort"] <= 65535 /\ d.f["IsFriend"] <= 1
        /\ d.pids = NoWords /\ d.user \in Seq(Words)
    BY <1>5 DEF Has, ReservationFits, Fields11, Fields3
  <2>3. /\ PutLE(d.f["MatchType"]) \in Words /\ PutBE(d.f["PublicIP"]) \in Words
        /\ PutLE(d.f["PublicPort"]) \in Words /\ PutLE(d.f["IsFriend"]) \in Words
        /\ PutLE(d.f["LocalPlayerCount"]) \in Words
    BY <1>2, <2>1
  <2>4. t \in Seq(Words) /\ Len(t) = 5 BY <2>3
  <2>5. b = t \o d.user
    <3> DEFINE x == <<PutLE(d.f["MatchType"]), PutBE(d.f["PublicIP"]), PutLE(d.f["PublicPort"])>>
               y == <<PutLE(d.f["IsFriend"]), PutLE(d.f["LocalPlayerCount"])>>
    <3>1. t = x \o y BY <2>3
    <3>2. b = x \o y \o d.user
      <4>1. v # 3 /\ v = 11 BY <1>5
      <4> QED BY <4>1 DEF EncodeReservation
    <3> HIDE DEF x, y, t, b
    <3> QED BY <3>1, <3>2
  <2> HIDE DEF b, t
  <2>6. /\ Len(b) = 5 + Len(d.user) /\ Len(b) >= 5 /\ From(b, 5) = d.user
        /\ \A k \in 0 .. 4 : Word(b, k) = t[k + 1]
    <3>1. /\ Len(t \o d.user) = Len(t) + Len(d.user) /\ From(t \o d.user, Len(t)) = d.user
          /\ \A k \in 0 .. Len(t) - 1 : Word(t \o d.user, k) = t[k + 1]
      <4>1. t \in Seq(Words) /\ d.user \in Seq(Words) BY <2>2, <2>4
      <4> QED BY <4>1, Glue
    <3> QED BY <2>2, <2>4, <2>5, <3>1
  <2>7. /\ L(b, 0) = d.f["MatchType"] /\ B(b, 1) = d.f["PublicIP"] /\ L(b, 2) = d.f["PublicPort"]
        /\ L(b, 3) = d.f["IsFriend"] /\ L(b, 4) = d.f["LocalPlayerCount"]
    <3>1. /\ Word(b, 0) = PutLE(d.f["MatchType"]) /\ Word(b, 1) = PutBE(d.f["PublicIP"])
          /\ Word(b, 2) = PutLE(d.f["PublicPort"]) /\ Word(b, 3) = PutLE(d.f["IsFriend"])
          /\ Word(b, 4) = PutLE(d.f["LocalPlayerCount"])
      BY <2>6 DEF t
    <3> QED BY <2>1, <3>1, LERound, BERound DEF L, B
  <2>8. ~(L(b, 0) > 3) /\ ~(L(b, 2) > 65535) /\ ~(L(b, 3) > 1)
    <3>1. L(b, 0) <= 3 /\ L(b, 2) <= 65535 /\ L(b, 3) <= 1 BY <2>2, <2>7
    <3>2. L(b, 0) \in Nat /\ L(b, 2) \in Nat /\ L(b, 3) \in Nat BY <1>1, <2>2, <2>7
    <3> QED BY <3>1, <3>2
  <2>9. DecodeReservation(b, v) =
            Command([MatchType |-> d.f["MatchType"], HasPublicIP |-> 1,
                     PublicIP |-> d.f["PublicIP"], PublicPort |-> d.f["PublicPort"],
                     IsFriend |-> d.f["IsFriend"], LocalPlayerCount |-> d.f["LocalPlayerCount"]],
                    NoWords, d.user)
    BY <1>5, <2>6, <2>7, <2>8 DEF DecodeReservation
  <2>10. d.f = [MatchType |-> d.f["MatchType"], HasPublicIP |-> 1, PublicIP |-> d.f["PublicIP"],
               PublicPort |-> d.f["PublicPort"], IsFriend |-> d.f["IsFriend"],
               LocalPlayerCount |-> d.f["LocalPlayerCount"]]
    BY <1>5 DEF Has, Fields11, Fields3
  <2>11. d = Command(d.f, d.pids, d.user) BY <1>5 DEF Has
  <2>12. DecodeReservation(b, v) = d BY <2>2, <2>9, <2>10, <2>11
  <2> QED BY <1>5, <2>6, <2>12 DEF b
<1>6. CASE d.f["HasPublicIP"] = 1 /\ v = 90 /\ n = 9 + Len(d.user) /\ Has(d, Fields90)
  <2> DEFINE t == <<PutLE(d.f["MatchType"]), PutBE(d.f["PublicIP"]), PutLE(d.f["PublicPort"]),
                    PutBE(d.f["LocalIP"]), PutLE(d.f["LocalPort"]), PutLE(d.f["Unknown"]),
                    PutLE(d.f["IsFriend"]), PutLE(d.f["LocalPlayerCount"]),
                    PutLE(d.f["ResvCheckValue"])>>
  <2>1. d.f["MatchType"] \in U32 /\ d.f["PublicIP"] \in U32 /\ d.f["PublicPort"] \in U32
        /\ d.f["LocalIP"] \in U32 /\ d.f["LocalPort"] \in U32 /\ d.f["Unknown"] \in U32
        /\ d.f["IsFriend"] \in U32 /\ d.f["LocalPlayerCount"] \in U32
        /\ d.f["ResvCheckValue"] \in U32
    BY <1>6 DEF Has, Fields90, Fields11, Fields3
  <2>2. /\ d.f["MatchType"] \in U32 /\ d.f["PublicIP"] \in U32 /\ d.f["PublicPort"] \in U32
        /\ d.f["LocalIP"] \in U32 /\ d.f["LocalPort"] \in U32 /\ d.f["Unknown"] \in U32
        /\ d.f["IsFriend"] \in U32 /\ d.f["LocalPlayerCount"] \in U32
        /\ d.f["ResvCheckValue"] \in U32
        /\ d.f["MatchType"] <= 3 /\ d.f["PublicPort"] <= 65535 /\ d.f["LocalPort"] <= 65535
        /\ d.f["IsFriend"] <= 1
        /\ d.pids = NoWords /\ d.user \in Seq(Words)
    BY <1>6 DEF Has, ReservationFits, Fields90, Fields11, Fields3
  <2>3. /\ PutLE(d.f["MatchType"]) \in Words /\ PutBE(d.f["PublicIP"]) \in Words
        /\ PutLE(d.f["PublicPort"]) \in Words /\ PutBE(d.f["LocalIP"]) \in Words
        /\ PutLE(d.f["LocalPort"]) \in Words /\ PutLE(d.f["Unknown"]) \in Words
        /\ PutLE(d.f["IsFriend"]) \in Words /\ PutLE(d.f["LocalPlayerCount"]) \in Words
        /\ PutLE(d.f["ResvCheckValue"]) \in Words
    BY <1>2, <2>1
  <2>4. t \in Seq(Words) /\ Len(t) = 9 BY <2>3
  <2>5. b = t \o d.user
    <3> DEFINE x == <<PutLE(d.f["MatchType"]), PutBE(d.f["PublicIP"]), PutLE(d.f["PublicPort"])>>
               y == <<PutBE(d.f["LocalIP"]), PutLE(d.f["LocalPort"]), PutLE(d.f["Unknown"]),
                      PutLE(d.f["IsFriend"]), PutLE(d.f["LocalPlayerCount"]),
                      PutLE(d.f["ResvCheckValue"])>>
    <3>1. t = x \o y BY <2>3
    <3>2. b = x \o y \o d.user
      <4>1. v # 3 /\ v # 11 BY <1>6
      <4> QED BY <4>1 DEF EncodeReservation
    <3> HIDE DEF x, y, t, b
    <3> QED BY <3>1, <3>2
  <2> HIDE DEF b, t
  <2>6. /\ Len(b) = 9 + Len(d.user) /\ Len(b) >= 9 /\ From(b, 9) = d.user
        /\ \A k \in 0 .. 8 : Word(b, k) = t[k + 1]
    <3>1. /\ Len(t \o d.user) = Len(t) + Len(d.user) /\ From(t \o d.user, Len(t)) = d.user
          /\ \A k \in 0 .. Len(t) - 1 : Word(t \o d.user, k) = t[k + 1]
      <4>1. t \in Seq(Words) /\ d.user \in Seq(Words) BY <2>2, <2>4
      <4> QED BY <4>1, Glue
    <3> QED BY <2>2, <2>4, <2>5, <3>1
  <2>7. /\ L(b, 0) = d.f["MatchType"] /\ B(b, 1) = d.f["PublicIP"] /\ L(b, 2) = d.f["PublicPort"]
        /\ B(b, 3) = d.f["LocalIP"] /\ L(b, 4) = d.f["LocalPort"] /\ L(b, 5) = d.f["Unknown"]
        /\ L(b, 6) = d.f["IsFriend"] /\ L(b, 7) = d.f["LocalPlayerCount"]
        /\ L(b, 8) = d.f["ResvCheckValue"]
    <3>1. /\ Word(b, 0) = PutLE(d.f["MatchType"]) /\ Word(b, 1) = PutBE(d.f["PublicIP"])
          /\ Word(b, 2) = PutLE(d.f["PublicPort"]) /\ Word(b, 3) = PutBE(d.f["LocalIP"])
          /\ Word(b, 4) = PutLE(d.f["LocalPort"]) /\ Word(b, 5) = PutLE(d.f["Unknown"])
          /\ Word(b, 6) = PutLE(d.f["IsFriend"]) /\ Word(b, 7) = PutLE(d.f["LocalPlayerCount"])
          /\ Word(b, 8) = PutLE(d.f["ResvCheckValue"])
      BY <2>6 DEF t
    <3> QED BY <2>1, <3>1, LERound, BERound DEF L, B
  <2>8. ~(L(b, 0) > 3) /\ ~(L(b, 2) > 65535) /\ ~(L(b, 4) > 65535) /\ ~(L(b, 6) > 1)
    <3>1. L(b, 0) <= 3 /\ L(b, 2) <= 65535 /\ L(b, 4) <= 65535 /\ L(b, 6) <= 1 BY <2>2, <2>7
    <3>2. L(b, 0) \in Nat /\ L(b, 2) \in Nat /\ L(b, 4) \in Nat /\ L(b, 6) \in Nat BY <1>1, <2>2, <2>7
    <3> QED BY <3>1, <3>2
  <2>9. DecodeReservation(b, v) =
            Command([MatchType |-> d.f["MatchType"], HasPublicIP |-> 1,
                     PublicIP |-> d.f["PublicIP"], PublicPort |-> d.f["PublicPort"],
                     LocalIP |-> d.f["LocalIP"], LocalPort |-> d.f["LocalPort"],
                     Unknown |-> d.f["Unknown"], IsFriend |-> d.f["IsFriend"],
                     LocalPlayerCount |-> d.f["LocalPlayerCount"],
                     ResvCheckValue |-> d.f["ResvCheckValue"]],
                    NoWords, d.user)
    BY <1>6, <2>6, <2>7, <2>8 DEF DecodeReservation
  <2>10. d.f = [MatchType |-> d.f["MatchType"], HasPublicIP |-> 1, PublicIP |-> d.f["PublicIP"],
               PublicPort |-> d.f["PublicPort"], LocalIP |-> d.f["LocalIP"],
               LocalPort |-> d.f["LocalPort"], Unknown |-> d.f["Unknown"],
               IsFriend |-> d.f["IsFriend"], LocalPlayerCount |-> d.f["LocalPlayerCount"],
               ResvCheckValue |-> d.f["ResvCheckValue"]]
    BY <1>6 DEF Has, Fields90, Fields11, Fields3
  <2>11. d = Command(d.f, d.pids, d.user) BY <1>6 DEF Has
  <2>12. DecodeReservation(b, v) = d BY <2>2, <2>9, <2>10, <2>11
  <2> QED BY <1>6, <2>6, <2>12 DEF b
<1> QED BY <1>3, <1>4, <1>5, <1>6 DEF ReservationFits

-----------------------------------------------------------------------------
(* Answers to reservations.                                                 *)

\* The fields of a RESV_OK in versions 3, 11 and 90.
OKFields3 == {"PublicIP", "PublicPort", "ClientCount"}
OKFields11 == OKFields3 \cup {"MaxPlayers", "SenderAID", "GroupID", "IsFriend"}
OKFields90 ==
    OKFields3 \cup {"MaxPlayers", "SenderAID", "ProfileID", "LocalIP", "LocalPort", "Unknown",
                    "LocalPlayerCount", "GroupID", "ReceiverNewAID", "ResvCheckValue"}

\* What a RESV_OK of n words decodes to.  In versions 3 and 11 the count of clients
\* is the number of profile IDs listed; in version 11 one word more is asked for
\* than the fields need, so that some user data is left.
ResvOKFits(d, v, n) ==
    \/ v = 90 /\ d.pids = NoWords /\ n = 13 + Len(d.user) /\ Has(d, OKFields90)
    \/ /\ v = 3 /\ d.f["ClientCount"] = Len(d.pids) /\ Len(d.pids) <= 29
       /\ n = Len(d.pids) + 3 + Len(d.user) /\ Has(d, OKFields3)
    \/ /\ v = 11 /\ d.f["ClientCount"] = Len(d.pids) /\ Len(d.pids) <= 24 /\ d.user # NoWords
       /\ n = Len(d.pids) + 7 + Len(d.user) /\ Has(d, OKFields11)

\* Whatever count of clients a RESV_OK claims, an accepted one was read within the
\* buffer.
LEMMA ResvOKDecoded ==
    ASSUME NEW b \in Seq(Words), NEW v \in {3, 11, 90}, DecodeResvOK(b, v).ok
    PROVE  ResvOKFits(DecodeResvOK(b, v), v, Len(b))
<1> DEFINE d == DecodeResvOK(b, v)
<1>1. Len(b) \in Nat OBVIOUS
<1>2. ~NotDecoded.ok BY DEF NotDecoded
<1>3. \A k \in 0 .. Len(b) - 1 : L(b, k) \in U32 /\ B(b, k) \in U32
  <2> SUFFICES ASSUME NEW k \in 0 .. Len(b) - 1 PROVE L(b, k) \in U32 /\ B(b, k) \in U32
    OBVIOUS
  <2>1. k \in 0 .. Len(b) /\ k < Len(b) BY <1>1
  <2> QED BY <2>1, Read
<1>4. \A k \in 0 .. Len(b) : From(b, k) \in Seq(Words) /\ Len(From(b, k)) = Len(b) - k BY Read
<1>5. \A k \in U32 : k \in Nat BY DEF U32
<1>6. CASE v = 90
  <2>1. /\ Len(b) >= 13 /\ ~(L(b, 4) > 65535) /\ ~(L(b, 6) > 65535)
    BY <1>1, <1>2, <1>6 DEF DecodeResvOK
  <2>2. /\ L(b, 0) \in U32 /\ L(b, 1) \in U32 /\ L(b, 2) \in U32 /\ B(b, 3) \in U32
        /\ L(b, 4) \in U32 /\ B(b, 5) \in U32 /\ L(b, 6) \in U32 /\ L(b, 7) \in U32
        /\ L(b, 8) \in U32 /\ L(b, 9) \in U32 /\ L(b, 10) \in U32 /\ L(b, 11) \in U32
        /\ L(b, 12) \in U32
    BY <1>1, <1>3, <2>1
  <2>3. /\ L(b, 4) <= 65535 /\ L(b, 6) <= 65535
    <3>1. /\ L(b, 4) \in Nat /\ L(b, 6) \in Nat BY <1>5, <2>2
    <3> QED BY <2>1, <3>1
  <2>4. d = Command([MaxPlayers |-> L(b, 0), SenderAID |-> L(b, 1), ProfileID |-> L(b, 2),
                     PublicIP |-> B(b, 3), PublicPort |-> L(b, 4), LocalIP |-> B(b, 5),
                     LocalPort |-> L(b, 6), Unknown |-> L(b, 7), LocalPlayerCount |-> L(b, 8),
                     GroupID |-> L(b, 9), ReceiverNewAID |-> L(b, 10), ClientCount |-> L(b, 11),
                     ResvCheckValue |-> L(b, 12)],
                    NoWords, From(b, 13))
    BY <1>1, <1>2, <1>6 DEF DecodeResvOK
  <2> HIDE DEF d
  <2>5. From(b, 13) \in Seq(Words) /\ Len(b) = 13 + Len(From(b, 13)) BY <1>1, <1>4, <2>1
  <2>6. Has(d, OKFields90) BY <1>1, <2>2, <2>3, <2>4, <2>5 DEF Has, Command, NoWords, OKFields90, OKFields3
  <2>7. d.pids = NoWords /\ d.user = From(b, 13) BY <2>4 DEF Command
  <2> QED BY <1>6, <2>5, <2>6, <2>7 DEF ResvOKFits, d
<1>7. ASSUME v # 90
      PROVE  /\ Len(b) >= 3 /\ L(b, 0) \in Nat
             /\ v = 3 => L(b, 0) <= 29 /\ Len(b) >= L(b, 0) + 3
             /\ v = 11 => L(b, 0) <= 24 /\ Len(b) >= L(b, 0) + 8 /\ ~(L(b, L(b, 0) + 1 + 2) > 1)
             /\ ~(L(b, L(b, 0) + 1 + 1) > 65535)
             /\ [k \in 1 .. L(b, 0) |-> L(b, k)] \in Seq(U32)
             /\ Len([k \in 1 .. L(b, 0) |-> L(b, k)]) = L(b, 0)
  <2>1. Len(b) >= 3 BY <1>1, <1>2, <1>7 DEF DecodeResvOK
  <2>2. L(b, 0) \in U32 /\ L(b, 0) \in Nat BY <1>1, <1>3, <1>5, <2>1
  <2>3. /\ v = 3 => ~(L(b, 0) > 29) /\ ~(Len(b) < L(b, 0) + 3)
        /\ v = 11 => ~(L(b, 0) > 24) /\ ~(Len(b) < L(b, 0) + 8) /\ ~(L(b, L(b, 0) + 1 + 2) > 1)
        /\ ~(L(b, L(b, 0) + 1 + 1) > 65535)
    BY <1>2, <1>7 DEF DecodeResvOK
  <2>4. /\ v = 3 => L(b, 0) <= 29 /\ Len(b) >= L(b, 0) + 3
        /\ v = 11 => L(b, 0) <= 24 /\ Len(b) >= L(b, 0) + 8
    BY <1>1, <2>2, <2>3
  <2>5. L(b, 0) < Len(b) BY <1>1, <1>7, <2>2, <2>4
  <2>6. \A k \in 1 .. L(b, 0) : L(b, k) \in U32 BY <1>1, <1>3, <2>2, <2>5
  <2> HIDE DEF d
  <2>7. /\ [k \in 1 .. L(b, 0) |-> L(b, k)] \in Seq(U32)
        /\ Len([k \in 1 .. L(b, 0) |-> L(b, k)]) = L(b, 0)
    BY <2>2, <2>6
  <2> QED BY <2>1, <2>2, <2>3, <2>4, <2>7
<1>8. CASE v = 3
  <2> DEFINE m == L(b, 0)
             pids == [k \in 1 .. m |-> L(b, k)]
  <2>1. /\ m \in Nat /\ m <= 29 /\ Len(b) >= m + 3 /\ pids \in Seq(U32) /\ Len(pids) = m
        /\ ~(L(b, m + 1 + 1) > 65535)
    BY <1>7, <1>8
  <2>2. d = Command([PublicIP |-> B(b, m + 1), PublicPort |-> L(b, m + 1 + 1), ClientCount |-> m],
                    pids, From(b, m + 1 + 2))
    BY <1>2, <1>8 DEF DecodeResvOK
  <2>3. m \in U32 BY <1>1, <1>3, <2>1
  <2> HIDE DEF d, m, pids
  <2>4. /\ m + 1 + 1 = m + 2 /\ m + 1 + 2 = m + 3
    BY <2>1
  <2>5. /\ B(b, m + 1) \in U32 /\ L(b, m + 2) \in U32
    BY <1>1, <1>3, <2>1
  <2>6. /\ L(b, m + 2) <= 65535
    <3>1. /\ ~(L(b, m + 2) > 65535) BY <2>1, <2>4
    <3> QED BY <1>5, <2>5, <3>1
  <2>7. From(b, m + 3) \in Seq(Words) /\ Len(b) = m + 3 + Len(From(b, m + 3))
    <3>1. m + 3 \in 0 .. Len(b) BY <1>1, <2>1
    <3> QED BY <1>1, <1>4, <2>1, <3>1
  <2>8. d = Command([PublicIP |-> B(b, m + 1), PublicPort |-> L(b, m + 2), ClientCount |-> m],
                    pids, From(b, m + 3))
    BY <2>2, <2>4
  <2>9. Has(d, OKFields3)
    BY <2>1, <2>3, <2>5, <2>6, <2>7, <2>8 DEF Has, Command, OKFields3
  <2>10. d.pids = pids /\ d.user = From(b, m + 3) /\ d.f["ClientCount"] = m BY <2>8 DEF Command
  <2>11. /\ d.f["ClientCount"] = Len(d.pids) /\ Len(d.pids) <= 29
         /\ Len(b) = Len(d.pids) + 3 + Len(d.user)
    BY <2>1, <2>7, <2>10
  <2> QED BY <1>8, <2>9, <2>11 DEF ResvOKFits, d
<1>9. CASE v = 11
  <2> DEFINE m == L(b, 0)
             pids == [k \in 1 .. m |-> L(b, k)]
  <2>1. /\ m \in Nat /\ m <= 24 /\ Len(b) >= m + 8 /\ pids \in Seq(U32) /\ Len(pids) = m
        /\ ~(L(b, m + 1 + 1) > 65535) /\ ~(L(b, m + 1 + 2) > 1)
    BY <1>7, <1>9
  <2>2. d = Command([MaxPlayers |-> L(b, m + 1 + 5), SenderAID |-> L(b, m + 1 + 3),
                     PublicIP |-> B(b, m + 1), PublicPort |-> L(b, m + 1 + 1),
                     GroupID |-> L(b, m + 1 + 4), ClientCount |-> m,
                     IsFriend |-> L(b, m + 1 + 2)],
                    pids, From(b, m + 1 + 6))
    BY <1>2, <1>9 DEF DecodeResvOK
  <2>3. m \in U32 BY <1>1, <1>3, <2>1
  <2> HIDE DEF d, m, pids
  <2>4. /\ m + 1 + 1 = m + 2 /\ m + 1 + 2 = m + 3 /\ m + 1 + 3 = m + 4 /\ m + 1 + 4 = m + 5
        /\ m + 1 + 5 = m + 6 /\ m + 1 + 6 = m + 7
    BY <2>1
  <2>5. /\ L(b, m + 6) \in U32 /\ L(b, m + 4) \in U32 /\ B(b, m + 1) \in U32 /\ L(b, m + 2) \in U32
        /\ L(b, m + 5) \in U32 /\ L(b, m + 3) \in U32
    BY <1>1, <1>3, <2>1
  <2>6. /\ L(b, m + 2) <= 65535 /\ L(b, m + 3) <= 1
    <3>1. /\ ~(L(b, m + 2) > 65535) /\ ~(L(b, m + 3) > 1) BY <2>1, <2>4
    <3> QED BY <1>5, <2>5, <3>1
  <2>7. From(b, m + 7) \in Seq(Words) /\ Len(b) = m + 7 + Len(From(b, m + 7))
    <3>1. m + 7 \in 0 .. Len(b) BY <1>1, <2>1
    <3> QED BY <1>1, <1>4, <2>1, <3>1
  <2>8. d = Command([MaxPlayers |-> L(b, m + 6), SenderAID |-> L(b, m + 4),
                     PublicIP |-> B(b, m + 1), PublicPort |-> L(b, m + 2),
                     GroupID |-> L(b, m + 5), ClientCount |-> m, IsFriend |-> L(b, m + 3)],
                    pids, From(b, m + 7))
    BY <2>2, <2>4
  <2>9. Has(d, OKFields11)
    BY <2>1, <2>3, <2>5, <2>6, <2>7, <2>8 DEF Has, Command, OKFields11, OKFields3
  <2>10. d.pids = pids /\ d.user = From(b, m + 7) /\ d.f["ClientCount"] = m BY <2>8 DEF Command
  <2>11. From(b, m + 7) # NoWords BY <1>1, <2>1, <2>7 DEF NoWords
  <2>12. /\ d.f["ClientCount"] = Len(d.pids) /\ Len(d.pids) <= 24
         /\ Len(b) = Len(d.pids) + 7 + Len(d.user)
    BY <2>1, <2>7, <2>10
  <2> QED BY <1>9, <2>9, <2>12, <2>10, <2>11 DEF ResvOKFits, d
<1> QED BY <1>6, <1>8, <1>9

\* The elements of a concatenation.
LEMMA Concat ==
    ASSUME NEW S, NEW s \in Seq(S), NEW t \in Seq(S)
    PROVE  /\ s \o t \in Seq(S) /\ Len(s \o t) = Len(s) + Len(t)
           /\ \A k \in 1 .. Len(s) : (s \o t)[k] = s[k]
           /\ \A k \in 1 .. Len(t) : (s \o t)[Len(s) + k] = t[k]
OBVIOUS

\* Words after a counted list of profile IDs.
LEMMA Counted ==
    ASSUME NEW p \in Seq(U32), NEW t \in Seq(Words)
    PROVE  LET q == [k \in DOMAIN p |-> PutLE(p[k])]
               s == <<PutLE(Len(p))>> \o q \o t
           IN  /\ s \in Seq(Words) /\ Len(s) = Len(p) + 1 + Len(t) /\ s[1] = PutLE(Len(p))
               /\ \A k \in 1 .. Len(p) : s[k + 1] = PutLE(p[k])
               /\ \A k \in 1 .. Len(t) : s[Len(p) + 1 + k] = t[k]
<1> DEFINE q == [k \in DOMAIN p |-> PutLE(p[k])]
           a == <<PutLE(Len(p))>>
           s == a \o q \o t
<1>1. Len(p) \in Nat /\ DOMAIN p = 1 .. Len(p) OBVIOUS
<1>2. \A k \in 1 .. Len(p) : p[k] \in Nat BY DEF U32
<1>3. PutLE(Len(p)) \in Words /\ \A k \in 1 .. Len(p) : PutLE(p[k]) \in Words
  BY <1>1, <1>2, PutWord
<1>4. a \in Seq(Words) /\ Len(a) = 1 /\ a[1] = PutLE(Len(p)) BY <1>3
<1>5. q \in Seq(Words) /\ Len(q) = Len(p) /\ \A k \in 1 .. Len(p) : q[k] = PutLE(p[k])
  BY <1>1, <1>3
<1> HIDE DEF q, a
<1>6. /\ a \o q \in Seq(Words) /\ Len(a \o q) = Len(a) + Len(q)
      /\ \A k \in 1 .. Len(a) : (a \o q)[k] = a[k]
      /\ \A k \in 1 .. Len(q) : (a \o q)[Len(a) + k] = q[k]
  <2>1. a \in Seq(Words) /\ q \in Seq(Words) BY <1>4, <1>5
  <2> QED BY <2>1, Concat
<1>7. /\ a \o q \in Seq(Words) /\ Len(a \o q) = Len(p) + 1 /\ (a \o q)[1] = PutLE(Len(p))
      /\ \A k \in 1 .. Len(p) : (a \o q)[k + 1] = PutLE(p[k])
  <2>1. \A k \in 1 .. Len(p) : Len(a) + k = k + 1 BY <1>1, <1>4
  <2> QED BY <1>1, <1>4, <1>5, <1>6, <2>1
<1>8. /\ s \in Seq(Words) /\ Len(s) = Len(a \o q) + Len(t)
      /\ \A k \in 1 .. Len(a \o q) : s[k] = (a \o q)[k]
      /\ \A k \in 1 .. Len(t) : s[Len(a \o q) + k] = t[k]
  <2>1. a \o q \in Seq(Words) BY <1>7
  <2> QED BY <2>1, Concat
<1> HIDE DEF s
<1>9. Len(s) = Len(p) + 1 + Len(t) /\ s[1] = PutLE(Len(p)) BY <1>1, <1>7, <1>8
<1>10. \A k \in 1 .. Len(p) : s[k + 1] = PutLE(p[k])
  <2>1. \A k \in 1 .. Len(p) : k + 1 \in 1 .. Len(a \o q) BY <1>1, <1>7
  <2> QED BY <1>7, <1>8, <2>1
<1>11. \A k \in 1 .. Len(t) : s[Len(p) + 1 + k] = t[k] BY <1>7, <1>8
<1>12. s \in Seq(Words) BY <1>8
<1> QED BY <1>9, <1>10, <1>11, <1>12 DEF q, a, s

\* A RESV_OK is encoded to what decodes to it, for any number of profile IDs.
LEMMA ResvOKRound ==
    ASSUME NEW d, NEW v, NEW n, ResvOKFits(d, v, n)
    PROVE  DecodeResvOK(EncodeResvOK(d, v), v) = d /\ Len(EncodeResvOK(d, v)) = n
<1> DEFINE b == EncodeResvOK(d, v)
<1>1. \A k \in U32 : /\ PutLE(k) \in Words /\ PutBE(k) \in Words
                     /\ LE(PutLE(k)) = k /\ BE(PutBE(k)) = k /\ k \in Nat
  BY PutWord, LERound, BERound DEF U32
<1>2. \A k \in U32 : PutLE(k) \in Words /\ PutBE(k) \in Words BY <1>1
<1>3. CASE v = 90 /\ d.pids = NoWords /\ n = 13 + Len(d.user) /\ Has(d, OKFields90)
  <2> DEFINE t == <<PutLE(d.f["MaxPlayers"]), PutLE(d.f["SenderAID"]), PutLE(d.f["ProfileID"]),
                    PutBE(d.f["PublicIP"]), PutLE(d.f["PublicPort"]), PutBE(d.f["LocalIP"]),
                    PutLE(d.f["LocalPort"]), PutLE(d.f["Unknown"]),
                    PutLE(d.f["LocalPlayerCount"]), PutLE(d.f["GroupID"]),
                    PutLE(d.f["ReceiverNewAID"]), PutLE(d.f["ClientCount"]),
                    PutLE(d.f["ResvCheckValue"])>>
  <2>1. /\ d.f["MaxPlayers"] \in U32 /\ d.f["SenderAID"] \in U32 /\ d.f["ProfileID"] \in U32
        /\ d.f["PublicIP"] \in U32 /\ d.f["PublicPort"] \in U32 /\ d.f["LocalIP"] \in U32
        /\ d.f["LocalPort"] \in U32 /\ d.f["Unknown"] \in U32 /\ d.f["LocalPlayerCount"] \in U32
        /\ d.f["GroupID"] \in U32 /\ d.f["ReceiverNewAID"] \in U32 /\ d.f["ClientCount"] \in U32
        /\ d.f["ResvCheckValue"] \in U32
    BY <1>3 DEF Has, OKFields90, OKFields3
  <2>2. /\ PutLE(d.f["MaxPlayers"]) \in Words /\ PutLE(d.f["SenderAID"]) \in Words
        /\ PutLE(d.f["ProfileID"]) \in Words /\ PutBE(d.f["PublicIP"]) \in Words
        /\ PutLE(d.f["PublicPort"]) \in Words /\ PutBE(d.f["LocalIP"]) \in Words
        /\ PutLE(d.f["LocalPort"]) \in Words /\ PutLE(d.f["Unknown"]) \in Words
        /\ PutLE(d.f["LocalPlayerCount"]) \in Words /\ PutLE(d.f["GroupID"]) \in Words
        /\ PutLE(d.f["ReceiverNewAID"]) \in Words /\ PutLE(d.f["ClientCount"]) \in Words
        /\ PutLE(d.f["ResvCheckValue"]) \in Words
    BY <1>2, <2>1
  <2>3. t \in Seq(Words) /\ Len(t) = 13 BY <2>2
  <2>4. d.user \in Seq(Words) /\ d.f["PublicPort"] <= 65535 /\ d.f["LocalPort"] <= 65535
    BY <1>3 DEF Has, OKFields90, OKFields3
  <2>5. b = t \o d.user BY <1>3 DEF EncodeResvOK
  <2> HIDE DEF b, t
  <2>6. /\ Len(t \o d.user) = Len(t) + Len(d.user) /\ From(t \o d.user, Len(t)) = d.user
        /\ \A k \in 0 .. Len(t) - 1 : Word(t \o d.user, k) = t[k + 1]
    <3>1. t \in Seq(Words) /\ d.user \in Seq(Words) BY <2>3, <2>4
    <3> QED BY <3>1, Glue
  <2>7. /\ Len(b) = 13 + Len(d.user) /\ Len(b) >= 13 /\ From(b, 13) = d.user
        /\ \A k \in 0 .. 12 : Word(b, k) = t[k + 1]
    BY <2>3, <2>4, <2>5, <2>6
  <2>8. /\ L(b, 0) = d.f["MaxPlayers"] /\ L(b, 1) = d.f["SenderAID"] /\ L(b, 2) = d.f["ProfileID"]
        /\ B(b, 3) = d.f["PublicIP"] /\ L(b, 4) = d.f["PublicPort"] /\ B(b, 5) = d.f["LocalIP"]
        /\ L(b, 6) = d.f["LocalPort"] /\ L(b, 7) = d.f["Unknown"]
        /\ L(b, 8) = d.f["LocalPlayerCount"] /\ L(b, 9) = d.f["GroupID"]
        /\ L(b, 10) = d.f["ReceiverNewAID"] /\ L(b, 11) = d.f["ClientCount"]
        /\ L(b, 12) = d.f["ResvCheckValue"]
    <3>1. /\ Word(b, 0) = PutLE(d.f["MaxPlayers"]) /\ Word(b, 1) = PutLE(d.f["SenderAID"])
          /\ Word(b, 2) = PutLE(d.f["ProfileID"]) /\ Word(b, 3) = PutBE(d.f["PublicIP"])
          /\ Word(b, 4) = PutLE(d.f["PublicPort"]) /\ Word(b, 5) = PutBE(d.f["LocalIP"])
          /\ Word(b, 6) = PutLE(d.f["LocalPort"]) /\ Word(b, 7) = PutLE(d.f["Unknown"])
          /\ Word(b, 8) = PutLE(d.f["LocalPlayerCount"]) /\ Word(b, 9) = PutLE(d.f["GroupID"])
          /\ Word(b, 10) = PutLE(d.f["ReceiverNewAID"])
          /\ Word(b, 11) = PutLE(d.f["ClientCount"])
          /\ Word(b, 12) = PutLE(d.f["ResvCheckValue"])
      BY <2>7 DEF t
    <3>2. \A k \in U32 : LE(PutLE(k)) = k /\ BE(PutBE(k)) = k BY <1>1
    <3> QED BY <2>1, <3>1, <3>2 DEF L, B
  <2>9. ~(L(b, 4) > 65535) /\ ~(L(b, 6) > 65535)
    <3>1. L(b, 4) <= 65535 /\ L(b, 6) <= 65535 BY <2>4, <2>8
    <3>2. L(b, 4) \in Nat /\ L(b, 6) \in Nat BY <1>1, <2>1, <2>8
    <3> QED BY <3>1, <3>2
  <2>10. DecodeResvOK(b, v) =
            Command([MaxPlayers |-> d.f["MaxPlayers"], SenderAID |-> d.f["SenderAID"],
                     ProfileID |-> d.f["ProfileID"], PublicIP |-> d.f["PublicIP"],
                     PublicPort |-> d.f["PublicPort"], LocalIP |-> d.f["LocalIP"],
                     LocalPort |-> d.f["LocalPort"], Unknown |-> d.f["Unknown"],
                     LocalPlayerCount |-> d.f["LocalPlayerCount"], GroupID |-> d.f["GroupID"],
                     ReceiverNewAID |-> d.f["ReceiverNewAID"],
                     ClientCount |-> d.f["ClientCount"],
                     ResvCheckValue |-> d.f["ResvCheckValue"]],
                    NoWords, d.user)
    BY <1>3, <2>7, <2>8, <2>9 DEF DecodeResvOK
  <2>11. d.f = [MaxPlayers |-> d.f["MaxPlayers"], SenderAID |-> d.f["SenderAID"],
               ProfileID |-> d.f["ProfileID"], PublicIP |-> d.f["PublicIP"],
               PublicPort |-> d.f["PublicPort"], LocalIP |-> d.f["LocalIP"],
               LocalPort |-> d.f["LocalPort"], Unknown |-> d.f["Unknown"],
               LocalPlayerCount |-> d.f["LocalPlayerCount"], GroupID |-> d.f["GroupID"],
               ReceiverNewAID |-> d.f["ReceiverNewAID"], ClientCount |-> d.f["ClientCount"],
               ResvCheckValue |-> d.f["ResvCheckValue"]]
    BY <1>3 DEF Has, OKFields90, OKFields3
  <2>12. d = Command(d.f, d.pids, d.user) BY <1>3 DEF Has
  <2>13. DecodeResvOK(b, v) = d BY <1>3, <2>10, <2>11, <2>12
  <2> QED BY <1>3, <2>7, <2>13 DEF b
<1>4. CASE /\ v = 3 /\ d.f["ClientCount"] = Len(d.pids) /\ Len(d.pids) <= 29
           /\ n = Len(d.pids) + 3 + Len(d.user) /\ Has(d, OKFields3)
  <2> DEFINE m == Len(d.pids)
             q == [k \in DOMAIN d.pids |-> PutLE(d.pids[k])]
             t == <<PutBE(d.f["PublicIP"]), PutLE(d.f["PublicPort"])>>
             s == <<PutLE(m)>> \o q \o t
  <2>1. /\ d.f["PublicIP"] \in U32 /\ d.f["PublicPort"] \in U32 /\ m \in U32
    BY <1>4 DEF Has, OKFields3
  <2>2. /\ PutBE(d.f["PublicIP"]) \in Words /\ PutLE(d.f["PublicPort"]) \in Words
    BY <1>2, <2>1
  <2>3. t \in Seq(Words) /\ Len(t) = 2 BY <2>2
  <2>4. d.user \in Seq(Words) /\ d.pids \in Seq(U32) BY <1>4 DEF Has
  <2>5. m \in Nat /\ m <= 29 BY <1>4, <2>4
  <2>6. /\ d.f["PublicPort"] <= 65535
    BY <1>4 DEF Has, OKFields3
  <2>7. b = s \o d.user
    <3>1. b = s \o NoWords \o d.user
      <4>1. v # 90 /\ v # 11 /\ d.f.ClientCount = m BY <1>4
      <4> HIDE DEF m
      <4> QED BY <4>1 DEF EncodeResvOK
    <3>2. s \in Seq(Words) BY <2>3, <2>4, Counted
    <3> HIDE DEF b, s
    <3>3. s \o NoWords = s BY <3>2 DEF NoWords
    <3> QED BY <3>1, <3>3
  <2> HIDE DEF b, t
  <2>8. /\ s \in Seq(Words) /\ Len(s) = m + 1 + Len(t) /\ s[1] = PutLE(m)
        /\ \A k \in 1 .. m : s[k + 1] = PutLE(d.pids[k])
        /\ \A k \in 1 .. Len(t) : s[m + 1 + k] = t[k]
    <3>1. t \in Seq(Words) BY <2>3
    <3> QED BY <2>4, <3>1, Counted
  <2> HIDE DEF s, q
  <2>9. /\ Len(s \o d.user) = Len(s) + Len(d.user) /\ From(s \o d.user, Len(s)) = d.user
        /\ \A k \in 0 .. Len(s) - 1 : Word(s \o d.user, k) = s[k + 1]
    <3>1. s \in Seq(Words) /\ d.user \in Seq(Words) BY <2>4, <2>8
    <3> QED BY <3>1, Glue
  <2>10. /\ Len(b) = m + 3 + Len(d.user) /\ From(b, m + 3) = d.user
         /\ \A k \in 0 .. m + 2 : Word(b, k) = s[k + 1]
    <3>1. Len(s) = m + 3 BY <2>3, <2>5, <2>8
    <3>2. \A k \in 0 .. m + 2 : k \in 0 .. Len(s) - 1 BY <2>5, <3>1
    <3> HIDE DEF m
    <3> QED BY <2>7, <2>9, <3>1, <3>2
  <2>11. L(b, 0) = m
    <3>1. Word(b, 0) = PutLE(m) BY <2>5, <2>8, <2>10
    <3> QED BY <1>1, <2>1, <3>1 DEF L
  <2>12. \A k \in 1 .. m : L(b, k) = d.pids[k]
    <3>1. \A k \in 1 .. m : Word(b, k) = PutLE(d.pids[k])
      <4>1. \A k \in 1 .. m : k \in 0 .. m + 2 BY <2>5
      <4> QED BY <2>8, <2>10, <4>1
    <3>2. \A k \in 1 .. m : d.pids[k] \in U32 BY <2>4
    <3> QED BY <1>1, <3>1, <3>2 DEF L
  <2>13. /\ B(b, m + 1) = d.f["PublicIP"] /\ L(b, m + 2) = d.f["PublicPort"]
    <3>1. \A k \in 1 .. 2 : Word(b, m + k) = t[k]
      <4>1. \A k \in 1 .. 2 : m + k \in 0 .. m + 2 /\ m + k + 1 = m + 1 + k BY <2>5
      <4>2. \A k \in 1 .. 2 : Word(b, m + k) = s[m + 1 + k] BY <2>10, <4>1
      <4> QED BY <2>3, <2>8, <4>2
    <3>2. /\ Word(b, m + 1) = PutBE(d.f["PublicIP"]) /\ Word(b, m + 2) = PutLE(d.f["PublicPort"]) BY <3>1 DEF t
    <3> QED BY <1>1, <2>1, <3>2 DEF L, B
  <2>14. /\ m + 1 + 1 = m + 2 /\ m + 1 + 2 = m + 3 BY <2>5
  <2>15. /\ ~(L(b, m + 2) > 65535) /\ ~(m > 29) /\ ~(Len(b) < 3) /\ ~(Len(b) < m + 3)
    <3>1. L(b, m + 2) <= 65535 /\ L(b, m + 2) \in Nat BY <1>1, <2>1, <2>6, <2>13
    <3>2. PICK u \in Nat : Len(d.user) = u BY <2>4
    <3>3. Len(b) = m + 3 + u BY <2>10, <3>2
    <3> HIDE DEF m
    <3>4. ~(Len(b) < 3) /\ ~(Len(b) < m + 3) BY <2>5, <3>2, <3>3
    <3> QED BY <2>5, <3>1, <3>4
  <2>16. [k \in 1 .. m |-> L(b, k)] = d.pids BY <2>4, <2>12
  <2>17. DecodeResvOK(b, v) =
            Command([PublicIP |-> d.f["PublicIP"], PublicPort |-> d.f["PublicPort"],
                     ClientCount |-> m],
                    d.pids, d.user)
    <3>1. DecodeResvOK(b, v) =
            Command([PublicIP |-> B(b, m + 1), PublicPort |-> L(b, m + 1 + 1), ClientCount |-> m],
                    [k \in 1 .. m |-> L(b, k)], From(b, m + 1 + 2))
      <4> DEFINE c == L(b, 0)
      <4>1. v # 90 /\ v # 11 /\ v = 3 BY <1>4
      <4>2. /\ ~(Len(b) < 3) /\ ~(c > 29) /\ ~(Len(b) < c + 3) /\ ~(L(b, c + 1 + 1) > 65535)
            /\ c = m
        BY <2>11, <2>14, <2>15
      <4>3. DecodeResvOK(b, v) =
              Command([PublicIP |-> B(b, c + 1), PublicPort |-> L(b, c + 1 + 1), ClientCount |-> c],
                      [k \in 1 .. c |-> L(b, k)], From(b, c + 1 + 2))
        BY <4>1, <4>2 DEF DecodeResvOK
      <4> HIDE DEF c, m
      <4> QED BY <4>3, <2>11 DEF c
    <3> QED BY <2>10, <2>13, <2>14, <2>16, <3>1
  <2>18. d.f = [PublicIP |-> d.f["PublicIP"], PublicPort |-> d.f["PublicPort"],
                     ClientCount |-> m]
    BY <1>4 DEF Has, OKFields3
  <2>19. d = Command(d.f, d.pids, d.user) BY <1>4 DEF Has
  <2>20. DecodeResvOK(b, v) = d BY <2>17, <2>18, <2>19
  <2> QED BY <1>4, <2>10, <2>20 DEF b
<1>5. CASE /\ v = 11 /\ d.f["ClientCount"] = Len(d.pids) /\ Len(d.pids) <= 24 /\ d.user # NoWords
           /\ n = Len(d.pids) + 7 + Len(d.user) /\ Has(d, OKFields11)
  <2> DEFINE m == Len(d.pids)
             q == [k \in DOMAIN d.pids |-> PutLE(d.pids[k])]
             t == <<PutBE(d.f["PublicIP"]), PutLE(d.f["PublicPort"]), PutLE(d.f["IsFriend"]),
                    PutLE(d.f["SenderAID"]), PutLE(d.f["GroupID"]), PutLE(d.f["MaxPlayers"])>>
             s == <<PutLE(m)>> \o q \o t
  <2>1. /\ d.f["PublicIP"] \in U32 /\ d.f["PublicPort"] \in U32 /\ d.f["IsFriend"] \in U32
        /\ d.f["SenderAID"] \in U32 /\ d.f["GroupID"] \in U32 /\ d.f["MaxPlayers"] \in U32 /\ m \in U32
    BY <1>5 DEF Has, OKFields11, OKFields3
  <2>2. /\ PutBE(d.f["PublicIP"]) \in Words /\ PutLE(d.f["PublicPort"]) \in Words
        /\ PutLE(d.f["IsFriend"]) \in Words /\ PutLE(d.f["SenderAID"]) \in Words
        /\ PutLE(d.f["GroupID"]) \in Words /\ PutLE(d.f["MaxPlayers"]) \in Words
    BY <1>2, <2>1
  <2>3. t \in Seq(Words) /\ Len(t) = 6 BY <2>2
  <2>4. d.user \in Seq(Words) /\ d.pids \in Seq(U32) BY <1>5 DEF Has
  <2>5. m \in Nat /\ m <= 24 BY <1>5, <2>4
  <2>6. /\ d.f["PublicPort"] <= 65535 /\ d.f["IsFriend"] <= 1
    BY <1>5 DEF Has, OKFields11, OKFields3
  <2>7. b = s \o d.user
    <3> DEFINE a == <<PutLE(m)>> \o q
               x == <<PutBE(d.f["PublicIP"]), PutLE(d.f["PublicPort"])>>
               y == <<PutLE(d.f["IsFriend"]), PutLE(d.f["SenderAID"]), PutLE(d.f["GroupID"]),
                      PutLE(d.f["MaxPlayers"])>>
    <3>1. \A k \in DOMAIN d.pids : PutLE(d.pids[k]) \in Words BY <1>2, <2>4
    <3>2. a \in Seq(Words) BY <1>2, <2>1, <2>4, <3>1
    <3>3. x \in Seq(Words) /\ y \in Seq(Words) /\ t = x \o y BY <2>2
    <3>4. b = a \o x \o y \o d.user
      <4>1. v # 90 /\ v = 11 /\ d.f.ClientCount = m BY <1>5
      <4> HIDE DEF m
      <4> QED BY <4>1 DEF EncodeResvOK
    <3> HIDE DEF a, x, y, b
    <3>5. (a \o x) \o y = a \o (x \o y) BY <3>2, <3>3
    <3> QED BY <3>3, <3>4, <3>5 DEF a
  <2> HIDE DEF b, t
  <2>8. /\ s \in Seq(Words) /\ Len(s) = m + 1 + Len(t) /\ s[1] = PutLE(m)
        /\ \A k \in 1 .. m : s[k + 1] = PutLE(d.pids[k])
        /\ \A k \in 1 .. Len(t) : s[m + 1 + k] = t[k]
    <3>1. t \in Seq(Words) BY <2>3
    <3> QED BY <2>4, <3>1, Counted
  <2> HIDE DEF s, q
  <2>9. /\ Len(s \o d.user) = Len(s) + Len(d.user) /\ From(s \o d.user, Len(s)) = d.user
        /\ \A k \in 0 .. Len(s) - 1 : Word(s \o d.user, k) = s[k + 1]
    <3>1. s \in Seq(Words) /\ d.user \in Seq(Words) BY <2>4, <2>8
    <3> QED BY <3>1, Glue
  <2>10. /\ Len(b) = m + 7 + Len(d.user) /\ From(b, m + 7) = d.user
         /\ \A k \in 0 .. m + 6 : Word(b, k) = s[k + 1]
    <3>1. Len(s) = m + 7 BY <2>3, <2>5, <2>8
    <3>2. \A k \in 0 .. m + 6 : k \in 0 .. Len(s) - 1 BY <2>5, <3>1
    <3> HIDE DEF m
    <3> QED BY <2>7, <2>9, <3>1, <3>2
  <2>11. L(b, 0) = m
    <3>1. Word(b, 0) = PutLE(m) BY <2>5, <2>8, <2>10
    <3> QED BY <1>1, <2>1, <3>1 DEF L
  <2>12. \A k \in 1 .. m : L(b, k) = d.pids[k]
    <3>1. \A k \in 1 .. m : Word(b, k) = PutLE(d.pids[k])
      <4>1. \A k \in 1 .. m : k \in 0 .. m + 6 BY <2>5
      <4> QED BY <2>8, <2>10, <4>1
    <3>2. \A k \in 1 .. m : d.pids[k] \in U32 BY <2>4
    <3> QED BY <1>1, <3>1, <3>2 DEF L
  <2>13. /\ B(b, m + 1) = d.f["PublicIP"] /\ L(b, m + 2) = d.f["PublicPort"]
         /\ L(b, m + 3) = d.f["IsFriend"] /\ L(b, m + 4) = d.f["SenderAID"]
         /\ L(b, m + 5) = d.f["GroupID"] /\ L(b, m + 6) = d.f["MaxPlayers"]
    <3>1. \A k \in 1 .. 6 : Word(b, m + k) = t[k]
      <4>1. \A k \in 1 .. 6 : m + k \in 0 .. m + 6 /\ m + k + 1 = m + 1 + k BY <2>5
      <4>2. \A k \in 1 .. 6 : Word(b, m + k) = s[m + 1 + k] BY <2>10, <4>1
      <4> QED BY <2>3, <2>8, <4>2
    <3>2. /\ Word(b, m + 1) = PutBE(d.f["PublicIP"]) /\ Word(b, m + 2) = PutLE(d.f["PublicPort"])
          /\ Word(b, m + 3) = PutLE(d.f["IsFriend"]) /\ Word(b, m + 4) = PutLE(d.f["SenderAID"])
          /\ Word(b, m + 5) = PutLE(d.f["GroupID"]) /\ Word(b, m + 6) = PutLE(d.f["MaxPlayers"]) BY <3>1 DEF t
    <3> QED BY <1>1, <2>1, <3>2 DEF L, B
  <2>14. /\ m + 1 + 1 = m + 2 /\ m + 1 + 2 = m + 3 /\ m + 1 + 3 = m + 4 /\ m + 1 + 4 = m + 5
         /\ m + 1 + 5 = m + 6 /\ m + 1 + 6 = m + 7 BY <2>5
  <2>15. /\ ~(L(b, m + 2) > 65535) /\ ~(m > 24) /\ ~(Len(b) < 3) /\ ~(Len(b) < m + 8)
         /\ ~(L(b, m + 3) > 1)
    <3>1. L(b, m + 2) <= 65535 /\ L(b, m + 2) \in Nat BY <1>1, <2>1, <2>6, <2>13
    <3>2. L(b, m + 3) <= 1 /\ L(b, m + 3) \in Nat BY <1>1, <2>1, <2>6, <2>13
    <3>3. Len(d.user) >= 1 BY <1>5, <2>4 DEF NoWords
    <3>4. PICK u \in Nat : Len(d.user) = u BY <2>4
    <3>5. Len(b) = m + 7 + u BY <2>10, <3>4
    <3> HIDE DEF m
    <3>6. ~(Len(b) < 3) /\ ~(Len(b) < m + 8) BY <2>5, <3>3, <3>4, <3>5
    <3> QED BY <2>5, <3>1, <3>2, <3>6
  <2>16. [k \in 1 .. m |-> L(b, k)] = d.pids BY <2>4, <2>12
  <2>17. DecodeResvOK(b, v) =
            Command([MaxPlayers |-> d.f["MaxPlayers"], SenderAID |-> d.f["SenderAID"],
                     PublicIP |-> d.f["PublicIP"], PublicPort |-> d.f["PublicPort"],
                     GroupID |-> d.f["GroupID"], ClientCount |-> m, IsFriend |-> d.f["IsFriend"]],
                    d.pids, d.user)
    <3>1. DecodeResvOK(b, v) =
            Command([MaxPlayers |-> L(b, m + 1 + 5), SenderAID |-> L(b, m + 1 + 3),
                     PublicIP |-> B(b, m + 1), PublicPort |-> L(b, m + 1 + 1),
                     GroupID |-> L(b, m + 1 + 4), ClientCount |-> m,
                     IsFriend |-> L(b, m + 1 + 2)],
                    [k \in 1 .. m |-> L(b, k)], From(b, m + 1 + 6))
      <4> DEFINE c == L(b, 0)
      <4>1. v # 90 /\ v # 3 /\ v = 11 BY <1>5
      <4>2. /\ ~(Len(b) < 3) /\ ~(c > 24) /\ ~(Len(b) < c + 8) /\ ~(L(b, c + 1 + 1) > 65535)
            /\ ~(L(b, c + 1 + 2) > 1)
        BY <2>11, <2>14, <2>15
      <4>3. DecodeResvOK(b, v) =
              Command([MaxPlayers |-> L(b, c + 1 + 5), SenderAID |-> L(b, c + 1 + 3),
                     PublicIP |-> B(b, c + 1), PublicPort |-> L(b, c + 1 + 1),
                     GroupID |-> L(b, c + 1 + 4), ClientCount |-> c,
                     IsFriend |-> L(b, c + 1 + 2)],
                      [k \in 1 .. c |-> L(b, k)], From(b, c + 1 + 6))
        BY <4>1, <4>2 DEF DecodeResvOK
      <4> HIDE DEF c, m
      <4> QED BY <4>3, <2>11 DEF c
    <3> QED BY <2>10, <2>13, <2>14, <2>16, <3>1
  <2>18. d.f = [MaxPlayers |-> d.f["MaxPlayers"], SenderAID |-> d.f["SenderAID"],
                     PublicIP |-> d.f["PublicIP"], PublicPort |-> d.f["PublicPort"],
                     GroupID |-> d.f["GroupID"], ClientCount |-> m, IsFriend |-> d.f["IsFriend"]]
    BY <1>5 DEF Has, OKFields11, OKFields3
  <2>19. d = Command(d.f, d.pids, d.user) BY <1>5 DEF Has
  <2>20. DecodeResvOK(b, v) = d BY <2>17, <2>18, <2>19
  <2> QED BY <1>5, <2>10, <2>20 DEF b
<1> QED BY <1>3, <1>4, <1>5 DEF ResvOKFits

-----------------------------------------------------------------------------
(* The commands with few fields.                                            *)

\* d has the fields F and no profile IDs.
Simple(d, F) == Has(d, F) /\ d.pids = NoWords

\* A refusal: with user data the reason counts as specified; without, it is lost.
ResvDenyFits(d, n) ==
    /\ Simple(d, {"Reason", "ReasonSpecified"})
    /\ \/ d.f["ReasonSpecified"] = 1 /\ n = 1 + Len(d.user) /\ d.user # NoWords
       \/ d.f["ReasonSpecified"] = 0 /\ d.user = NoWords /\ n = 1
       \/ d.f["ReasonSpecified"] = 0 /\ d.user = NoWords /\ n = 0 /\ d.f["Reason"] = 0

\* A local address.
TellAddrFits(d, n) ==
    Simple(d, {"LocalIP", "LocalPort"}) /\ d.user = NoWords /\ n = 2

\* The profile IDs of the clients to close; the buffer is nothing else.
CloseFits(d, n) ==
    Has(d, {"none"}) /\ d.f = NoFields /\ d.user = NoWords /\ Len(d.pids) = n /\ n <= 32

\* A suspension, of two words or of four.
SuspendFits(d, n) ==
    /\ d.user = NoWords
    /\ \/ n = 2 /\ d.f["Short"] = 1 /\ Simple(d, {"HostProfileID", "IsHostFlag", "Short"})
       \/ /\ n = 4 /\ d.f["Short"] = 0
          /\ Simple(d, {"HostProfileID", "IsHostFlag", "Short", "SuspendValue", "ClientAIDValue"})

\* A command whose buffer is user data only.
OtherFits(c, d, n) ==
    /\ Simple(d, {"none"}) /\ d.f = NoFields /\ n = Len(d.user)
    /\ c \in {"RESV_WAIT", "RESV_CANCEL", "POLL_TIMEOUT"} => d.user = NoWords
    /\ c = "POLL_TO_ACK" => Len(d.user) = 1

\* Read, as one fact for all offsets.
LEMMA Reading ==
    ASSUME NEW b \in Seq(Words)
    PROVE  /\ Len(b) \in Nat
           /\ \A k \in 0 .. Len(b) - 1 : L(b, k) \in U32 /\ B(b, k) \in U32
           /\ \A k \in 0 .. Len(b) : From(b, k) \in Seq(Words) /\ Len(From(b, k)) = Len(b) - k
           /\ \A k \in U32 : k \in Nat
           /\ ~NotDecoded.ok
<1>1. Len(b) \in Nat OBVIOUS
<1>2. ~NotDecoded.ok BY DEF NotDecoded
<1>3. \A k \in 0 .. Len(b) - 1 : L(b, k) \in U32 /\ B(b, k) \in U32
  <2> SUFFICES ASSUME NEW k \in 0 .. Len(b) - 1 PROVE L(b, k) \in U32 /\ B(b, k) \in U32
    OBVIOUS
  <2>1. k \in 0 .. Len(b) /\ k < Len(b) BY <1>1
  <2> QED BY <2>1, Read
<1>4. \A k \in 0 .. Len(b) : From(b, k) \in Seq(Words) /\ Len(From(b, k)) = Len(b) - k BY Read
<1>5. \A k \in U32 : k \in Nat BY DEF U32
<1> QED BY <1>1, <1>2, <1>3, <1>4, <1>5

\* PutWord, LERound and BERound, as one fact for all numbers.
LEMMA Writing ==
    /\ \A k \in U32 : LE(PutLE(k)) = k /\ BE(PutBE(k)) = k
    /\ \A k \in U32 : PutLE(k) \in Words /\ PutBE(k) \in Words
    /\ \A k \in U32 : k \in Nat
BY PutWord, LERound, BERound DEF U32

\* What a refusal decodes to.
LEMMA ResvDenyDecoded ==
    ASSUME NEW b \in Seq(Words)
    PROVE  ResvDenyFits(DecodeResvDeny(b), Len(b))
<1> DEFINE d == DecodeResvDeny(b)
<1>1. Len(b) \in Nat /\ 0 \in U32 /\ 1 \in U32 BY DEF U32
<1>2. CASE Len(b) = 0
  <2>1. d = Command([Reason |-> 0, ReasonSpecified |-> 0], NoWords, b) /\ b = NoWords
    BY <1>2 DEF DecodeResvDeny, NoWords
  <2> HIDE DEF d
  <2>2. Simple(d, {"Reason", "ReasonSpecified"})
    BY <1>1, <2>1 DEF Simple, Has, Command, NoWords
  <2>3. d.f["ReasonSpecified"] = 0 /\ d.f["Reason"] = 0 /\ d.user = NoWords BY <2>1 DEF Command
  <2> QED BY <1>2, <2>2, <2>3 DEF ResvDenyFits, d
<1>3. CASE Len(b) >= 1
  <2>1. L(b, 0) \in U32 /\ From(b, 1) \in Seq(Words) /\ Len(From(b, 1)) = Len(b) - 1
    <3>1. 0 \in 0 .. Len(b) - 1 /\ 1 \in 0 .. Len(b) BY <1>1, <1>3
    <3> QED BY <3>1, Reading
  <2>2. d = Command([Reason |-> L(b, 0), ReasonSpecified |-> IF Len(b) > 1 THEN 1 ELSE 0],
                    NoWords, From(b, 1))
    BY <1>3 DEF DecodeResvDeny
  <2> HIDE DEF d
  <2>3. Simple(d, {"Reason", "ReasonSpecified"})
    BY <1>1, <2>1, <2>2 DEF Simple, Has, Command, NoWords
  <2>4. CASE Len(b) > 1
    <3>1. d.f["ReasonSpecified"] = 1 /\ d.user = From(b, 1) BY <2>2, <2>4 DEF Command
    <3>2. Len(b) = 1 + Len(d.user) /\ d.user # NoWords BY <1>1, <2>1, <2>4, <3>1 DEF NoWords
    <3> QED BY <2>3, <3>1, <3>2 DEF ResvDenyFits, d
  <2>5. CASE ~(Len(b) > 1)
    <3>1. d.f["ReasonSpecified"] = 0 /\ d.user = From(b, 1) BY <2>2, <2>5 DEF Command
    <3>2. Len(b) = 1 /\ d.user = NoWords BY <1>1, <1>3, <2>1, <2>5, <3>1 DEF NoWords
    <3> QED BY <2>3, <3>1, <3>2 DEF ResvDenyFits, d
  <2> QED BY <2>4, <2>5
<1> QED BY <1>1, <1>2, <1>3

\* A refusal is encoded to what decodes to it, or to nothing.
LEMMA ResvDenyRound ==
    ASSUME NEW d, NEW v, NEW n, ResvDenyFits(d, n)
    PROVE  LET b == EncodeMatchCommand("RESV_DENY", d, v)
           IN  (DecodeResvDeny(b) = d /\ Len(b) = n) \/ (n = 1 /\ b = NoWords)
<1> DEFINE b == EncodeMatchCommand("RESV_DENY", d, v)
<1>1. b = (IF d.f.ReasonSpecified = 0 THEN NoWords ELSE <<PutLE(d.f.Reason)>>) \o d.user
  BY DEF EncodeMatchCommand
<1>2. /\ d = Command(d.f, NoWords, d.user) /\ d.user \in Seq(Words) /\ d.f["Reason"] \in U32
      /\ d.f = [Reason |-> d.f["Reason"], ReasonSpecified |-> d.f["ReasonSpecified"]]
  BY DEF ResvDenyFits, Simple, Has
<1> HIDE DEF b
<1>3. CASE d.f["ReasonSpecified"] = 1
  <2> DEFINE t == <<PutLE(d.f["Reason"])>>
  <2>1. t \in Seq(Words) /\ Len(t) = 1 /\ t[1] = PutLE(d.f["Reason"]) BY <1>2, Writing
  <2>2. n = 1 + Len(d.user) /\ d.user # NoWords BY <1>3 DEF ResvDenyFits
  <2>3. b = t \o d.user
    <3>1. d.f.ReasonSpecified # 0 BY <1>3
    <3> QED BY <1>1, <3>1
  <2> HIDE DEF t
  <2>4. /\ Len(t \o d.user) = Len(t) + Len(d.user) /\ From(t \o d.user, Len(t)) = d.user
        /\ \A k \in 0 .. Len(t) - 1 : Word(t \o d.user, k) = t[k + 1]
    <3>1. t \in Seq(Words) /\ d.user \in Seq(Words) BY <1>2, <2>1
    <3> QED BY <3>1, Glue
  <2>5. Len(b) = n /\ From(b, 1) = d.user /\ Word(b, 0) = PutLE(d.f["Reason"])
    BY <2>1, <2>2, <2>3, <2>4
  <2>6. L(b, 0) = d.f["Reason"] BY <1>2, <2>5, Writing DEF L
  <2>7. Len(b) >= 1 /\ Len(b) > 1 BY <1>2, <2>2, <2>5 DEF NoWords
  <2>8. DecodeResvDeny(b) = Command([Reason |-> d.f["Reason"], ReasonSpecified |-> 1], NoWords, d.user)
    BY <2>5, <2>6, <2>7 DEF DecodeResvDeny
  <2>9. DecodeResvDeny(b) = d BY <1>2, <1>3, <2>8
  <2> QED BY <2>5, <2>9 DEF b
<1>4. CASE d.f["ReasonSpecified"] = 0 /\ d.user = NoWords
  <2>1. b = NoWords /\ Len(b) = 0 BY <1>1, <1>4 DEF NoWords
  <2>2. CASE n = 1 BY <2>1, <2>2 DEF b
  <2>3. CASE n = 0 /\ d.f["Reason"] = 0
    <3>1. DecodeResvDeny(b) = Command([Reason |-> 0, ReasonSpecified |-> 0], NoWords, b)
      BY <2>1 DEF DecodeResvDeny
    <3>2. DecodeResvDeny(b) = d BY <1>2, <1>4, <2>1, <2>3, <3>1
    <3> QED BY <2>1, <2>3, <3>2 DEF b
  <2> QED BY <1>4, <2>2, <2>3 DEF ResvDenyFits
<1> QED BY <1>3, <1>4 DEF ResvDenyFits

\* What a local address decodes to.
LEMMA TellAddrDecoded ==
    ASSUME NEW b \in Seq(Words), DecodeTellAddr(b).ok
    PROVE  TellAddrFits(DecodeTellAddr(b), Len(b))
<1> DEFINE d == DecodeTellAddr(b)
<1>1. Len(b) = 2 /\ ~(L(b, 1) > 65535) BY Reading DEF DecodeTellAddr
<1>2. L(b, 1) \in U32 /\ B(b, 0) \in U32
  <2>1. 0 \in 0 .. Len(b) - 1 /\ 1 \in 0 .. Len(b) - 1 BY <1>1
  <2> QED BY <2>1, Reading
<1>3. L(b, 1) <= 65535
  <2>1. L(b, 1) \in Nat BY <1>2, Reading
  <2> QED BY <1>1, <2>1
<1>4. d = Command([LocalIP |-> B(b, 0), LocalPort |-> L(b, 1)], NoWords, NoWords)
  BY <1>1 DEF DecodeTellAddr
<1> HIDE DEF d
<1>5. Simple(d, {"LocalIP", "LocalPort"})
  BY <1>2, <1>3, <1>4 DEF Simple, Has, Command, NoWords
<1>6. d.user = NoWords BY <1>4 DEF Command
<1> QED BY <1>1, <1>5, <1>6 DEF TellAddrFits, d

\* A local address is encoded to what decodes to it.
LEMMA TellAddrRound ==
    ASSUME NEW d, NEW v, NEW n, TellAddrFits(d, n)
    PROVE  LET b == EncodeMatchCommand("TELL_ADDR", d, v)
           IN  DecodeTellAddr(b) = d /\ Len(b) = n
<1> DEFINE b == EncodeMatchCommand("TELL_ADDR", d, v)
<1>1. b = <<PutBE(d.f["LocalIP"]), PutLE(d.f["LocalPort"])>> BY DEF EncodeMatchCommand
<1>2. /\ d = Command(d.f, NoWords, NoWords) /\ d.f["LocalIP"] \in U32 /\ d.f["LocalPort"] \in U32
      /\ d.f = [LocalIP |-> d.f["LocalIP"], LocalPort |-> d.f["LocalPort"]]
      /\ d.f["LocalPort"] <= 65535 /\ n = 2
  <2>1. n = 2 /\ d.pids = NoWords /\ d.user = NoWords BY DEF TellAddrFits, Simple
  <2>2. Has(d, {"LocalIP", "LocalPort"}) BY DEF TellAddrFits, Simple
  <2>3. d = Command(d.f, d.pids, d.user) BY <2>2 DEF Has
  <2>4. d = Command(d.f, NoWords, NoWords) BY <2>1, <2>3
  <2>5. d.f["LocalPort"] <= 65535 /\ d.f["LocalIP"] \in U32 /\ d.f["LocalPort"] \in U32
    BY <2>2 DEF Has
  <2>6. d.f = [LocalIP |-> d.f["LocalIP"], LocalPort |-> d.f["LocalPort"]] BY <2>2 DEF Has
  <2> QED BY <2>1, <2>4, <2>5, <2>6
<1> HIDE DEF b
<1>3. Len(b) = 2 /\ Word(b, 0) = PutBE(d.f["LocalIP"]) /\ Word(b, 1) = PutLE(d.f["LocalPort"])
  BY <1>1 DEF Word
<1>4. B(b, 0) = d.f["LocalIP"] /\ L(b, 1) = d.f["LocalPort"] BY <1>2, <1>3, Writing DEF L, B
<1>5. ~(L(b, 1) > 65535)
  <2>1. d.f["LocalPort"] \in Nat BY <1>2, Writing
  <2> QED BY <1>2, <1>4, <2>1
<1>6. DecodeTellAddr(b) = Command([LocalIP |-> d.f["LocalIP"], LocalPort |-> d.f["LocalPort"]],
                                  NoWords, NoWords)
  BY <1>3, <1>4, <1>5 DEF DecodeTellAddr
<1>7. DecodeTellAddr(b) = d BY <1>2, <1>6
<1> QED BY <1>2, <1>3, <1>7 DEF b

\* What the list of clients to close decodes to.
LEMMA CloseDecoded ==
    ASSUME NEW b \in Seq(Words), DecodeServerCloseClient(b).ok
    PROVE  CloseFits(DecodeServerCloseClient(b), Len(b))
<1> DEFINE d == DecodeServerCloseClient(b)
           p == [k \in DOMAIN b |-> LE(b[k])]
<1>1. Len(b) \in Nat /\ ~(Len(b) > 32) BY Reading DEF DecodeServerCloseClient
<1>2. d = Command(NoFields, p, NoWords) BY <1>1 DEF DecodeServerCloseClient
<1>3. \A k \in DOMAIN b : LE(b[k]) \in U32
  <2>1. \A k \in DOMAIN b : b[k] \in Words OBVIOUS
  <2> QED BY <2>1, ReverseWord
<1>4. p \in Seq(U32) /\ Len(p) = Len(b) BY <1>3
<1>5. 0 \in U32 BY DEF U32
<1> HIDE DEF d, p
<1>6. Has(d, {"none"}) BY <1>2, <1>4, <1>5 DEF Has, Command, NoFields, NoWords
<1>7. d.f = NoFields /\ d.user = NoWords /\ d.pids = p BY <1>2 DEF Command
<1> QED BY <1>1, <1>4, <1>6, <1>7 DEF CloseFits, d

\* The list of clients to close is encoded to what decodes to it.
LEMMA CloseRound ==
    ASSUME NEW d, NEW v, NEW n \in Nat, CloseFits(d, n)
    PROVE  LET b == EncodeMatchCommand("SC_CLOSE_CL", d, v)
           IN  DecodeServerCloseClient(b) = d /\ Len(b) = n
<1> DEFINE b == EncodeMatchCommand("SC_CLOSE_CL", d, v)
<1>1. b = [k \in DOMAIN d.pids |-> PutLE(d.pids[k])] BY DEF EncodeMatchCommand
<1>2. d = Command(NoFields, d.pids, NoWords) /\ d.pids \in Seq(U32) /\ Len(d.pids) = n /\ n <= 32
  BY DEF CloseFits, Has
<1>3. \A k \in DOMAIN d.pids : d.pids[k] \in U32 BY <1>2
<1> HIDE DEF b
<1>4. DOMAIN b = DOMAIN d.pids /\ Len(b) = n BY <1>1, <1>2
<1>5. \A k \in DOMAIN b : LE(b[k]) = d.pids[k] BY <1>1, <1>3, <1>4, Writing
<1>6. [k \in DOMAIN b |-> LE(b[k])] = d.pids BY <1>2, <1>4, <1>5
<1>7. DecodeServerCloseClient(b) = d BY <1>2, <1>4, <1>6 DEF DecodeServerCloseClient
<1> QED BY <1>4, <1>7 DEF b

\* What a suspension decodes to.
LEMMA SuspendDecoded ==
    ASSUME NEW b \in Seq(Words), DecodeSuspendMatch(b).ok
    PROVE  SuspendFits(DecodeSuspendMatch(b), Len(b))
<1> DEFINE d == DecodeSuspendMatch(b)
<1>1. Len(b) = 2 \/ Len(b) = 4 BY Reading DEF DecodeSuspendMatch
<1>2. 0 \in U32 /\ 1 \in U32 BY DEF U32
<1>3. CASE Len(b) = 2
  <2>1. L(b, 0) \in U32 /\ L(b, 1) \in U32
    <3>1. 0 \in 0 .. Len(b) - 1 /\ 1 \in 0 .. Len(b) - 1 BY <1>3
    <3> QED BY <3>1, Reading
  <2>2. d = Command([HostProfileID |-> L(b, 0), IsHostFlag |-> L(b, 1), Short |-> 1], NoWords, NoWords)
    BY <1>3 DEF DecodeSuspendMatch
  <2> HIDE DEF d
  <2>3. Simple(d, {"HostProfileID", "IsHostFlag", "Short"})
    BY <1>2, <2>1, <2>2 DEF Simple, Has, Command, NoWords
  <2>4. d.user = NoWords /\ d.f["Short"] = 1 BY <2>2 DEF Command
  <2> QED BY <1>3, <2>3, <2>4 DEF SuspendFits, d
<1>4. CASE Len(b) = 4
  <2>1. L(b, 0) \in U32 /\ L(b, 1) \in U32 /\ L(b, 2) \in U32 /\ L(b, 3) \in U32
    <3>1. /\ 0 \in 0 .. Len(b) - 1 /\ 1 \in 0 .. Len(b) - 1
          /\ 2 \in 0 .. Len(b) - 1 /\ 3 \in 0 .. Len(b) - 1
      BY <1>4
    <3> QED BY <3>1, Reading
  <2>2. d = Command([HostProfileID |-> L(b, 0), IsHostFlag |-> L(b, 1), Short |-> 0,
                     SuspendValue |-> L(b, 2), ClientAIDValue |-> L(b, 3)], NoWords, NoWords)
    <3>1. Len(b) # 2 BY <1>4
    <3> QED BY <1>4, <3>1 DEF DecodeSuspendMatch
  <2> HIDE DEF d
  <2>3. Simple(d, {"HostProfileID", "IsHostFlag", "Short", "SuspendValue", "ClientAIDValue"})
    BY <1>2, <2>1, <2>2 DEF Simple, Has, Command, NoWords
  <2>4. d.user = NoWords /\ d.f["Short"] = 0 BY <2>2 DEF Command
  <2> QED BY <1>4, <2>3, <2>4 DEF SuspendFits, d
<1> QED BY <1>1, <1>3, <1>4

\* A suspension is encoded, short or long, to what decodes to it.
LEMMA SuspendRound ==
    ASSUME NEW d, NEW v, NEW n, SuspendFits(d, n)
    PROVE  LET b == EncodeMatchCommand("SUSPEND_MATCH", d, v)
           IN  DecodeSuspendMatch(b) = d /\ Len(b) = n
<1> DEFINE b == EncodeMatchCommand("SUSPEND_MATCH", d, v)
           t == <<PutLE(d.f.HostProfileID), PutLE(d.f.IsHostFlag)>>
           u == <<PutLE(d.f.SuspendValue), PutLE(d.f.ClientAIDValue)>>
<1>1. b = t \o (IF d.f.Short = 1 THEN NoWords ELSE u) BY DEF EncodeMatchCommand
<1> HIDE DEF b
<1>2. CASE n = 2 /\ d.f["Short"] = 1 /\ Simple(d, {"HostProfileID", "IsHostFlag", "Short"})
  <2>1. /\ d = Command(d.f, NoWords, NoWords)
        /\ d.f["HostProfileID"] \in U32 /\ d.f["IsHostFlag"] \in U32
    <3>1. d.pids = NoWords /\ d.user = NoWords BY <1>2 DEF SuspendFits, Simple
    <3>2. d = Command(d.f, d.pids, d.user) BY <1>2 DEF Simple, Has
    <3>3. d = Command(d.f, NoWords, NoWords) BY <3>1, <3>2
    <3>4. d.f["HostProfileID"] \in U32 /\ d.f["IsHostFlag"] \in U32 BY <1>2 DEF Simple, Has
    <3> QED BY <3>3, <3>4
  <2>2. d.f = [HostProfileID |-> d.f["HostProfileID"], IsHostFlag |-> d.f["IsHostFlag"], Short |-> 1]
    BY <1>2 DEF Simple, Has
  <2>3. b = t
    <3>1. PutLE(d.f.HostProfileID) \in Words /\ PutLE(d.f.IsHostFlag) \in Words BY <2>1, Writing
    <3>2. t \in Seq(Words) BY <3>1
    <3>3. b = t \o NoWords BY <1>1, <1>2
    <3> QED BY <3>2, <3>3 DEF NoWords
  <2>4. Len(b) = 2 /\ Word(b, 0) = PutLE(d.f["HostProfileID"]) /\ Word(b, 1) = PutLE(d.f["IsHostFlag"])
    BY <2>3 DEF Word
  <2>5. L(b, 0) = d.f["HostProfileID"] /\ L(b, 1) = d.f["IsHostFlag"] BY <2>1, <2>4, Writing DEF L
  <2>6. DecodeSuspendMatch(b) = Command([HostProfileID |-> d.f["HostProfileID"],
                                  IsHostFlag |-> d.f["IsHostFlag"], Short |-> 1], NoWords, NoWords)
    BY <2>4, <2>5 DEF DecodeSuspendMatch
  <2>7. DecodeSuspendMatch(b) = d BY <2>1, <2>2, <2>6
  <2> QED BY <1>2, <2>4, <2>7 DEF b
<1>3. CASE /\ n = 4 /\ d.f["Short"] = 0
           /\ Simple(d, {"HostProfileID", "IsHostFlag", "Short", "SuspendValue", "ClientAIDValue"})
  <2>1. /\ d = Command(d.f, NoWords, NoWords)
        /\ d.f["HostProfileID"] \in U32 /\ d.f["IsHostFlag"] \in U32
        /\ d.f["SuspendValue"] \in U32 /\ d.f["ClientAIDValue"] \in U32
    <3>1. d.pids = NoWords /\ d.user = NoWords BY <1>3 DEF SuspendFits, Simple
    <3>2. d = Command(d.f, d.pids, d.user) BY <1>3 DEF Simple, Has
    <3>3. d = Command(d.f, NoWords, NoWords) BY <3>1, <3>2
    <3>4. /\ d.f["HostProfileID"] \in U32 /\ d.f["IsHostFlag"] \in U32
          /\ d.f["SuspendValue"] \in U32 /\ d.f["ClientAIDValue"] \in U32
      BY <1>3 DEF Simple, Has
    <3> QED BY <3>3, <3>4
  <2>2. d.f = [HostProfileID |-> d.f["HostProfileID"], IsHostFlag |-> d.f["IsHostFlag"], Short |-> 0,
               SuspendValue |-> d.f["SuspendValue"], ClientAIDValue |-> d.f["ClientAIDValue"]]
    BY <1>3 DEF Simple, Has
  <2>3. b = <<PutLE(d.f.HostProfileID), PutLE(d.f.IsHostFlag),
              PutLE(d.f.SuspendValue), PutLE(d.f.ClientAIDValue)>>
    <3>1. d.f.Short # 1 BY <1>3
    <3>2. b = t \o u BY <1>1, <3>1
    <3>3. /\ PutLE(d.f.HostProfileID) \in Words /\ PutLE(d.f.IsHostFlag) \in Words
          /\ PutLE(d.f.SuspendValue) \in Words /\ PutLE(d.f.ClientAIDValue) \in Words
      BY <2>1, Writing
    <3>4. <<PutLE(d.f.HostProfileID), PutLE(d.f.IsHostFlag), PutLE(d.f.SuspendValue),
            PutLE(d.f.ClientAIDValue)>> = t \o u
      BY <3>3
    <3> QED BY <3>2, <3>4
  <2>4. /\ Len(b) = 4 /\ Word(b, 0) = PutLE(d.f["HostProfileID"]) /\ Word(b, 1) = PutLE(d.f["IsHostFlag"])
        /\ Word(b, 2) = PutLE(d.f["SuspendValue"]) /\ Word(b, 3) = PutLE(d.f["ClientAIDValue"])
    BY <2>3 DEF Word
  <2>5. /\ L(b, 0) = d.f["HostProfileID"] /\ L(b, 1) = d.f["IsHostFlag"]
        /\ L(b, 2) = d.f["SuspendValue"] /\ L(b, 3) = d.f["ClientAIDValue"]
    BY <2>1, <2>4, Writing DEF L
  <2>6. DecodeSuspendMatch(b) = Command([HostProfileID |-> d.f["HostProfileID"],
            IsHostFlag |-> d.f["IsHostFlag"], Short |-> 0, SuspendValue |-> d.f["SuspendValue"],
            ClientAIDValue |-> d.f["ClientAIDValue"]], NoWords, NoWords)
    <3>1. Len(b) # 2 BY <2>4
    <3> QED BY <2>4, <2>5, <3>1 DEF DecodeSuspendMatch
  <2>7. DecodeSuspendMatch(b) = d BY <2>1, <2>2, <2>6
  <2> QED BY <1>3, <2>4, <2>7 DEF b
<1> QED BY <1>2, <1>3 DEF SuspendFits

\* What a command without fields decodes to.
LEMMA OtherDecoded ==
    ASSUME NEW c, NEW b \in Seq(Words), DecodeOther(c, b).ok
    PROVE  OtherFits(c, DecodeOther(c, b), Len(b))
<1> DEFINE d == DecodeOther(c, b)
<1>1. /\ d = Command(NoFields, NoWords, b)
      /\ c \in {"RESV_WAIT", "RESV_CANCEL", "POLL_TIMEOUT"} => Len(b) = 0
      /\ c = "POLL_TO_ACK" => Len(b) = 1
  <2>1. ~NotDecoded.ok BY Reading
  <2> QED BY <2>1 DEF DecodeOther
<1> HIDE DEF d
<1>2. d.f = NoFields /\ d.user = b /\ d.pids = NoWords BY <1>1 DEF Command
<1>3. 0 \in U32 BY DEF U32
<1>4. Simple(d, {"none"}) BY <1>1, <1>3 DEF Simple, Has, Command, NoFields, NoWords
<1>5. Len(b) = 0 => b = NoWords BY DEF NoWords
<1> QED BY <1>1, <1>2, <1>4, <1>5 DEF OtherFits, d

\* The commands that have fields.
Named == {"RESERVATION", "RESV_OK", "RESV_DENY", "TELL_ADDR", "SC_CLOSE_CL", "SUSPEND_MATCH"}

\* A command without fields is encoded to what decodes to it.
LEMMA OtherRound ==
    ASSUME NEW c, c \notin Named, NEW d, NEW v, NEW n, OtherFits(c, d, n)
    PROVE  LET b == EncodeMatchCommand(c, d, v)
           IN  DecodeOther(c, b) = d /\ Len(b) = n
<1> DEFINE b == EncodeMatchCommand(c, d, v)
<1>1. b = d.user
  <2>1. b = IF c \in {"RESV_WAIT", "RESV_CANCEL", "POLL_TIMEOUT"} THEN NoWords ELSE d.user
    BY DEF EncodeMatchCommand, Named
  <2> QED BY <2>1 DEF OtherFits
<1> HIDE DEF b
<1>2. d = Command(NoFields, NoWords, d.user) BY DEF OtherFits, Simple, Has
<1>3. /\ c \in {"RESV_WAIT", "RESV_CANCEL", "POLL_TIMEOUT"} => Len(b) = 0
      /\ c = "POLL_TO_ACK" => Len(b) = 1
      /\ Len(b) = n
  BY <1>1 DEF OtherFits, NoWords
<1>4. DecodeOther(c, b) = d BY <1>1, <1>2, <1>3 DEF DecodeOther
<1> QED BY <1>3, <1>4 DEF b

-----------------------------------------------------------------------------
(* Every command.                                                           *)

\* d is what the command c of n words decodes to in version v.
Fits(c, d, v, n) ==
    /\ v \in {3, 11, 90} /\ n \in Nat
    /\ c = "RESERVATION" => ReservationFits(d, v, n)
    /\ c = "RESV_OK" => ResvOKFits(d, v, n)
    /\ c = "RESV_DENY" => ResvDenyFits(d, n)
    /\ c = "TELL_ADDR" => TellAddrFits(d, n)
    /\ c = "SC_CLOSE_CL" => CloseFits(d, n)
    /\ c = "SUSPEND_MATCH" => SuspendFits(d, n)
    /\ c \notin Named => OtherFits(c, d, n)

\* What DecodeMatchCommand accepts fits.
LEMMA Decoded ==
    ASSUME NEW c, NEW b \in Seq(Words), NEW v \in {3, 11, 90}, DecodeMatchCommand(c, b, v).ok
    PROVE  Fits(c, DecodeMatchCommand(c, b, v), v, Len(b))
<1> DEFINE d == DecodeMatchCommand(c, b, v)
<1>1. Len(b) \in Nat OBVIOUS
<1>2. CASE c = "RESERVATION"
  <2>1. d = DecodeReservation(b, v) BY <1>2 DEF DecodeMatchCommand
  <2>2. ReservationFits(d, v, Len(b)) BY <2>1, ReservationDecoded
  <2> QED BY <1>1, <1>2, <2>2 DEF Fits, Named
<1>3. CASE c = "RESV_OK"
  <2>1. d = DecodeResvOK(b, v) BY <1>3 DEF DecodeMatchCommand
  <2>2. ResvOKFits(d, v, Len(b)) BY <2>1, ResvOKDecoded
  <2> QED BY <1>1, <1>3, <2>2 DEF Fits, Named
<1>4. CASE c = "RESV_DENY"
  <2>1. d = DecodeResvDeny(b) BY <1>4 DEF DecodeMatchCommand
  <2>2. ResvDenyFits(d, Len(b)) BY <2>1, ResvDenyDecoded
  <2> QED BY <1>1, <1>4, <2>2 DEF Fits, Named
<1>5. CASE c = "TELL_ADDR"
  <2>1. d = DecodeTellAddr(b) BY <1>5 DEF DecodeMatchCommand
  <2>2. TellAddrFits(d, Len(b)) BY <2>1, TellAddrDecoded
  <2> QED BY <1>1, <1>5, <2>2 DEF Fits, Named
<1>6. CASE c = "SC_CLOSE_CL"
  <2>1. d = DecodeServerCloseClient(b) BY <1>6 DEF DecodeMatchCommand
  <2>2. CloseFits(d, Len(b)) BY <2>1, CloseDecoded
  <2> QED BY <1>1, <1>6, <2>2 DEF Fits, Named
<1>7. CASE c = "SUSPEND_MATCH"
  <2>1. d = DecodeSuspendMatch(b) BY <1>7 DEF DecodeMatchCommand
  <2>2. SuspendFits(d, Len(b)) BY <2>1, SuspendDecoded
  <2> QED BY <1>1, <1>7, <2>2 DEF Fits, Named
<1>8. CASE c \notin Named
  <2>1. d = DecodeOther(c, b) BY <1>8 DEF DecodeMatchCommand, Named
  <2>2. OtherFits(c, d, Len(b)) BY <2>1, OtherDecoded
  <2> QED BY <1>1, <1>8, <2>2 DEF Fits, Named
<1> QED BY <1>2, <1>3, <1>4, <1>5, <1>6, <1>7, <1>8 DEF Named

\* The buffer b decodes to d and has the n words of the header, or is one of the two
\* exceptions.
Relayed(c, d, v, n, b) ==
    \/ DecodeMatchCommand(c, b, v) = d /\ Len(b) = n
    \/ c = "RESV_DENY" /\ n = 1 /\ b = NoWords
    \/ c = "RESERVATION" /\ v = 3 /\ n = 2 /\ Len(b) = 1 /\ DecodeMatchCommand(c, b, v) = d

\* What fits is encoded to a buffer that decodes to it.
LEMMA Round ==
    ASSUME NEW c, NEW d, NEW v, NEW n, Fits(c, d, v, n)
    PROVE  Relayed(c, d, v, n, EncodeMatchCommand(c, d, v))
<1> DEFINE b == EncodeMatchCommand(c, d, v)
<1>1. v \in {3, 11, 90} /\ n \in Nat BY DEF Fits
<1>2. CASE c = "RESERVATION"
  <2>1. b = EncodeReservation(d, v) BY <1>2 DEF EncodeMatchCommand
  <2>2. ReservationFits(d, v, n) BY <1>2 DEF Fits
  <2>3. DecodeReservation(b, v) = d /\ (Len(b) = n \/ (v = 3 /\ n = 2 /\ Len(b) = 1))
    BY <2>1, <2>2, ReservationRound
  <2> HIDE DEF b
  <2>4. DecodeMatchCommand(c, b, v) = d BY <1>1, <1>2, <2>3 DEF DecodeMatchCommand
  <2> QED BY <1>2, <2>3, <2>4 DEF Relayed, b
<1>3. CASE c = "RESV_OK"
  <2>1. b = EncodeResvOK(d, v) BY <1>3 DEF EncodeMatchCommand
  <2>2. ResvOKFits(d, v, n) BY <1>3 DEF Fits
  <2>3. DecodeResvOK(b, v) = d /\ Len(b) = n BY <2>1, <2>2, ResvOKRound
  <2> HIDE DEF b
  <2>4. DecodeMatchCommand(c, b, v) = d BY <1>1, <1>3, <2>3 DEF DecodeMatchCommand
  <2> QED BY <2>3, <2>4 DEF Relayed, b
<1>4. CASE c = "RESV_DENY"
  <2>1. ResvDenyFits(d, n) BY <1>4 DEF Fits
  <2>2. (DecodeResvDeny(b) = d /\ Len(b) = n) \/ (n = 1 /\ b = NoWords)
    BY <1>4, <2>1, ResvDenyRound
  <2> HIDE DEF b
  <2>3. DecodeMatchCommand(c, b, v) = DecodeResvDeny(b) BY <1>1, <1>4 DEF DecodeMatchCommand
  <2> QED BY <1>4, <2>2, <2>3 DEF Relayed, b
<1>5. CASE c = "TELL_ADDR"
  <2>1. TellAddrFits(d, n) BY <1>5 DEF Fits
  <2>2. DecodeTellAddr(b) = d /\ Len(b) = n BY <1>5, <2>1, TellAddrRound
  <2> HIDE DEF b
  <2>3. DecodeMatchCommand(c, b, v) = d BY <1>1, <1>5, <2>2 DEF DecodeMatchCommand
  <2> QED BY <2>2, <2>3 DEF Relayed, b
<1>6. CASE c = "SC_CLOSE_CL"
  <2>1. CloseFits(d, n) BY <1>6 DEF Fits
  <2>2. DecodeServerCloseClient(b) = d /\ Len(b) = n BY <1>1, <1>6, <2>1, CloseRound
  <2> HIDE DEF b
  <2>3. DecodeMatchCommand(c, b, v) = d BY <1>1, <1>6, <2>2 DEF DecodeMatchCommand
  <2> QED BY <2>2, <2>3 DEF Relayed, b
<1>7. CASE c = "SUSPEND_MATCH"
  <2>1. SuspendFits(d, n) BY <1>7 DEF Fits
  <2>2. DecodeSuspendMatch(b) = d /\ Len(b) = n BY <1>7, <2>1, SuspendRound
  <2> HIDE DEF b
  <2>3. DecodeMatchCommand(c, b, v) = d BY <1>1, <1>7, <2>2 DEF DecodeMatchCommand
  <2> QED BY <2>2, <2>3 DEF Relayed, b
<1>8. CASE c \notin Named
  <2>1. OtherFits(c, d, n) BY <1>8 DEF Fits
  <2>2. DecodeOther(c, b) = d /\ Len(b) = n BY <1>8, <2>1, OtherRound
  <2> HIDE DEF b
  <2>3. DecodeMatchCommand(c, b, v) = d BY <1>1, <1>8, <2>2 DEF DecodeMatchCommand, Named
  <2> QED BY <2>2, <2>3 DEF Relayed, b
<1> QED BY <1>2, <1>3, <1>4, <1>5, <1>6, <1>7, <1>8 DEF Named

\* No part of d was read beyond the buffer.
InBounds(d) ==
    /\ \A k \in DOMAIN d.f : d.f[k] >= 0
    /\ \A i \in DOMAIN d.pids : d.pids[i] >= 0
    /\ \A i \in DOMAIN d.user : d.user[i] # Beyond

\* 32-bit numbers and words are none of what a read beyond the buffer gives.
LEMMA HasInBounds ==
    ASSUME NEW d, NEW F, Has(d, F)
    PROVE  InBounds(d) /\ d.ok
<1>1. d.ok
  <2>1. d = Command(d.f, d.pids, d.user) BY DEF Has
  <2>2. Command(d.f, d.pids, d.user).ok BY DEF Command
  <2> QED BY <2>1, <2>2
<1>2. \A k \in U32 : k >= 0 BY DEF U32
<1>3. \A k \in DOMAIN d.f : d.f[k] >= 0
  <2>1. d.f = [k \in F |-> d.f[k]] /\ \A k \in F : d.f[k] \in U32 BY DEF Has
  <2>2. DOMAIN d.f = F BY <2>1
  <2> QED BY <1>2, <2>1, <2>2
<1>4. \A i \in DOMAIN d.pids : d.pids[i] >= 0
  <2>1. d.pids \in Seq(U32) BY DEF Has
  <2>2. \A i \in DOMAIN d.pids : d.pids[i] \in U32 BY <2>1
  <2> QED BY <1>2, <2>2
<1>5. \A i \in DOMAIN d.user : d.user[i] # Beyond
  <2>1. d.user \in Seq(Words) BY DEF Has
  <2>2. \A i \in DOMAIN d.user : d.user[i] \in Words BY <2>1
  <2>3. \A w \in Words : w[1] # -1 BY DEF Words
  <2>4. Beyond[1] = -1 BY DEF Beyond
  <2> QED BY <2>2, <2>3, <2>4
<1> QED BY <1>1, <1>3, <1>4, <1>5 DEF InBounds

\* What fits was read within the buffer.
LEMMA FitsInBounds ==
    ASSUME NEW c, NEW d, NEW v, NEW n, Fits(c, d, v, n)
    PROVE  InBounds(d) /\ d.ok
<1>1. \E F : Has(d, F)
  BY DEF Fits, ReservationFits, ResvOKFits, ResvDenyFits, TellAddrFits, CloseFits, SuspendFits,
         OtherFits, Simple, Named
<1> QED BY <1>1, HasInBounds

-----------------------------------------------------------------------------
(* Hiding addresses.                                                        *)

\* What Rewrite makes of the value n of the field k.
Hidden(k, n) == CASE k = "PublicIP" -> SearchIP
                  [] k = "PublicPort" -> SearchPort
                  [] k \in {"LocalIP", "LocalPort"} -> 0
                  [] OTHER -> n

\* What Rewrite makes of d.
Hide(d) == Command([k \in DOMAIN d.f |-> Hidden(k, d.f[k])], d.pids, d.user)

\* The fields f show no address.
Hides(f) ==
    \A k \in DOMAIN f :
        /\ k = "PublicIP" => f[k] = SearchIP
        /\ k = "PublicPort" => f[k] = SearchPort
        /\ k \in {"LocalIP", "LocalPort"} => f[k] = 0

\* The fields that Rewrite changes.
Addresses == {"PublicIP", "PublicPort", "LocalIP", "LocalPort"}

\* The parts of a search ID fit the fields that they replace.
LEMMA SearchID ==
    SearchIP \in U32 /\ SearchPort \in U32 /\ 0 \in U32 /\ SearchPort <= 65535 /\ 0 <= 65535
<1>1. SearchIP \in U32 /\ SearchPort \in Nat /\ SearchPort <= 65535 BY SearchAssumption
<1>2. SearchPort \div 16777216 < 256 /\ 0 \div 16777216 < 256 BY <1>1
<1>3. SearchPort \in U32 /\ 0 \in U32 BY <1>1, <1>2 DEF U32
<1> QED BY <1>1, <1>3

\* Hiding keeps the fields, their bounds, and everything but the addresses.
LEMMA HideFields ==
    ASSUME NEW d, NEW F, Has(d, F)
    PROVE  /\ Has(Hide(d), F) /\ Hides(Hide(d).f)
           /\ Hide(d).pids = d.pids /\ Hide(d).user = d.user
           /\ \A k \in F \ Addresses : Hide(d).f[k] = d.f[k]
<1> DEFINE g == [k \in F |-> Hidden(k, d.f[k])]
<1>1. d = Command(d.f, d.pids, d.user) BY DEF Has
<1>2. d.f = [k \in F |-> d.f[k]] /\ \A k \in F : d.f[k] \in U32 BY DEF Has
<1>3. DOMAIN d.f = F BY <1>2
<1>4. Hide(d) = Command(g, d.pids, d.user) BY <1>3 DEF Hide
<1>5. Hide(d).f = g /\ Hide(d).pids = d.pids /\ Hide(d).user = d.user BY <1>4 DEF Command
<1>6. SearchIP \in U32 /\ SearchPort \in U32 /\ 0 \in U32 /\ SearchPort <= 65535 /\ 0 <= 65535
  BY SearchID
<1>7. \A k \in F : g[k] \in U32 BY <1>2, <1>6 DEF Hidden
<1>8. \A k \in F \cap {"PublicPort", "LocalPort"} : g[k] <= 65535 BY <1>6 DEF Hidden
<1>9. \A k \in F \ Addresses : g[k] = d.f[k] BY DEF Hidden, Addresses
<1>10. \A k \in F \cap {"IsFriend"} : g[k] <= 1
  <2>1. \A k \in F \cap {"IsFriend"} : d.f[k] <= 1 BY DEF Has
  <2> QED BY <1>9, <2>1 DEF Addresses
<1>11. Hides(g) BY DEF Hides, Hidden
<1>12. Has(Hide(d), F)
  <2>1. Hide(d) = Command(Hide(d).f, Hide(d).pids, Hide(d).user) BY <1>4, <1>5
  <2>2. d.pids \in Seq(U32) /\ d.user \in Seq(Words) BY DEF Has
  <2>3. g = [k \in F |-> g[k]] OBVIOUS
  <2> HIDE DEF g
  <2> QED BY <1>5, <1>7, <1>8, <1>10, <2>1, <2>2, <2>3 DEF Has
<1> HIDE DEF g
<1> QED BY <1>5, <1>9, <1>11, <1>12

\* Hiding the addresses of a reservation or of its answer keeps its shape.
LEMMA HideFits ==
    ASSUME NEW c \in {"RESERVATION", "RESV_OK"}, NEW d, NEW v, NEW n, Fits(c, d, v, n)
    PROVE  Fits(c, Hide(d), v, n) /\ Hides(Hide(d).f)
<1>1. \A F : Has(d, F) => /\ Has(Hide(d), F) /\ Hides(Hide(d).f)
                          /\ Hide(d).pids = d.pids /\ Hide(d).user = d.user
                          /\ \A k \in F \ Addresses : Hide(d).f[k] = d.f[k]
  BY HideFields
<1>2. CASE c = "RESERVATION"
  <2>1. ReservationFits(d, v, n) BY <1>2 DEF Fits
  <2>2. PICK F : /\ Has(d, F) /\ "MatchType" \in F /\ "HasPublicIP" \in F
                 /\ F \in {{"MatchType", "HasPublicIP"}, Fields3, Fields11, Fields90}
    BY <2>1 DEF ReservationFits, Fields3, Fields11, Fields90
  <2>3. /\ Hide(d).pids = d.pids /\ Hide(d).user = d.user /\ Hides(Hide(d).f)
        /\ \A k \in F \ Addresses : Hide(d).f[k] = d.f[k]
    BY <1>1, <2>2
  <2>4. Hide(d).f["MatchType"] = d.f["MatchType"] /\ Hide(d).f["HasPublicIP"] = d.f["HasPublicIP"]
    BY <2>2, <2>3 DEF Addresses
  <2>5. ReservationFits(Hide(d), v, n) BY <1>1, <2>1, <2>3, <2>4 DEF ReservationFits
  <2> QED BY <1>2, <2>3, <2>5 DEF Fits, Named
<1>3. CASE c = "RESV_OK"
  <2>1. ResvOKFits(d, v, n) BY <1>3 DEF Fits
  <2>2. PICK F : Has(d, F) /\ "ClientCount" \in F
    BY <2>1 DEF ResvOKFits, OKFields3, OKFields11, OKFields90
  <2>3. /\ Hide(d).pids = d.pids /\ Hide(d).user = d.user /\ Hides(Hide(d).f)
        /\ \A k \in F \ Addresses : Hide(d).f[k] = d.f[k]
    BY <1>1, <2>2
  <2>4. Hide(d).f["ClientCount"] = d.f["ClientCount"] BY <2>2, <2>3 DEF Addresses
  <2>5. ResvOKFits(Hide(d), v, n) BY <1>1, <2>1, <2>3, <2>4 DEF ResvOKFits
  <2> QED BY <1>3, <2>3, <2>5 DEF Fits, Named
<1> QED BY <1>2, <1>3

-----------------------------------------------------------------------------
(* The relay.                                                               *)

\* The inductive invariant: what the relay knows of the command at each step.
RelayInv ==
    /\ mdata.ok => Fits(mcmd, mdata, mver, mlen)
    /\ mstep \in {"idle", "decode"} => ~mdata.ok
    /\ mstep = "decode" => mbuf \in Seq(Words) /\ mlen = Len(mbuf) /\ mver \in {3, 11, 90}
    /\ mstep \in {"compare", "rewrite", "encode", "sent"} => mdata.ok
    /\ mstep \in {"encode", "sent"} /\ mhide /\ mcmd \in {"RESERVATION", "RESV_OK"}
         => Hides(mdata.f)
    /\ mstep = "sent" => Relayed(mcmd, mdata, mver, mlen, mbuf)

\* Nothing is decoded at first.
LEMMA RelayInit == MatchInit => RelayInv
<1> SUFFICES ASSUME MatchInit PROVE RelayInv OBVIOUS
<1>1. ~mdata.ok BY DEF MatchInit, NotDecoded
<1> QED BY <1>1 DEF MatchInit, RelayInv

\* Every step of the relay keeps the invariant.
LEMMA RelayStep == RelayInv /\ [MatchNext]_mvars => RelayInv'
<1> SUFFICES ASSUME RelayInv, [MatchNext]_mvars PROVE RelayInv' OBVIOUS
<1>1. ASSUME NEW c \in MCommands, NEW b \in MBuffers(c), NEW v \in {3, 11, 90, 4},
             NEW hide \in BOOLEAN, Receive(c, b, v, hide)
      PROVE  RelayInv'
  <2>1. ~mdata.ok /\ mdata' = mdata BY <1>1 DEF RelayInv, Receive
  <2>2. b \in Seq(Words) BY BufferAssumption
  <2>3. mstep' \in {"decode", "refused"} /\ mbuf' = b /\ mlen' = Len(b) /\ mver' = v
    BY <1>1 DEF Receive
  <2>4. mstep' = "decode" => v \in {3, 11, 90} BY <1>1 DEF Receive
  <2> QED BY <2>1, <2>2, <2>3, <2>4 DEF RelayInv
<1>2. CASE Decode
  <2> DEFINE d == DecodeMatchCommand(mcmd, mbuf, mver)
  <2>1. mbuf \in Seq(Words) /\ mlen = Len(mbuf) /\ mver \in {3, 11, 90}
    BY <1>2 DEF Decode, RelayInv
  <2>2. /\ mdata' = d /\ mcmd' = mcmd /\ mver' = mver /\ mlen' = mlen
        /\ (d.ok /\ mstep' = "compare") \/ (~d.ok /\ mstep' = "refused")
    BY <1>2 DEF Decode
  <2>3. d.ok => Fits(mcmd, d, mver, mlen) BY <2>1, Decoded
  <2> HIDE DEF d
  <2> QED BY <2>2, <2>3 DEF RelayInv
<1>3. ASSUME NEW h \in BOOLEAN, NEW n \in BOOLEAN, Compare(h, n) PROVE RelayInv'
  <2>1. /\ mstep = "compare" /\ mstep' \in {"refused", "rewrite"}
        /\ UNCHANGED <<mcmd, mver, mlen, mbuf, mdata, mhide>>
    BY <1>3 DEF Compare
  <2> QED BY <2>1 DEF RelayInv
<1>4. CASE Rewrite
  <2>1. /\ mstep = "rewrite" /\ mstep' = "encode"
        /\ UNCHANGED <<mcmd, mver, mlen, mbuf, mhide>>
    BY <1>4 DEF Rewrite
  <2>2. mdata.ok /\ Fits(mcmd, mdata, mver, mlen) BY <2>1 DEF RelayInv
  <2>3. CASE mhide /\ mcmd \in {"RESERVATION", "RESV_OK"}
    <3>1. mdata' = Hide(mdata) BY <1>4, <2>3 DEF Rewrite, Hide, Hidden
    <3>2. Fits(mcmd, Hide(mdata), mver, mlen) /\ Hides(Hide(mdata).f) BY <2>2, <2>3, HideFits
    <3>3. Hide(mdata).ok BY <3>2, FitsInBounds
    <3> QED BY <2>1, <3>1, <3>2, <3>3 DEF RelayInv
  <2>4. CASE ~(mhide /\ mcmd \in {"RESERVATION", "RESV_OK"})
    <3>1. mdata' = mdata BY <1>4, <2>4 DEF Rewrite
    <3> QED BY <2>1, <2>2, <2>4, <3>1 DEF RelayInv
  <2> QED BY <2>3, <2>4
<1>5. CASE Encode
  <2> DEFINE b == EncodeMatchCommand(mcmd, mdata, mver)
  <2>1. /\ mstep = "encode" /\ UNCHANGED <<mcmd, mver, mlen, mdata, mhide>>
        /\ mstep' = "refused" \/ (mstep' = "sent" /\ mbuf' = b)
    BY <1>5 DEF Encode
  <2>2. mdata.ok /\ Fits(mcmd, mdata, mver, mlen) BY <2>1 DEF RelayInv
  <2>3. Relayed(mcmd, mdata, mver, mlen, b) BY <2>2, Round
  <2> HIDE DEF b
  <2> QED BY <2>1, <2>2, <2>3 DEF RelayInv
<1>6. CASE UNCHANGED mvars BY <1>6 DEF mvars, RelayInv
<1> QED BY <1>1, <1>2, <1>3, <1>4, <1>5, <1>6 DEF MatchNext

\* The invariant gives the property.
LEMMA RelaySafe == RelayInv => RelaySound
<1> SUFFICES ASSUME RelayInv PROVE RelaySound OBVIOUS
<1>1. DecodeInBounds
  <2>1. mdata.ok => Fits(mcmd, mdata, mver, mlen) BY DEF RelayInv
  <2> QED BY <2>1, FitsInBounds DEF DecodeInBounds, InBounds
<1>2. RelayKeepsMeaning BY DEF RelayInv, RelayKeepsMeaning, Relayed
<1>3. AddressesHidden
  <2> SUFFICES ASSUME mstep = "sent", mhide, mcmd \in {"RESERVATION", "RESV_OK"}
               PROVE  Hides(DecodeMatchCommand(mcmd, mbuf, mver).f)
    BY DEF AddressesHidden, Hides
  <2>1. Hides(mdata.f) BY DEF RelayInv
  <2>2. DecodeMatchCommand(mcmd, mbuf, mver) = mdata BY DEF RelayInv, Relayed
  <2> QED BY <2>1, <2>2
<1> QED BY <1>1, <1>2, <1>3 DEF RelaySound

\* A match command of any length and content that the server relays is read within
\* its bounds, keeps its meaning when it is written again, and shows no address that
\* is to be hidden (match_command.go:182-707, qr2/message.go:129-232).
THEOREM RelaysAreSound == MatchInit /\ [][MatchNext]_mvars => []RelaySound
<1>1. MatchInit => RelayInv BY RelayInit
<1>2. RelayInv /\ [MatchNext]_mvars => RelayInv' BY RelayStep
<1>3. RelayInv => RelaySound BY RelaySafe
<1> QED BY <1>1, <1>2, <1>3, PTL
=============================================================================
