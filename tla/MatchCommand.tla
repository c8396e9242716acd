---------------------------- MODULE MatchCommand ----------------------------
(***************************************************************************)
(* Match commands: DecodeMatchCommand and EncodeMatchCommand               *)
(* (common/match_command.go), and how SendClientMessage (qr2/message.go)   *)
(* relays one: decode, compare it with the message's header, hide the      *)
(* sender's address behind its search ID, encode, send.                    *)
(*                                                                         *)
(* A buffer is a sequence of 32-bit words, each four bytes with the last   *)
(* below 128 (TLC's integers have 32 bits); one whose length is not a      *)
(* multiple of four is refused first of all.  A command is decoded to      *)
(* numbers by field name, profile IDs and user data.                       *)
(***************************************************************************)
EXTENDS Integers, Sequences, SequencesExt

CONSTANTS
    MCommands,      \* commands, named as in GetMatchCommandString
    MBuffers(_),    \* the buffers a command comes in
    SearchIP,       \* the low 32 bits of the sender's search ID
    SearchPort      \* the next 16

\* A word of a buffer, and the numbers of 32 bits (TLC has no 2^32).
Words == [1..4 -> 0..255]
U32 == {n \in Nat : n \div 16777216 < 256}

ASSUME BufferAssumption == \A c \in MCommands : MBuffers(c) \subseteq Seq(Words)
ASSUME SearchAssumption == SearchIP \in U32 /\ SearchPort \in Nat /\ SearchPort <= 65535

VARIABLES
    mstep,          \* what SendClientMessage does next
    mcmd,           \* the command
    mver,           \* the version in the header
    mbuf,           \* the buffer as it came, and as it is sent
    mlen,           \* the length in the header, which stays as it came
    mdata,          \* what it was decoded to
    mhide           \* useSearchID

mvars == <<mstep, mcmd, mver, mbuf, mlen, mdata, mhide>>

-----------------------------------------------------------------------------
(* Words.                                                                   *)

Beyond == <<-1, -1, -1, -1>>

LE(w) == w[1] + 256 * w[2] + 65536 * w[3] + 16777216 * w[4]
BE(w) == LE(Reverse(w))
PutLE(n) == <<n % 256, (n \div 256) % 256, (n \div 65536) % 256, (n \div 16777216) % 256>>
PutBE(n) == Reverse(PutLE(n))

\* The word at byte offset 4k; a read beyond the end, where Go would panic,
\* gives a negative number.
Word(b, k) == IF k < Len(b) THEN b[k + 1] ELSE Beyond
L(b, k) == LE(Word(b, k))
B(b, k) == BE(Word(b, k))
From(b, k) == IF k > Len(b) THEN <<Beyond>> ELSE SubSeq(b, k + 1, Len(b))

NotDecoded == [ok |-> FALSE]
Command(f, pids, user) == [ok |-> TRUE, f |-> f, pids |-> pids, user |-> user]
NoWords == <<>>
NoFields == [none |-> 0]

-----------------------------------------------------------------------------
(* DecodeMatchCommand.                                                      *)

DecodeReservation(b, v) ==
    IF (v = 3 /\ Len(b) < 1) \/ (v = 11 /\ Len(b) < 5) \/ (v = 90 /\ Len(b) < 9) \/ L(b, 0) > 3
    THEN NotDecoded
    ELSE IF v = 3 /\ Len(b) < 3
    THEN Command([MatchType |-> L(b, 0), HasPublicIP |-> 0], NoWords, NoWords)
    ELSE IF L(b, 2) > 65535 THEN NotDecoded
    ELSE CASE v = 3 ->
                Command([MatchType |-> L(b, 0), HasPublicIP |-> 1, PublicIP |-> B(b, 1),
                         PublicPort |-> L(b, 2)], NoWords, From(b, 3))
           [] v = 11 ->
                IF L(b, 3) > 1 THEN NotDecoded
                ELSE Command([MatchType |-> L(b, 0), HasPublicIP |-> 1, PublicIP |-> B(b, 1),
                              PublicPort |-> L(b, 2), IsFriend |-> L(b, 3),
                              LocalPlayerCount |-> L(b, 4)], NoWords, From(b, 5))
           [] OTHER ->
                IF L(b, 4) > 65535 \/ L(b, 6) > 1 THEN NotDecoded
                ELSE Command([MatchType |-> L(b, 0), HasPublicIP |-> 1, PublicIP |-> B(b, 1),
                              PublicPort |-> L(b, 2), LocalIP |-> B(b, 3), LocalPort |-> L(b, 4),
                              Unknown |-> L(b, 5), IsFriend |-> L(b, 6),
                              LocalPlayerCount |-> L(b, 7), ResvCheckValue |-> L(b, 8)],
                             NoWords, From(b, 9))

\* Versions 3 and 11 list the profile IDs of the room's clients first.
DecodeResvOK(b, v) ==
    IF v = 90
    THEN IF Len(b) < 13 \/ L(b, 4) > 65535 \/ L(b, 6) > 65535 THEN NotDecoded
         ELSE Command([MaxPlayers |-> L(b, 0), SenderAID |-> L(b, 1), ProfileID |-> L(b, 2),
                       PublicIP |-> B(b, 3), PublicPort |-> L(b, 4), LocalIP |-> B(b, 5),
                       LocalPort |-> L(b, 6), Unknown |-> L(b, 7), LocalPlayerCount |-> L(b, 8),
                       GroupID |-> L(b, 9), ReceiverNewAID |-> L(b, 10), ClientCount |-> L(b, 11),
                       ResvCheckValue |-> L(b, 12)], NoWords, From(b, 13))
    ELSE LET n    == L(b, 0)
             i    == n + 1
             pids == [k \in 1..n |-> L(b, k)]
         IN  IF \/ Len(b) < 3
                \/ v = 3  /\ (n > 29 \/ Len(b) < n + 3)
                \/ v = 11 /\ (n > 24 \/ Len(b) < n + 8)
                \/ L(b, i + 1) > 65535
                \/ v = 11 /\ L(b, i + 2) > 1
             THEN NotDecoded
             ELSE IF v = 3
             THEN Command([PublicIP |-> B(b, i), PublicPort |-> L(b, i + 1), ClientCount |-> n],
                          pids, From(b, i + 2))
             ELSE Command([MaxPlayers |-> L(b, i + 5), SenderAID |-> L(b, i + 3),
                           PublicIP |-> B(b, i), PublicPort |-> L(b, i + 1),
                           GroupID |-> L(b, i + 4), ClientCount |-> n, IsFriend |-> L(b, i + 2)],
                          pids, From(b, i + 6))

DecodeResvDeny(b) ==
    IF Len(b) >= 1
    THEN Command([Reason |-> L(b, 0), ReasonSpecified |-> IF Len(b) > 1 THEN 1 ELSE 0],
                 NoWords, From(b, 1))
    ELSE Command([Reason |-> 0, ReasonSpecified |-> 0], NoWords, b)

DecodeTellAddr(b) ==
    IF Len(b) # 2 \/ L(b, 1) > 65535 THEN NotDecoded
    ELSE Command([LocalIP |-> B(b, 0), LocalPort |-> L(b, 1)], NoWords, NoWords)

DecodeServerCloseClient(b) ==
    IF Len(b) > 32 THEN NotDecoded ELSE Command(NoFields, [k \in DOMAIN b |-> LE(b[k])], NoWords)

DecodeSuspendMatch(b) ==
    CASE Len(b) = 2 -> Command([HostProfileID |-> L(b, 0), IsHostFlag |-> L(b, 1), Short |-> 1],
                               NoWords, NoWords)
      [] Len(b) = 4 -> Command([HostProfileID |-> L(b, 0), IsHostFlag |-> L(b, 1), Short |-> 0,
                                SuspendValue |-> L(b, 2), ClientAIDValue |-> L(b, 3)], NoWords, NoWords)
      [] OTHER -> NotDecoded

\* The commands without fields, and those the server does not know.
DecodeOther(c, b) ==
    IF \/ c \in {"RESV_WAIT", "RESV_CANCEL", "POLL_TIMEOUT"} /\ Len(b) # 0
       \/ c = "POLL_TO_ACK" /\ Len(b) # 1
    THEN NotDecoded ELSE Command(NoFields, NoWords, b)

DecodeMatchCommand(c, b, v) ==
    CASE v \notin {3, 11, 90}  -> NotDecoded
      [] c = "RESERVATION"     -> DecodeReservation(b, v)
      [] c = "RESV_OK"         -> DecodeResvOK(b, v)
      [] c = "RESV_DENY"       -> DecodeResvDeny(b)
      [] c = "TELL_ADDR"       -> DecodeTellAddr(b)
      [] c = "SC_CLOSE_CL"     -> DecodeServerCloseClient(b)
      [] c = "SUSPEND_MATCH"   -> DecodeSuspendMatch(b)
      [] OTHER                 -> DecodeOther(c, b)

-----------------------------------------------------------------------------
(* EncodeMatchCommand; the words that a decoded command gives.              *)

EncodeReservation(d, v) ==
    IF v = 3 /\ d.f.HasPublicIP = 0 THEN <<PutLE(d.f.MatchType)>>
    ELSE <<PutLE(d.f.MatchType), PutBE(d.f.PublicIP), PutLE(d.f.PublicPort)>>
         \o (CASE v = 3  -> NoWords
               [] v = 11 -> <<PutLE(d.f.IsFriend), PutLE(d.f.LocalPlayerCount)>>
               [] OTHER  -> <<PutBE(d.f.LocalIP), PutLE(d.f.LocalPort), PutLE(d.f.Unknown),
                              PutLE(d.f.IsFriend), PutLE(d.f.LocalPlayerCount),
                              PutLE(d.f.ResvCheckValue)>>)
         \o d.user

\* Mutant: the fields in the order of the struct.
EncodeResvOKSwapped(d, v) ==
    <<PutLE(d.f.ClientCount)>> \o [k \in DOMAIN d.pids |-> PutLE(d.pids[k])]
    \o <<PutBE(d.f.PublicIP), PutLE(d.f.PublicPort)>>
    \o (IF v = 11 THEN <<PutLE(d.f.IsFriend), PutLE(d.f.MaxPlayers), PutLE(d.f.SenderAID),
                         PutLE(d.f.GroupID)>> ELSE NoWords) \o d.user

EncodeResvOK(d, v) ==
    IF v = 90
    THEN <<PutLE(d.f.MaxPlayers), PutLE(d.f.SenderAID), PutLE(d.f.ProfileID), PutBE(d.f.PublicIP),
           PutLE(d.f.PublicPort), PutBE(d.f.LocalIP), PutLE(d.f.LocalPort), PutLE(d.f.Unknown),
           PutLE(d.f.LocalPlayerCount), PutLE(d.f.GroupID), PutLE(d.f.ReceiverNewAID),
           PutLE(d.f.ClientCount), PutLE(d.f.ResvCheckValue)>> \o d.user
    ELSE <<PutLE(d.f.ClientCount)>> \o [k \in DOMAIN d.pids |-> PutLE(d.pids[k])]
         \o <<PutBE(d.f.PublicIP), PutLE(d.f.PublicPort)>>
         \o (IF v = 11 THEN <<PutLE(d.f.IsFriend), PutLE(d.f.SenderAID), PutLE(d.f.GroupID),
                              PutLE(d.f.MaxPlayers)>> ELSE NoWords) \o d.user

EncodeMatchCommand(c, d, v) ==
    CASE c = "RESERVATION"   -> EncodeReservation(d, v)
      [] c = "RESV_OK"       -> EncodeResvOK(d, v)
      [] c = "RESV_DENY"     -> (IF d.f.ReasonSpecified = 0 THEN NoWords ELSE <<PutLE(d.f.Reason)>>)
                                \o d.user
      [] c = "TELL_ADDR"     -> <<PutBE(d.f.LocalIP), PutLE(d.f.LocalPort)>>
      [] c = "SC_CLOSE_CL"   -> [k \in DOMAIN d.pids |-> PutLE(d.pids[k])]
      [] c = "SUSPEND_MATCH" -> <<PutLE(d.f.HostProfileID), PutLE(d.f.IsHostFlag)>>
                                \o (IF d.f.Short = 1 THEN NoWords
                                    ELSE <<PutLE(d.f.SuspendValue), PutLE(d.f.ClientAIDValue)>>)
      [] c \in {"RESV_WAIT", "RESV_CANCEL", "POLL_TIMEOUT"} -> NoWords
      [] OTHER               -> d.user

-----------------------------------------------------------------------------
(* SendClientMessage, from the packet to the wire.                          *)

MatchInit ==
    /\ mstep = "idle" /\ mcmd = "CANCEL" /\ mver = 90
    /\ mbuf = NoWords /\ mlen = 0
    /\ mdata = NotDecoded
    /\ mhide = FALSE

\* A match command arrives; the sessions it names are found and authenticated.
Receive(c, b, v, hide) ==
    /\ mstep = "idle"
    /\ mstep' = IF v \in {3, 11, 90} THEN "decode" ELSE "refused"
    /\ mcmd' = c /\ mver' = v /\ mbuf' = b /\ mlen' = Len(b) /\ mhide' = hide
    /\ UNCHANGED mdata

Decode ==
    LET d == DecodeMatchCommand(mcmd, mbuf, mver) IN
    /\ mstep = "decode"
    /\ mdata' = d
    /\ mstep' = IF d.ok THEN "compare" ELSE "refused"
    /\ UNCHANGED <<mcmd, mver, mlen, mbuf, mhide>>

\* header: the header has the public address, and for RESV_OK the profile ID, that
\* the command has.  near: the two players have the same public IP.
Compare(header, near) ==
    LET f   == mdata.f
        low == "LocalPort" \in DOMAIN f /\ f.LocalPort < 1024
        bad == \/ mcmd = "RESERVATION" /\ f.HasPublicIP = 1 /\ ~header
               \/ mcmd = "RESV_OK" /\ ~header
               \/ mcmd \in {"RESERVATION", "RESV_OK"} /\ mver = 90 /\ low
               \/ mcmd = "TELL_ADDR" /\ (~near \/ low)
    IN  /\ mstep = "compare"
        /\ mstep' = IF bad THEN "refused" ELSE "rewrite"
        /\ UNCHANGED <<mcmd, mver, mlen, mbuf, mdata, mhide>>

\* The struct's other address fields, which this version does not encode, stay out.
Rewrite ==
    LET f == mdata.f
        Hidden(k) == CASE k = "PublicIP" -> SearchIP
                       [] k = "PublicPort" -> SearchPort
                       [] k \in {"LocalIP", "LocalPort"} -> 0
                       [] OTHER -> f[k]
    IN  /\ mstep = "rewrite"
        /\ mdata' = IF mhide /\ mcmd \in {"RESERVATION", "RESV_OK"}
                    THEN Command([k \in DOMAIN f |-> Hidden(k)], mdata.pids, mdata.user) ELSE mdata
        /\ mstep' = "encode"
        /\ UNCHANGED <<mcmd, mver, mlen, mbuf, mhide>>

Encode ==
    LET b == EncodeMatchCommand(mcmd, mdata, mver) IN
    /\ mstep = "encode"
    /\ mstep' = IF Len(b) > 32 THEN "refused" ELSE "sent"
    /\ mbuf'  = IF Len(b) > 32 THEN mbuf ELSE b
    /\ UNCHANGED <<mcmd, mver, mlen, mdata, mhide>>

MatchNext ==
    \/ /\ mstep = "idle"
       /\ \E c \in MCommands : \E b \in MBuffers(c), v \in {3, 11, 90, 4}, hide \in BOOLEAN :
             Receive(c, b, v, hide)
    \/ Decode \/ Rewrite \/ Encode
    \/ \E h \in BOOLEAN, n \in BOOLEAN : Compare(h, n)

-----------------------------------------------------------------------------
(* Properties.                                                              *)

\* However short the buffer and whatever count of clients it claims, decoding
\* reads no byte beyond it (match_command.go:193-199, 291-300, 350-351).
DecodeInBounds ==
    mdata.ok => /\ \A k \in DOMAIN mdata.f : mdata.f[k] >= 0
                /\ \A i \in DOMAIN mdata.pids : mdata.pids[i] >= 0
                /\ \A i \in DOMAIN mdata.user : mdata.user[i] # Beyond

\* What the server sends is a command that a client decodes to what the server
\* made of the sender's, in every version, with the offsets and byte orders of
\* two functions that share nothing (match_command.go:182-543 and 545-709), and
\* it has the length the header still gives (message.go:91, 219-228).  There are
\* two exceptions: a RESV_DENY that is only a reason is sent without it, and a
\* RESERVATION of version 3 with half an address is sent without that.
RelayKeepsMeaning ==
    mstep = "sent" =>
        \/ DecodeMatchCommand(mcmd, mbuf, mver) = mdata /\ Len(mbuf) = mlen
        \/ mcmd = "RESV_DENY" /\ mlen = 1 /\ mbuf = NoWords
        \/ mcmd = "RESERVATION" /\ mver = 3 /\ mlen = 2 /\ Len(mbuf) = 1

\* With search IDs on, neither the public nor the local address of a player
\* reaches the other in a reservation or its answer (message.go:155-160, 185-190).
AddressesHidden ==
    (mstep = "sent" /\ mhide /\ mcmd \in {"RESERVATION", "RESV_OK"}) =>
        LET f == DecodeMatchCommand(mcmd, mbuf, mver).f IN
        \A k \in DOMAIN f :
            /\ k = "PublicIP" => f[k] = SearchIP
            /\ k = "PublicPort" => f[k] = SearchPort
            /\ k \in {"LocalIP", "LocalPort"} => f[k] = 0

\* A match command that the server relays is read within its bounds, keeps its
\* meaning when it is written again, and shows no address that is to be hidden
\* (match_command.go:182-707, qr2/message.go:129-232).
RelaySound == DecodeInBounds /\ RelayKeepsMeaning /\ AddressesHidden

=============================================================================
