---------------------------- MODULE NATNEGProofs ----------------------------
(***************************************************************************)
(* Theorems about NATNEG, for any number of session objects, clients,      *)
(* handlers and restarts.                                                  *)
(***************************************************************************)
EXTENDS NATNEG, TLAPS

\* The inductive invariant.  A client becomes idle or known only in a handler
\* that goes on to sendConnectRequests, which holds the mutex (busy) until no
\* pair is left; a session is opened only when the cookie has none.
NegInv == TypeOK /\ OneSession /\ NoIdlePair

LEMMA InitNegInv == Init => NegInv
<1> SUFFICES ASSUME Init PROVE NegInv
  OBVIOUS
<1> USE NATNEGAssumption DEF NATNEGAssumption, Init
<1>1. TypeOK
  BY DEF TypeOK
<1>2. OneSession
  BY DEF OneSession
<1>3. NoIdlePair
  BY DEF NoIdlePair, Idle, Mapped
<1> QED BY <1>1, <1>2, <1>3 DEF NegInv

-----------------------------------------------------------------------------
(* One lemma per conjunct. *)

LEMMA NextTypeOK ==
    ASSUME TypeOK, Next
    PROVE  TypeOK'
<1> USE NATNEGAssumption DEF NATNEGAssumption, TypeOK, clientVars
<1>1. ASSUME NEW t \in Handlers, FindSession(t) \/ Ignore(t) PROVE TypeOK'
  BY <1>1 DEF FindSession, Ignore, Serving
<1>2. ASSUME NEW t \in Handlers, NEW s \in Sess, CreateSession(t, s) PROVE TypeOK'
  BY <1>2 DEF CreateSession
<1>3. ASSUME NEW t \in Handlers, NEW c \in Client, NEW p \in Ports, HandleInit(t, c, p)
      PROVE  TypeOK'
  <2>1. ptr[t] \in Sess
    BY <1>3 DEF HandleInit, Serving
  <2>2. /\ clients' \in [Sess -> SUBSET Client]
        /\ neg' \in [Sess -> SUBSET Client]
        /\ srv' \in [Sess -> SUBSET Client]
    BY <1>3, <2>1 DEF HandleInit
  <2>3. busy' \in [Sess -> BOOLEAN] /\ ptr' \in [Handlers -> Sess \cup {NoSess}]
    BY <1>3, <2>1 DEF HandleInit, StartRequests
  <2> QED BY <1>3, <2>2, <2>3 DEF HandleInit
<1>4. ASSUME NEW t \in Handlers, NEW c \in Client, HandleConnectReply(t, c)
      PROVE  TypeOK'
  BY <1>4 DEF HandleConnectReply, Serving
<1>5. ASSUME NEW t \in Handlers, NEW c \in Client, HandleReport(t, c)
      PROVE  TypeOK'
  BY <1>5 DEF HandleReport, Serving, StartRequests
<1>6. ASSUME NEW t \in Handlers, HandleReportUnknown(t) PROVE TypeOK'
  BY <1>6 DEF HandleReportUnknown, Serving, StartRequests
<1>7. ASSUME NEW s \in Sess, NEW c \in Client, NEW d \in Client, ExchangeRequests(s, c, d)
      PROVE  TypeOK'
  <2>1. {c, d} \in SUBSET Client
    OBVIOUS
  <2>2. loops' \subseteq Sess \X SUBSET Client
    <3>1. <<s, {c, d}>> \in Sess \X SUBSET Client
      BY <2>1, Zenon
    <3>2. loops' = loops \cup {<<s, {c, d}>>}
      BY <1>7 DEF ExchangeRequests
    <3> QED BY <3>1, <3>2, Zenon
  <2>3. /\ peer' \in [Sess -> [Client -> Client]]
        /\ ack' \in [Sess -> [Client -> BOOLEAN]]
        /\ hub' \in [Sess -> Client \cup {NoClient}]
    BY <1>7 DEF ExchangeRequests
  <2> QED BY <1>7, <2>2, <2>3 DEF ExchangeRequests
<1>8. ASSUME NEW s \in Sess, EndRequests(s) PROVE TypeOK'
  BY <1>8 DEF EndRequests
<1>9. ASSUME NEW s \in Sess, Expire(s) \/ Disconnect(s) PROVE TypeOK'
  BY <1>9 DEF Expire, Disconnect
<1>10. ASSUME NEW l \in loops, ConnectLoop(l) PROVE TypeOK'
  BY <1>10 DEF ConnectLoop
<1>11. CASE Reload
  BY <1>11 DEF Reload
<1> QED BY <1>1, <1>2, <1>3, <1>4, <1>5, <1>6, <1>7, <1>8, <1>9, <1>10, <1>11
        DEF Next, Packet, Requests

LEMMA NextOneSession ==
    ASSUME TypeOK, OneSession, Next
    PROVE  OneSession'
<1> USE NATNEGAssumption DEF NATNEGAssumption, TypeOK, OneSession
<1>1. ASSUME UNCHANGED <<current, open, timer>> PROVE OneSession'
  BY <1>1
<1>2. ASSUME NEW t \in Handlers, FindSession(t) \/ Packet(t) PROVE OneSession'
  BY <1>1, <1>2 DEF FindSession, Packet, Ignore, HandleInit, HandleConnectReply,
                    HandleReport, HandleReportUnknown
<1>3. ASSUME NEW t \in Handlers, NEW s \in Sess, CreateSession(t, s) PROVE OneSession'
  BY <1>3 DEF CreateSession, Free
<1>4. ASSUME NEW s \in Sess, Requests(s) PROVE OneSession'
  BY <1>1, <1>4 DEF Requests, ExchangeRequests, EndRequests
<1>5. ASSUME NEW s \in Sess, Expire(s) PROVE OneSession'
  BY <1>5 DEF Expire
<1>6. ASSUME NEW s \in Sess, Disconnect(s) PROVE OneSession'
  BY <1>6 DEF Disconnect
<1>7. ASSUME NEW l \in loops, ConnectLoop(l) PROVE OneSession'
  BY <1>1, <1>7 DEF ConnectLoop
<1>8. CASE Reload
  BY <1>8 DEF Reload
<1> QED BY <1>2, <1>3, <1>4, <1>5, <1>6, <1>7, <1>8 DEF Next

LEMMA NextNoIdlePair ==
    ASSUME TypeOK, NoIdlePair, Next
    PROVE  NoIdlePair'
<1> USE DEF TypeOK, NoIdlePair, Idle, Mapped, clientVars
<1>1. ASSUME UNCHANGED <<neg, srv, peer, tried, busy>> PROVE NoIdlePair'
  BY <1>1
<1>2. ASSUME NEW t \in Handlers, FindSession(t) \/ Ignore(t) PROVE NoIdlePair'
  BY <1>1, <1>2 DEF FindSession, Ignore
<1>3. ASSUME NEW t \in Handlers, NEW s \in Sess, CreateSession(t, s) PROVE NoIdlePair'
  BY <1>3 DEF CreateSession
<1>4. ASSUME NEW t \in Handlers, NEW c \in Client, NEW p \in Ports, HandleInit(t, c, p)
      PROVE  NoIdlePair'
  <2>1. ptr[t] \in Sess
    BY <1>4 DEF HandleInit, Serving
  <2>2. CASE c \in neg'[ptr[t]] \cap srv'[ptr[t]]
    BY <1>4, <2>1, <2>2 DEF HandleInit, StartRequests
  <2>3. CASE c \notin neg'[ptr[t]] \cap srv'[ptr[t]]
    <3>1. \A s \in Sess : Mapped(s)' = Mapped(s)
      BY <1>4, <2>1, <2>3 DEF HandleInit
    <3> QED BY <1>4, <2>3, <3>1 DEF HandleInit
  <2> QED BY <2>2, <2>3
<1>5. ASSUME NEW t \in Handlers, NEW c \in Client, HandleConnectReply(t, c)
      PROVE  NoIdlePair'
  BY <1>1, <1>5 DEF HandleConnectReply
<1>6. ASSUME NEW t \in Handlers, NEW c \in Client, HandleReport(t, c)
      PROVE  NoIdlePair'
  BY <1>6 DEF HandleReport, Serving, StartRequests
<1>7. ASSUME NEW t \in Handlers, HandleReportUnknown(t) PROVE NoIdlePair'
  BY <1>7 DEF HandleReportUnknown, Serving, StartRequests
<1>8. ASSUME NEW s \in Sess, NEW c \in Client, NEW d \in Client, ExchangeRequests(s, c, d)
      PROVE  NoIdlePair'
  BY <1>8 DEF ExchangeRequests
<1>9. ASSUME NEW s \in Sess, EndRequests(s) PROVE NoIdlePair'
  BY <1>9 DEF EndRequests, Destinations
<1>10. ASSUME NEW s \in Sess, Expire(s) \/ Disconnect(s) PROVE NoIdlePair'
  BY <1>1, <1>10 DEF Expire, Disconnect
<1>11. ASSUME NEW l \in loops, ConnectLoop(l) PROVE NoIdlePair'
  BY <1>1, <1>11 DEF ConnectLoop
<1>12. CASE Reload
  BY <1>1, <1>12 DEF Reload
<1> QED BY <1>2, <1>3, <1>4, <1>5, <1>6, <1>7, <1>8, <1>9, <1>10, <1>11, <1>12
        DEF Next, Packet, Requests

LEMMA NextNegInv ==
    ASSUME NegInv, [Next]_vars
    PROVE  NegInv'
<1>1. CASE Next
  BY <1>1, NextTypeOK, NextOneSession, NextNoIdlePair DEF NegInv
<1>2. CASE UNCHANGED vars
  BY <1>2 DEF NegInv, TypeOK, OneSession, NoIdlePair, Idle, Mapped, vars, clientVars
<1> QED BY <1>1, <1>2

-----------------------------------------------------------------------------
(* The goroutines that repeat the connect requests. *)

\* Client c of the open session s waits for a request about d, and no goroutine
\* sends to it.
Forgotten(s, c, d) == open[s] /\ Waits(s, c, d) /\ <<s, {c, d}>> \notin loops

LEMMA NextRepeated ==
    ASSUME TypeOK, Next, ~Reload,
           NEW s \in Sess, NEW c \in Client, NEW d \in Client, c # d,
           Forgotten(s, c, d)'
    PROVE  Waits(s, c, d) /\ <<s, {c, d}>> \notin loops
<1> USE DEF TypeOK, Forgotten, Waits, clientVars
<1>1. ASSUME NEW t \in Handlers, FindSession(t) \/ Ignore(t) \/ HandleReportUnknown(t)
      PROVE  Waits(s, c, d) /\ <<s, {c, d}>> \notin loops
  BY <1>1 DEF FindSession, Ignore, HandleReportUnknown
<1>2. ASSUME NEW t \in Handlers, NEW r \in Sess, CreateSession(t, r)
      PROVE  Waits(s, c, d) /\ <<s, {c, d}>> \notin loops
  BY <1>2 DEF CreateSession
<1>3. ASSUME NEW t \in Handlers, NEW b \in Client, NEW p \in Ports, HandleInit(t, b, p)
      PROVE  Waits(s, c, d) /\ <<s, {c, d}>> \notin loops
  BY <1>3 DEF HandleInit
<1>4. ASSUME NEW t \in Handlers, NEW b \in Client,
             HandleConnectReply(t, b) \/ HandleReport(t, b)
      PROVE  Waits(s, c, d) /\ <<s, {c, d}>> \notin loops
  <2>1. ptr[t] \in Sess
    BY <1>4 DEF HandleConnectReply, HandleReport, Serving
  <2>2. peer'[s][c] \in {c, peer[s][c]} /\ (ack[s][c] /\ peer'[s][c] # c => ack'[s][c])
    <3>1. CASE HandleConnectReply(t, b)
      BY <2>1, <3>1 DEF HandleConnectReply
    <3>2. CASE HandleReport(t, b)
      <4>1. CASE ptr[t] = s /\ b = c
        BY <2>1, <3>2, <4>1 DEF HandleReport
      <4>2. CASE ~(ptr[t] = s /\ b = c)
        BY <2>1, <3>2, <4>2 DEF HandleReport
      <4> QED BY <4>1, <4>2
    <3> QED BY <1>4, <3>1, <3>2
  <2>3. UNCHANGED loops
    BY <1>4 DEF HandleConnectReply, HandleReport
  <2> QED BY <2>2, <2>3
<1>5. ASSUME NEW r \in Sess, NEW b \in Client, NEW e \in Client, ExchangeRequests(r, b, e)
      PROVE  Waits(s, c, d) /\ <<s, {c, d}>> \notin loops
  <2>1. <<s, {c, d}>> \notin loops /\ <<s, {c, d}>> # <<r, {b, e}>>
    BY <1>5, ZenonT(30) DEF ExchangeRequests
  <2>2. b # e
    BY <1>5 DEF ExchangeRequests, Destinations, Idle
  <2>3. CASE r = s /\ c \in {b, e}
    <3>1. {c, d} = {b, e}
      BY <1>5, <2>2, <2>3 DEF ExchangeRequests
    <3> QED BY <2>1, <2>3, <3>1
  <2>4. CASE ~(r = s /\ c \in {b, e})
    BY <1>5, <2>1, <2>4 DEF ExchangeRequests
  <2> QED BY <2>3, <2>4
<1>6. ASSUME NEW r \in Sess, EndRequests(r) \/ Expire(r) \/ Disconnect(r)
      PROVE  Waits(s, c, d) /\ <<s, {c, d}>> \notin loops
  BY <1>6 DEF EndRequests, Expire, Disconnect
<1>7. ASSUME NEW l \in loops, ConnectLoop(l)
      PROVE  Waits(s, c, d) /\ <<s, {c, d}>> \notin loops
  <2>1. Waits(s, c, d) /\ open[s]
    BY <1>7 DEF ConnectLoop
  <2>2. CASE l = <<s, {c, d}>>
    <3>1. l[1] = s /\ c \in l[2] /\ d \in l[2]
      BY <2>2
    <3> QED BY <1>7, <2>1, <3>1 DEF ConnectLoop
  <2>3. CASE l # <<s, {c, d}>>
    BY <1>7, <2>1, <2>3 DEF ConnectLoop
  <2> QED BY <2>2, <2>3
<1> QED BY <1>1, <1>2, <1>3, <1>4, <1>5, <1>6, <1>7 DEF Next, Packet, Requests

-----------------------------------------------------------------------------

\* The variables keep their types (the fields of NATNEGSession and NATNEGClient).
THEOREM TypeCorrect == Spec => []TypeOK
<1>1. NegInv => TypeOK BY DEF NegInv
<1> QED BY <1>1, InitNegInv, NextNegInv, PTL DEF Spec

\* closeSession, which deletes by cookie, deletes the session it was armed for,
\* and a restart arms the timer of every session it loads.
THEOREM OneSessionPerCookie == Spec => []OneSession
<1>1. NegInv => OneSession BY DEF NegInv
<1> QED BY <1>1, InitNegInv, NextNegInv, PTL DEF Spec

\* handleInit and handleReport leave no two idle clients that could be paired.
THEOREM NoPairLeft == Spec => []NoIdlePair
<1>1. NegInv => NoIdlePair BY DEF NegInv
<1> QED BY <1>1, InitNegInv, NextNegInv, PTL DEF Spec

\* Only a restart leaves a waiting client without the goroutine that repeats its
\* connect request (sendConnectRequests).
THEOREM WaitersServed == Spec => RequestsRepeated
<1> DEFINE Kept == \A s \in Sess, c, d \in Client :
          (c # d /\ open'[s] /\ Waits(s, c, d)' /\ <<s, {c, d}>> \notin loops') =>
             \/ Reload
             \/ Waits(s, c, d) /\ <<s, {c, d}>> \notin loops
<1>1. NegInv /\ [Next]_vars => [Kept]_vars
  BY NextRepeated DEF NegInv, Forgotten
<1> QED BY <1>1, InitNegInv, NextNegInv, PTL DEF Spec, RequestsRepeated
=============================================================================
