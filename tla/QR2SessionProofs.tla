-------------------------- MODULE QR2SessionProofs --------------------------
(***************************************************************************)
(* Proofs about the tables of package qr2 (modules QR2Session, ConnMap):   *)
(* the session and login tables agree, a session that gets its profile     *)
(* displaces only the profile's own, and the connection fields of a room   *)
(* tell only what was reported.                                            *)
(*                                                                         *)
(* What makes the first two inductive is what holds of sessions that have  *)
(* left the table: a message or a login may still point to one, and        *)
(* removeSession goes by the address it had.                               *)
(***************************************************************************)
EXTENDS QR2Session, ConnMap, TLAPS

\* A session is in the table at its own address only; an object that was not
\* created yet has no profile, no login and nobody who points to it.
Placed ==
    /\ \A a \in Addr : table[a] # None => addrOf[table[a]] = a
    /\ \A s \in Sess : addrOf[s] = None =>
          pidOf[s] = None /\ loginOf[s] = None /\ s \notin held /\ race[s].at = "none"
    /\ \A l \in Login : sessOf[l] # None => addrOf[sessOf[l]] # None

\* A login belongs to one profile.  The session it points to and the sessions
\* that point to it, in the table or not, have that profile, if it is not loose.
LoginsOwn ==
    /\ \A p, q \in Profile : logins[p] = logins[q] /\ logins[p] # None => p = q
    /\ \A p \in Profile \ loose : LET l == logins[p] IN
          l # None /\ sessOf[l] # None => pidOf[sessOf[l]] = p
    /\ \A s \in Sess, p \in Profile \ loose :
          logins[p] # None /\ loginOf[s] = logins[p] => pidOf[s] = p

\* A session in the table that has a profile is the session of the profile's
\* login, tainted or not.
LiveLinked ==
    \A s \in Sess : Live(s) /\ pidOf[s] \notin loose \cup {None} =>
        /\ logins[pidOf[s]] # None
        /\ sessOf[logins[pidOf[s]]] = s
        /\ loginOf[s] \in {None, logins[pidOf[s]]}

\* The session of a login that no message tainted is in the table, and points
\* back.
CleanLinked ==
    \A p \in Profile \ loose : LET l == logins[p] IN
        l # None /\ l \notin tainted /\ sessOf[l] # None =>
            Live(sessOf[l]) /\ loginOf[sessOf[l]] = l

\* A setProfileID without the mutex is for a loose profile, and the login it
\* found can only be the one of that profile.
RacesLoose ==
    \A s \in Sess : race[s].at # "none" =>
        /\ race[s].pid \in loose
        /\ race[s].login \in Login
        /\ \A q \in Profile : logins[q] = race[s].login => q = race[s].pid
        /\ race[s].at \in {"linked", "unlinked"} => race[s].addr \in Addr

SessInv ==
    /\ TypeOK /\ SearchAgrees /\ Placed /\ LoginsOwn /\ LiveLinked /\ CleanLinked
    /\ RacesLoose

-----------------------------------------------------------------------------
(* What the helpers on the tables return, field by field.                    *)

\* The tables without session d, None for nobody.
TableNo(d)   == [x \in Addr |-> IF table[x] = d THEN None ELSE table[x]]
LoginOfNo(d) == [x \in Sess |-> IF x = d THEN None ELSE loginOf[x]]
SessOfNo(d)  == [m \in Login |-> IF d # None /\ loginOf[d] = m THEN None ELSE sessOf[m]]

\* The logins without session d, when s gets the profile of login l.
SessOfFor(d, s, l) ==
    [m \in Login |-> IF m = l THEN s
                     ELSE IF d # None /\ d # s /\ loginOf[d] = m THEN None ELSE sessOf[m]]

LEMMA RemoveFields ==
    ASSUME NEW T, NEW S, NEW P, NEW L, NEW O, NEW a, T[a] # None
    PROVE  removeSession([table |-> T, search |-> S, pidOf |-> P, loginOf |-> L, sessOf |-> O], a)
           = [table |-> [T EXCEPT ![a] = None], search |-> S \ {T[a]}, pidOf |-> P,
              loginOf |-> [L EXCEPT ![T[a]] = None],
              sessOf |-> IF L[T[a]] = None THEN O ELSE [O EXCEPT ![L[T[a]]] = None]]
BY DEF removeSession

LEMMA AssignFields ==
    ASSUME NEW T, NEW S, NEW P, NEW L, NEW O, NEW s, NEW p, NEW l, NEW r, NEW t,
           r = [table |-> T, search |-> S, pidOf |-> P, loginOf |-> L, sessOf |-> O],
           t = [r EXCEPT !.sessOf[l] = s, !.pidOf[s] = p]
    PROVE  /\ t.table = T /\ t.search = S /\ t.loginOf = L
           /\ t.pidOf = [P EXCEPT ![s] = p] /\ t.sessOf = [O EXCEPT ![l] = s]
OBVIOUS

LEMMA Removed ==
    ASSUME SessInv, NEW a \in Addr, NEW t, t = removeSession(Tables, a)
    PROVE  LET d == table[a] IN
           /\ t.table = TableNo(d) /\ t.search = search \ {d} /\ t.pidOf = pidOf
           /\ t.loginOf = LoginOfNo(d) /\ t.sessOf = SessOfNo(d)
<1> USE QR2SessionAssumption DEF QR2SessionAssumption
<1>1. CASE table[a] = None
  BY <1>1 DEF SessInv, TypeOK, Placed, Tables, removeSession, TableNo, LoginOfNo, SessOfNo
<1>2. CASE table[a] # None
  <2>1. table[a] \in Sess /\ \A x \in Addr : table[x] = table[a] => x = a
    BY <1>2 DEF SessInv, TypeOK, Placed
  <2>2. /\ t.table = [table EXCEPT ![a] = None]
        /\ t.search = search \ {table[a]}
        /\ t.pidOf = pidOf
        /\ t.loginOf = [loginOf EXCEPT ![table[a]] = None]
    BY <1>2 DEF Tables, removeSession
  <2>3. t.sessOf = IF loginOf[table[a]] = None THEN sessOf
                   ELSE [sessOf EXCEPT ![loginOf[table[a]]] = None]
    BY <1>2 DEF Tables, removeSession
  <2>4. t.table = TableNo(table[a])
    BY <2>1, <2>2 DEF SessInv, TypeOK, TableNo
  <2>5. t.loginOf = LoginOfNo(table[a])
    BY <2>1, <2>2 DEF SessInv, TypeOK, LoginOfNo
  <2>6. t.sessOf = SessOfNo(table[a])
    <3>1. sessOf \in [Login -> Sess \cup {None}] /\ loginOf[table[a]] \in Login \cup {None}
      BY <2>1 DEF SessInv, TypeOK
    <3>2. CASE loginOf[table[a]] = None
      BY <2>3, <3>1, <3>2 DEF SessOfNo
    <3>3. CASE loginOf[table[a]] # None
      BY <1>2, <2>3, <3>1, <3>3 DEF SessOfNo
    <3> QED BY <3>2, <3>3
  <2> QED BY <2>2, <2>4, <2>5, <2>6
<1> QED BY <1>1, <1>2

\* The session that setProfileID removes to give profile p to s: the one at the
\* address of the profile's session.
Displaced(p) ==
    LET old == sessOf[logins[p]] IN IF old = None THEN None ELSE table[addrOf[old]]

LEMMA ProfileSet ==
    ASSUME SessInv, NEW a, NEW s \in Sess, NEW p \in Profile,
           addrOf[s] \in {None, a}, pidOf[s] = None, logins[p] # None,
           NEW t, t = setProfileID(Tables, s, p, a)
    PROVE  LET d == Displaced(p)
               l == logins[p]
           IN  /\ t.table = TableNo(d) /\ t.search = search \ {d}
               /\ t.pidOf = [pidOf EXCEPT ![s] = p]
               /\ t.loginOf = [x \in Sess |-> IF x = d THEN None
                                              ELSE IF x = s THEN l ELSE loginOf[x]]
               /\ t.sessOf = SessOfFor(d, s, l)
<1> USE QR2SessionAssumption DEF QR2SessionAssumption
<1> DEFINE l   == logins[p]
           old == sessOf[l]
           d   == Displaced(p)
           t1  == [Tables EXCEPT !.loginOf[s] = l]
           t2  == IF old = None THEN t1 ELSE removeSession(t1, addrOf[old])
<1>1. l \in Login /\ old \in Sess \cup {None} /\ (old = s => addrOf[old] = a)
  BY DEF SessInv, TypeOK, Placed
<1>2. t = [t2 EXCEPT !.sessOf[l] = s, !.pidOf[s] = p]
  BY <1>1 DEF setProfileID, Tables
<1>3. old # None => addrOf[old] \in Addr
  BY <1>1 DEF SessInv, TypeOK, Placed
<1>4. /\ t1.table = table /\ t1.search = search /\ t1.pidOf = pidOf /\ t1.sessOf = sessOf
      /\ t1.loginOf = [loginOf EXCEPT ![s] = l]
      /\ t1 = [table |-> table, search |-> search, pidOf |-> pidOf,
               loginOf |-> [loginOf EXCEPT ![s] = l], sessOf |-> sessOf]
  BY DEF Tables
<1>5. CASE d = None
  <2>1. t2 = t1
    BY <1>4, <1>5 DEF removeSession, Displaced
  <2>2. t.table = table /\ t.search = search /\ t.pidOf = [pidOf EXCEPT ![s] = p]
        /\ t.loginOf = [loginOf EXCEPT ![s] = l] /\ t.sessOf = [sessOf EXCEPT ![l] = s]
    BY <1>2, <1>4, <2>1
  <2>0. /\ table \in [Addr -> Sess \cup {None}] /\ search \subseteq Sess
        /\ loginOf \in [Sess -> Login \cup {None}] /\ sessOf \in [Login -> Sess \cup {None}]
    BY DEF SessInv, TypeOK
  <2>3. /\ table = TableNo(None) /\ search = search \ {None}
        /\ [sessOf EXCEPT ![l] = s] = SessOfFor(None, s, l)
    <3>1. table = TableNo(None) /\ search = search \ {None}
      BY <2>0 DEF TableNo
    <3> HIDE DEF l
    <3>2. [sessOf EXCEPT ![l] = s] = SessOfFor(None, s, l)
      BY <1>1, <2>0 DEF SessOfFor
    <3> QED BY <3>1, <3>2
  <2>4. [loginOf EXCEPT ![s] = l] = [x \in Sess |-> IF x = d THEN None
                                           ELSE IF x = s THEN l ELSE loginOf[x]]
    <3> HIDE DEF l, d
    <3> QED BY <1>5, <2>0
  <2>5. t.table = TableNo(d) /\ t.search = search \ {d} /\ t.sessOf = SessOfFor(d, s, l)
    BY <1>5, <2>2, <2>3
  <2> HIDE DEF t1, t2, old
  <2> QED BY <2>2, <2>4, <2>5
<1>6. CASE d # None
  <2>1. old # None /\ d = table[addrOf[old]] /\ d \in Sess
    BY <1>3, <1>6 DEF Displaced, SessInv, TypeOK
  <2>2. \A x \in Addr : table[x] = d => x = addrOf[old]
    BY <1>3, <2>1 DEF SessInv, TypeOK, Placed
  <2> DEFINE lo == [loginOf EXCEPT ![s] = l]
  <2> DEFINE so == IF lo[d] = None THEN sessOf ELSE [sessOf EXCEPT ![lo[d]] = None]
  <2> DEFINE ta == [table EXCEPT ![addrOf[old]] = None]
             sr == search \ {d}
             lq == [lo EXCEPT ![d] = None]
  <2>4. t2 = [table |-> ta, search |-> sr, pidOf |-> pidOf, loginOf |-> lq, sessOf |-> so]
    <3>1. t1 = [table |-> table, search |-> search, pidOf |-> pidOf, loginOf |-> lo,
                sessOf |-> sessOf]
      BY <1>4
    <3>2. t2 = removeSession(t1, addrOf[old])
      BY <2>1
    <3> HIDE DEF t1, t2, d, lo, l, old
    <3> QED BY <1>6, <2>1, <3>1, <3>2, RemoveFields
  <2>5. /\ t.table = ta /\ t.search = sr /\ t.pidOf = [pidOf EXCEPT ![s] = p]
        /\ t.loginOf = lq /\ t.sessOf = [so EXCEPT ![l] = s]
    <3> HIDE DEF t2, d, lo, lq, sr, ta, so, l, old
    <3> QED BY <1>2, <2>4, AssignFields
  <2> HIDE DEF t2, d, old, l
  <2>6. t.table = TableNo(d)
    BY <1>3, <2>1, <2>2, <2>5 DEF SessInv, TypeOK, TableNo
  <2>7. t.loginOf = [x \in Sess |-> IF x = d THEN None
                                    ELSE IF x = s THEN l ELSE loginOf[x]]
    BY <1>1, <2>1, <2>5 DEF SessInv, TypeOK
  <2>8. t.sessOf = SessOfFor(d, s, l)
    <3>1. sessOf \in [Login -> Sess \cup {None}] /\ loginOf \in [Sess -> Login \cup {None}]
      BY DEF SessInv, TypeOK
    <3>2. so \in [Login -> Sess \cup {None}]
      BY <1>1, <2>1, <3>1
    <3>3. \A m \in Login \ {l} : so[m] = SessOfFor(d, s, l)[m]
      BY <1>1, <2>1, <3>1 DEF SessOfFor
    <3> HIDE DEF so
    <3> QED BY <1>1, <2>5, <3>2, <3>3 DEF SessOfFor
  <2>9. t.search = search \ {d} /\ t.pidOf = [pidOf EXCEPT ![s] = p]
    BY <2>5
  <2> QED BY <2>6, <2>7, <2>8, <2>9 DEF d, l
<1> HIDE DEF d
<1> QED BY <1>5, <1>6

LEMMA ProfileSetTable ==
    ASSUME SessInv, NEW a, NEW s \in Sess, NEW p \in Profile,
           addrOf[s] \in {None, a}, pidOf[s] = None, logins[p] # None,
           NEW t, t = setProfileID(Tables, s, p, a)
    PROVE  t.table = TableNo(Displaced(p)) /\ t.pidOf = [pidOf EXCEPT ![s] = p]
<1>1. LET d == Displaced(p)
          l == logins[p]
      IN  /\ t.table = TableNo(d) /\ t.search = search \ {d}
          /\ t.pidOf = [pidOf EXCEPT ![s] = p]
          /\ t.loginOf = [x \in Sess |-> IF x = d THEN None
                                         ELSE IF x = s THEN l ELSE loginOf[x]]
          /\ t.sessOf = SessOfFor(d, s, l)
  BY ProfileSet, SMTT(30)
<1> QED BY <1>1

\* Who is at the address of the profile's session: every session of the profile
\* that is in the table, and a bystander only if a message tainted the login, or
\* the profile is loose.
LEMMA DisplacedFacts ==
    ASSUME SessInv, NEW p \in Profile, logins[p] # None
    PROVE  LET d == Displaced(p) IN
           /\ d \in Sess \cup {None} /\ (d # None => Live(d))
           /\ p \notin loose => \A x \in Sess : Live(x) /\ pidOf[x] = p => x = d
           /\ d # None /\ pidOf[d] # p => logins[p] \in tainted \/ p \in loose
<1> USE QR2SessionAssumption DEF QR2SessionAssumption
<1> DEFINE l == logins[p]
           old == sessOf[l]
<1>1. l \in Login /\ old \in Sess \cup {None}
  BY DEF SessInv, TypeOK
<1>2. CASE old = None
  BY <1>1, <1>2 DEF SessInv, LiveLinked, Displaced
<1>3. CASE old # None
  <2>1. /\ addrOf[old] \in Addr /\ Displaced(p) = table[addrOf[old]]
        /\ p \notin loose => pidOf[old] = p
    BY <1>1, <1>3 DEF SessInv, TypeOK, LoginsOwn, Placed, Displaced
  <2>2. \A x \in Sess : Live(x) => table[addrOf[x]] = x
    BY DEF SessInv, Placed, Live
  <2>3. p \notin loose => \A x \in Sess : Live(x) /\ pidOf[x] = p => x = old
    BY DEF SessInv, LiveLinked
  <2>4. l \notin tainted /\ p \notin loose => Live(old)
    BY <1>1, <1>3 DEF SessInv, CleanLinked
  <2> QED BY <1>1, <1>3, <2>1, <2>2, <2>3, <2>4 DEF SessInv, TypeOK, Live
<1> QED BY <1>2, <1>3

\* Removing a session keeps the links, also when logins end with it.
LEMMA LinksWithout ==
    ASSUME SessInv, NEW d \in Sess \cup {None}, d # None => Live(d),
           UNCHANGED <<pidOf, tainted, loose>>, loginOf' = LoginOfNo(d), sessOf' = SessOfNo(d),
           \A q \in Profile : logins'[q] \in {None, logins[q]},
           \A x \in Sess : Live(x)' <=> Live(x) /\ x # d,
           \A x \in Sess : Live(x) /\ x # d /\ pidOf[x] \notin loose \cup {None}
                              => logins'[pidOf[x]] = logins[pidOf[x]]
    PROVE  LoginsOwn' /\ LiveLinked' /\ CleanLinked'
<1> USE QR2SessionAssumption DEF QR2SessionAssumption
<1>1. \A m \in Login : sessOf'[m] \in {None, sessOf[m]}
  BY DEF SessOfNo
<1>2. \A m \in Login : sessOf'[m] # sessOf[m] => d # None /\ loginOf[d] = m
  BY DEF SessOfNo
<1>3. LoginsOwn'
  BY <1>1 DEF SessInv, TypeOK, LoginsOwn, LoginOfNo
<1>4. LiveLinked'
  <2> SUFFICES ASSUME NEW x \in Sess, Live(x), x # d, pidOf[x] \notin loose \cup {None}
               PROVE  /\ logins'[pidOf[x]] # None
                      /\ sessOf'[logins'[pidOf[x]]] = x
                      /\ loginOf'[x] \in {None, logins'[pidOf[x]]}
    BY DEF LiveLinked
  <2>1. /\ pidOf[x] \in Profile /\ logins[pidOf[x]] \in Login
        /\ sessOf[logins[pidOf[x]]] = x /\ logins'[pidOf[x]] = logins[pidOf[x]]
    BY DEF SessInv, TypeOK, LiveLinked
  <2>2. d # None => loginOf[d] # logins[pidOf[x]]
    BY <2>1 DEF SessInv, TypeOK, LiveLinked, Placed, LoginsOwn
  <2>3. loginOf'[x] = loginOf[x]
    BY DEF LoginOfNo
  <2> QED BY <1>2, <2>1, <2>2, <2>3 DEF SessInv, LiveLinked
<1>5. CleanLinked'
  <2> SUFFICES ASSUME NEW p \in Profile \ loose, NEW l \in Login, l = logins'[p],
                      l \notin tainted, NEW x \in Sess, x = sessOf'[l]
               PROVE  Live(x)' /\ loginOf'[x] = l
    BY <1>1 DEF SessInv, TypeOK, CleanLinked, Live
  <2>1. l = logins[p] /\ sessOf[l] = x
    BY <1>1
  <2>2. Live(x) /\ loginOf[x] = l
    BY <2>1 DEF SessInv, CleanLinked
  <2>3. x # d
    BY <2>2 DEF SessOfNo
  <2> QED BY <2>2, <2>3 DEF LoginOfNo
<1> QED BY <1>3, <1>4, <1>5

\* Session s gets profile p, which displaces d.
LinkStep(s, p, d) ==
    /\ pidOf[s] = None /\ logins[p] # None /\ d = Displaced(p)
    /\ UNCHANGED <<logins, loose>> /\ tainted \subseteq tainted'
    /\ pidOf' = [pidOf EXCEPT ![s] = p]
    /\ loginOf' = [x \in Sess |-> IF x = d THEN None
                                  ELSE IF x = s THEN logins[p] ELSE loginOf[x]]
    /\ sessOf' = SessOfFor(d, s, logins[p])
    /\ \A x \in Sess \ {s} : Live(x)' <=> Live(x) /\ x # d
    /\ Live(s)' \/ logins[p] \in tainted' \/ p \in loose
    /\ d = s => ~Live(s)'

\* That step keeps the links between logins and sessions, too.
LEMMA LinksWith ==
    ASSUME SessInv, NEW s \in Sess, NEW p \in Profile, NEW d, LinkStep(s, p, d)
    PROVE  LoginsOwn' /\ LiveLinked' /\ CleanLinked'
<1> USE QR2SessionAssumption DEF QR2SessionAssumption
<1>0. /\ pidOf[s] = None /\ logins[p] # None /\ d = Displaced(p)
      /\ UNCHANGED <<logins, loose>> /\ tainted \subseteq tainted'
      /\ pidOf' = [pidOf EXCEPT ![s] = p]
      /\ loginOf' = [x \in Sess |-> IF x = d THEN None
                                    ELSE IF x = s THEN logins[p] ELSE loginOf[x]]
      /\ sessOf' = SessOfFor(d, s, logins[p])
      /\ \A x \in Sess \ {s} : Live(x)' <=> Live(x) /\ x # d
      /\ Live(s)' \/ logins[p] \in tainted' \/ p \in loose
      /\ d = s => ~Live(s)'
  BY DEF LinkStep
<1> USE <1>0
<1>1. /\ d \in Sess \cup {None} /\ (d # None => Live(d))
      /\ p \notin loose => \A x \in Sess : Live(x) /\ pidOf[x] = p => x = d
  BY DisplacedFacts
<1>2. logins[p] \in Login /\ sessOf'[logins[p]] = s
  BY DEF SessInv, TypeOK, SessOfFor
<1>3. \A m \in Login \ {logins[p]} :
         sessOf'[m] = IF d # None /\ d # s /\ loginOf[d] = m THEN None ELSE sessOf[m]
  BY DEF SessOfFor
<1>4. \A q \in Profile \ loose : logins[q] # None =>
         sessOf[logins[q]] # s /\ loginOf[s] # logins[q]
  BY DEF SessInv, TypeOK, LoginsOwn
<1>5. LoginsOwn'
  <2>1. \A q \in Profile \ loose : LET l == logins[q] IN
           l # None /\ sessOf'[l] # None => pidOf'[sessOf'[l]] = q
    BY <1>2, <1>3, <1>4 DEF SessInv, TypeOK, LoginsOwn
  <2>2. \A x \in Sess, q \in Profile \ loose :
           logins[q] # None /\ loginOf'[x] = logins[q] => pidOf'[x] = q
    BY <1>2, <1>4 DEF SessInv, TypeOK, LoginsOwn
  <2> QED BY <2>1, <2>2 DEF SessInv, LoginsOwn
<1>6. LiveLinked'
  <2> SUFFICES ASSUME NEW x \in Sess, Live(x)', pidOf'[x] \notin loose \cup {None}
               PROVE  /\ logins[pidOf'[x]] # None
                      /\ sessOf'[logins[pidOf'[x]]] = x
                      /\ loginOf'[x] \in {None, logins[pidOf'[x]]}
    BY DEF LiveLinked
  <2>1. CASE x = s
    BY <1>2, <2>1 DEF SessInv, TypeOK
  <2>2. CASE x # s
    <3>1. Live(x) /\ x # d /\ pidOf'[x] = pidOf[x] /\ pidOf[x] # p /\ loginOf'[x] = loginOf[x]
      BY <1>1, <2>2 DEF SessInv, TypeOK
    <3>2. /\ pidOf[x] \in Profile /\ logins[pidOf[x]] \in Login
          /\ sessOf[logins[pidOf[x]]] = x /\ loginOf[x] \in {None, logins[pidOf[x]]}
      BY <3>1 DEF SessInv, TypeOK, LiveLinked
    <3>3. logins[pidOf[x]] # logins[p]
      BY <3>1, <3>2 DEF SessInv, LoginsOwn
    <3>4. d # None => loginOf[d] # logins[pidOf[x]]
      BY <1>1, <3>1, <3>2 DEF SessInv, TypeOK, LiveLinked, Placed, LoginsOwn
    <3> QED BY <1>3, <3>1, <3>2, <3>3, <3>4
  <2> QED BY <2>1, <2>2
<1>7. CleanLinked'
  <2>1. \A m \in Login : sessOf'[m] \in Sess \cup {None}
    BY <1>2, <1>3 DEF SessInv, TypeOK
  <2> SUFFICES ASSUME NEW q \in Profile \ loose, NEW l \in Login, l = logins[q],
                      l \notin tainted', NEW x \in Sess, x = sessOf'[l]
               PROVE  Live(x)' /\ loginOf'[x] = l
    BY <2>1 DEF SessInv, TypeOK, CleanLinked, Live
  <2>2. CASE l = logins[p]
    <3>1. \A m, n \in Profile : logins[m] = logins[n] /\ logins[m] # None => m = n
      BY DEF SessInv, LoginsOwn
    <3>2. q = p
      BY <2>2, <3>1
    <3> QED BY <1>2, <2>2, <3>2
  <2>3. CASE l # logins[p]
    <3>1. sessOf[l] = x /\ x # s
      BY <1>3, <1>4, <2>3
    <3>2. Live(x) /\ loginOf[x] = l
      BY <3>1 DEF SessInv, CleanLinked
    <3>3. x # d
      BY <1>3, <2>3, <3>1, <3>2
    <3> QED BY <3>1, <3>2, <3>3
  <2> QED BY <2>2, <2>3
<1> QED BY <1>5, <1>6, <1>7

-----------------------------------------------------------------------------
(* SessInv is inductive: the steps that only remove a session, those that    *)
(* give one its profile, and the others.                                     *)

TablesTyped ==
    /\ table   \in [Addr -> Sess \cup {None}]
    /\ search  \subseteq Sess
    /\ pidOf   \in [Sess -> Profile \cup {None}]
    /\ loginOf \in [Sess -> Login \cup {None}]
    /\ sessOf  \in [Login -> Sess \cup {None}]

OthersTyped ==
    /\ addrOf  \in [Sess -> Addr \cup {None}]
    /\ chal \subseteq Sess /\ authd \subseteq Sess /\ silent \subseteq Sess
    /\ logins  \in [Profile -> Login \cup {None}]
    /\ beat    \in [Addr -> Beats]
    /\ held \subseteq Sess /\ tainted \subseteq Login
    /\ race \in [Sess -> Races] /\ races \in 0 .. MaxRaces /\ loose \subseteq Profile

LEMMA LiveWithout ==
    ASSUME SessInv, NEW d, table' = TableNo(d), NEW x \in Sess
    PROVE  Live(x)' <=> Live(x) /\ x # d
BY QR2SessionAssumption DEF QR2SessionAssumption, Live, TableNo

LEMMA RemoveStep ==
    ASSUME SessInv, NEW a \in Addr, Become(removeSession(Tables, a)),
           UNCHANGED <<addrOf, held, tainted, race, loose>>,
           \A q \in Profile : logins'[q] \in {None, logins[q]},
           \A x \in Sess : Live(x) /\ x # table[a] /\ pidOf[x] \notin loose \cup {None}
                              => logins'[pidOf[x]] = logins[pidOf[x]]
    PROVE  /\ TablesTyped' /\ SearchAgrees' /\ Placed' /\ LoginsOwn' /\ LiveLinked' /\ CleanLinked'
           /\ RacesLoose'
<1> USE QR2SessionAssumption DEF QR2SessionAssumption
<1> DEFINE d == table[a]
<1>1. /\ table' = TableNo(d) /\ search' = search \ {d} /\ pidOf' = pidOf
      /\ loginOf' = LoginOfNo(d) /\ sessOf' = SessOfNo(d)
  BY Removed DEF Become
<1>2. d \in Sess \cup {None} /\ (d # None => Live(d))
  BY DEF SessInv, TypeOK, Live
<1>3. \A x \in Sess : Live(x)' <=> Live(x) /\ x # d
  BY <1>1, LiveWithout
<1>4. TablesTyped'
  BY <1>1 DEF SessInv, TypeOK, TablesTyped, TableNo, LoginOfNo, SessOfNo
<1>5. SearchAgrees'
  BY <1>1, <1>3 DEF SessInv, SearchAgrees
<1>6. Placed'
  BY <1>1 DEF SessInv, TypeOK, Placed, TableNo, LoginOfNo, SessOfNo
<1>7. LoginsOwn' /\ LiveLinked' /\ CleanLinked'
  <2> HIDE DEF d
  <2> QED BY <1>1, <1>2, <1>3, LinksWithout DEF d
<1>8. RacesLoose'
  BY DEF SessInv, RacesLoose
<1> QED BY <1>4, <1>5, <1>6, <1>7, <1>8

\* A session in the table, or one that a message holds, gets its profile.
LEMMA AssignStep ==
    ASSUME SessInv, NEW a, NEW s \in Sess, NEW p \in Profile,
           addrOf[s] # None, addrOf[s] = a, pidOf[s] = None, logins[p] # None,
           Become(setProfileID(Tables, s, p, a)),
           UNCHANGED <<addrOf, held, logins, race, loose>>, tainted \subseteq tainted',
           Live(s) \/ logins[p] \in tainted'
    PROVE  /\ TablesTyped' /\ SearchAgrees' /\ Placed' /\ LoginsOwn' /\ LiveLinked' /\ CleanLinked'
           /\ RacesLoose'
<1> USE QR2SessionAssumption DEF QR2SessionAssumption
<1> DEFINE d == Displaced(p)
<1>1. /\ table' = TableNo(d) /\ search' = search \ {d}
      /\ pidOf' = [pidOf EXCEPT ![s] = p]
      /\ loginOf' = [x \in Sess |-> IF x = d THEN None
                                    ELSE IF x = s THEN logins[p] ELSE loginOf[x]]
      /\ sessOf' = SessOfFor(d, s, logins[p])
  BY ProfileSet DEF Become
<1>2. /\ d \in Sess \cup {None} /\ (d # None => Live(d))
      /\ d # None /\ pidOf[d] # p => logins[p] \in tainted \/ p \in loose
  BY DisplacedFacts
<1>3. \A x \in Sess : Live(x)' <=> Live(x) /\ x # d
  BY <1>1, LiveWithout
<1> HIDE DEF d
<1>4. TablesTyped'
  BY <1>1 DEF SessInv, TypeOK, TablesTyped, TableNo, SessOfFor
<1>5. SearchAgrees'
  BY <1>1, <1>3 DEF SessInv, SearchAgrees
<1>6. Placed'
  BY <1>1 DEF SessInv, TypeOK, Placed, TableNo, SessOfFor
<1>7. (Live(s)' \/ logins[p] \in tainted' \/ p \in loose) /\ (d = s => ~Live(s)')
  BY <1>2, <1>3
<1>8. LoginsOwn' /\ LiveLinked' /\ CleanLinked'
  <2>1. d = Displaced(p)
    BY DEF d
  <2>2. LinkStep(s, p, d)
    BY <1>1, <1>3, <1>7, <2>1 DEF LinkStep
  <2> QED BY <2>2, LinksWith
<1>9. RacesLoose'
  BY DEF SessInv, RacesLoose
<1> QED BY <1>4, <1>5, <1>6, <1>8, <1>9

\* A new session gets its profile and enters the table.
LEMMA CreateStep ==
    ASSUME SessInv, NEW a \in Addr, NEW p \in Profile \cup {None}, HeartbeatCreate(a, p)
    PROVE  SessInv'
<1> USE QR2SessionAssumption DEF QR2SessionAssumption
<1> DEFINE T(s) == IF p = None THEN Tables ELSE setProfileID(Tables, s, p, a)
<1>1. PICK s \in Sess :
         /\ addrOf[s] = None
         /\ table' = [T(s).table EXCEPT ![a] = s] /\ search' = T(s).search \cup {s}
         /\ pidOf' = T(s).pidOf /\ loginOf' = T(s).loginOf /\ sessOf' = T(s).sessOf
         /\ addrOf' = [addrOf EXCEPT ![s] = a]
  BY Zenon DEF HeartbeatCreate
<1>2. /\ table[a] = None /\ (p # None => logins[p] # None)
      /\ UNCHANGED <<chal, authd, silent, logins, held, race, races, loose, tainted>>
      /\ beat' \in [Addr -> Beats]
  BY DEF HeartbeatCreate, flagVars, raceVars, SessInv, TypeOK, Beats
<1>typed. OthersTyped' /\ crashed' \in BOOLEAN
  <2>1. OthersTyped'
    BY <1>1, <1>2 DEF SessInv, TypeOK, OthersTyped
  <2>2. crashed' \in BOOLEAN
    BY Zenon DEF HeartbeatCreate, SessInv, TypeOK
  <2> QED BY <2>1, <2>2
<1>3. pidOf[s] = None /\ s \notin held /\ loginOf[s] = None /\ ~Live(s) /\ s \notin search
  BY <1>1 DEF SessInv, Placed, Live, SearchAgrees
<1>races. RacesLoose'
  BY <1>2 DEF SessInv, RacesLoose
<1>4. CASE p = None
  <2>1. /\ table' = [table EXCEPT ![a] = s] /\ search' = search \cup {s}
        /\ pidOf' = pidOf /\ loginOf' = loginOf /\ sessOf' = sessOf
    BY <1>1, <1>4 DEF Tables
  <2>2. \A x \in Sess : Live(x)' <=> Live(x) \/ x = s
    BY <1>2, <2>1 DEF Live, SessInv, TypeOK
  <2>3. TablesTyped'
    BY <2>1 DEF SessInv, TypeOK, TablesTyped
  <2>4. SearchAgrees'
    BY <2>1, <2>2 DEF SessInv, SearchAgrees
  <2>5. Placed'
    BY <1>1, <1>2, <1>3, <2>1 DEF SessInv, TypeOK, Placed
  <2>6. LoginsOwn' /\ LiveLinked'
    BY <1>2, <1>3, <2>1, <2>2 DEF SessInv, LoginsOwn, LiveLinked
  <2>7. CleanLinked'
    <3>1. \A x \in Sess : Live(x) => Live(x)'
      BY <2>2
    <3> QED BY <1>2, <2>1, <3>1 DEF SessInv, TypeOK, CleanLinked, Live
  <2> QED BY <1>typed, <1>races, <2>3, <2>4, <2>5, <2>6, <2>7, Zenon
          DEF SessInv, TypeOK, TablesTyped, OthersTyped
<1>5. CASE p # None
  <2> DEFINE d == Displaced(p)
             t == T(s)
  <2>0. p \in Profile /\ logins[p] # None /\ t = setProfileID(Tables, s, p, a)
    BY <1>2, <1>5
  <2>1. /\ t.table = TableNo(d) /\ t.search = search \ {d}
        /\ t.pidOf = [pidOf EXCEPT ![s] = p]
        /\ t.loginOf = [x \in Sess |-> IF x = d THEN None
                                       ELSE IF x = s THEN logins[p] ELSE loginOf[x]]
        /\ t.sessOf = SessOfFor(d, s, logins[p])
    <3> HIDE DEF t
    <3> QED BY <1>1, <1>3, <2>0, ProfileSet, SMTT(30)
  <2>2. d \in Sess \cup {None} /\ (d # None => Live(d)) /\ d # s
    BY <1>3, <2>0, DisplacedFacts
  <2> HIDE DEF d
  <2>3. /\ table' = [TableNo(d) EXCEPT ![a] = s] /\ search' = (search \ {d}) \cup {s}
        /\ pidOf' = [pidOf EXCEPT ![s] = p]
        /\ loginOf' = [x \in Sess |-> IF x = d THEN None
                                      ELSE IF x = s THEN logins[p] ELSE loginOf[x]]
        /\ sessOf' = SessOfFor(d, s, logins[p])
    BY <1>1, <2>1
  <2> HIDE DEF t, T
  <2>4. \A x \in Sess : Live(x)' <=> (Live(x) /\ x # d) \/ x = s
    BY <1>2, <2>2, <2>3 DEF Live, TableNo, SessInv, TypeOK
  <2>5. TablesTyped'
    BY <2>0, <2>3 DEF SessInv, TypeOK, TablesTyped, TableNo, SessOfFor
  <2>6. SearchAgrees'
    BY <2>2, <2>3, <2>4 DEF SessInv, SearchAgrees
  <2>7. Placed'
    <3>1. \A x \in Addr : table'[x] # None => addrOf'[table'[x]] = x
      <4>1. table \in [Addr -> Sess \cup {None}] /\ addrOf \in [Sess -> Addr \cup {None}]
        BY DEF SessInv, TypeOK
      <4>2. \A x \in Addr \ {a} : table'[x] # None => table'[x] = table[x] /\ table[x] # s
        BY <1>3, <2>3, <4>1 DEF TableNo, Live
      <4>3. table'[a] = s /\ addrOf' = [addrOf EXCEPT ![s] = a]
        BY <1>1, <2>3 DEF TableNo
      <4> QED BY <4>1, <4>2, <4>3 DEF SessInv, Placed
    <3>2. \A x \in Sess : addrOf'[x] = None =>
             pidOf'[x] = None /\ loginOf'[x] = None /\ x \notin held' /\ race'[x].at = "none"
      BY <1>1, <1>2, <2>3 DEF SessInv, TypeOK, Placed
    <3>3. \A m \in Login : sessOf'[m] # None => addrOf'[sessOf'[m]] # None
      BY <1>1, <2>3 DEF SessInv, TypeOK, Placed, SessOfFor
    <3> QED BY <3>1, <3>2, <3>3 DEF Placed
  <2>8. LoginsOwn' /\ LiveLinked' /\ CleanLinked'
    <3>1. UNCHANGED <<logins, loose>> /\ tainted \subseteq tainted'
      BY <1>2
    <3>2. d = Displaced(p)
      BY DEF d
    <3>3. /\ \A x \in Sess \ {s} : Live(x)' <=> Live(x) /\ x # d
          /\ Live(s)' \/ logins[p] \in tainted' \/ p \in loose
          /\ d = s => ~Live(s)'
      BY <1>3, <2>2, <2>4
    <3>4. LinkStep(s, p, d)
      BY <1>3, <2>0, <2>3, <3>1, <3>2, <3>3 DEF LinkStep
    <3> QED BY <1>3, <2>0, <3>4, LinksWith
  <2> QED BY <1>typed, <1>races, <2>5, <2>6, <2>7, <2>8, Zenon
          DEF SessInv, TypeOK, TablesTyped, OthersTyped
<1> QED BY <1>4, <1>5

\* A step that leaves the tables alone keeps what is said of them.
LEMMA TablesKept ==
    ASSUME SessInv,
           UNCHANGED <<table, search, pidOf, loginOf, sessOf>>,
           UNCHANGED <<addrOf, logins, held, race, loose, tainted>>
    PROVE  /\ TablesTyped' /\ SearchAgrees' /\ Placed' /\ LoginsOwn' /\ LiveLinked' /\ CleanLinked'
           /\ RacesLoose'
<1>1. TablesTyped'
  BY DEF SessInv, TypeOK, TablesTyped
<1>2. SearchAgrees' /\ Placed'
  BY DEF SessInv, SearchAgrees, Placed, Live
<1>3. LoginsOwn' /\ LiveLinked'
  BY DEF SessInv, LoginsOwn, LiveLinked, Live
<1>4. CleanLinked' /\ RacesLoose'
  BY DEF SessInv, CleanLinked, RacesLoose, Live
<1> QED BY <1>1, <1>2, <1>3, <1>4

LEMMA UpdateStep ==
    ASSUME SessInv, NEW a \in Addr, NEW p \in Profile \cup {None}, HeartbeatUpdate(a, p)
    PROVE  SessInv'
<1> USE QR2SessionAssumption DEF QR2SessionAssumption
<1> DEFINE s == table[a]
<1>1. /\ s \in Sess /\ addrOf[s] = a /\ Live(s) /\ (p # None => PidAccepted(s, p))
      /\ Become(IF p = None THEN Tables ELSE setProfileID(Tables, s, p, a))
  BY DEF HeartbeatUpdate, SessInv, TypeOK, Placed, Live
<1>2. UNCHANGED <<addrOf, chal, authd, logins, held, race, races, loose, tainted>>
  BY DEF HeartbeatUpdate, raceVars
<1>3. silent' \subseteq Sess /\ beat' \in [Addr -> Beats]
  BY DEF HeartbeatUpdate, SessInv, TypeOK, Beats
<1>4. crashed' \in BOOLEAN
  BY Zenon DEF HeartbeatUpdate, SessInv, TypeOK
<1>5. /\ TablesTyped' /\ SearchAgrees' /\ Placed' /\ LoginsOwn' /\ LiveLinked' /\ CleanLinked'
      /\ RacesLoose'
  <2> HIDE DEF s
  <2>1. CASE p = None \/ pidOf[s] # None
    <3>1. UNCHANGED <<table, search, pidOf, loginOf, sessOf>>
      BY <1>1, <2>1 DEF Become, Tables, setProfileID
    <3> QED BY <1>2, <3>1, TablesKept
  <2>2. CASE p # None /\ pidOf[s] = None
    <3>1. p \in Profile /\ logins[p] # None /\ Become(setProfileID(Tables, s, p, a))
      BY <1>1, <2>2 DEF PidAccepted
    <3> QED BY <1>1, <1>2, <2>2, <3>1, AssignStep
  <2> QED BY <2>1, <2>2
<1> QED BY <1>2, <1>3, <1>4, <1>5, Zenon DEF SessInv, TypeOK, TablesTyped

LEMMA UnknownStep ==
    ASSUME SessInv, NEW a \in Addr, NEW p \in Profile, HeartbeatUnknown(a, p)
    PROVE  SessInv'
<1> USE QR2SessionAssumption DEF QR2SessionAssumption
<1> DEFINE s == table[a]
<1>1. UNCHANGED <<addrOf, chal, authd, silent, logins, held, race, races, loose, tainted>>
  BY DEF HeartbeatUnknown, flagVars, raceVars
<1>2. beat' \in [Addr -> Beats]
  BY DEF HeartbeatUnknown, SessInv, TypeOK, Beats
<1>3. crashed' \in BOOLEAN
  BY Zenon DEF HeartbeatUnknown, SessInv, TypeOK
<1>4. /\ TablesTyped' /\ SearchAgrees' /\ Placed' /\ LoginsOwn' /\ LiveLinked' /\ CleanLinked'
      /\ RacesLoose'
  <2>1. CASE s = None \/ ~(loginOf[s] = None /\ PidAccepted(s, p)) \/ pidOf[s] # None
    <3>1. UNCHANGED <<table, search, pidOf, loginOf, sessOf>>
      BY <2>1 DEF HeartbeatUnknown, tableVars, Become, Tables, setProfileID
    <3> QED BY <1>1, <3>1, TablesKept, SMTT(30)
  <2>2. CASE s # None /\ loginOf[s] = None /\ PidAccepted(s, p) /\ pidOf[s] = None
    <3>1. /\ s \in Sess /\ addrOf[s] = a /\ Live(s) /\ logins[p] # None
          /\ Become(setProfileID(Tables, s, p, a))
      BY <2>2 DEF HeartbeatUnknown, PidAccepted, SessInv, TypeOK, Placed, Live
    <3> HIDE DEF s
    <3> QED BY <1>1, <2>2, <3>1, AssignStep
  <2> QED BY <2>1, <2>2
<1> QED BY <1>1, <1>2, <1>3, <1>4, Zenon DEF SessInv, TypeOK, TablesTyped

LEMMA MessageStep ==
    ASSUME SessInv, NEW s \in Sess, NEW p \in Profile, MessageSetsPid(s, p)
    PROVE  SessInv'
<1> USE QR2SessionAssumption DEF QR2SessionAssumption
<1>1. /\ UNCHANGED <<addrOf, chal, authd, silent, logins, beat, held, race, races, loose>>
      /\ tainted' = IF Live(s) THEN tainted ELSE tainted \cup {logins[p]}
  BY DEF MessageSetsPid, flagVars, raceVars
<1>2. crashed' \in BOOLEAN
  BY Zenon DEF MessageSetsPid, SessInv, TypeOK
<1>3. /\ addrOf[s] # None /\ pidOf[s] = None /\ logins[p] # None
      /\ Become(setProfileID(Tables, s, p, addrOf[s]))
  BY DEF MessageSetsPid, SessInv, Placed
<1>4. tainted' \subseteq Login
  BY <1>1, <1>3 DEF SessInv, TypeOK
<1>5. /\ TablesTyped' /\ SearchAgrees' /\ Placed' /\ LoginsOwn' /\ LiveLinked' /\ CleanLinked'
      /\ RacesLoose'
  BY <1>1, <1>3, AssignStep
<1> QED BY <1>1, <1>2, <1>4, <1>5, Zenon DEF SessInv, TypeOK, TablesTyped

\* The steps that change one table or none.
LEMMA OtherSteps ==
    ASSUME SessInv,
           \/ UNCHANGED vars
           \/ \E a \in Addr : \/ SendChallenge(a) \/ HeartbeatShutdown(a) \/ ChallengeReply(a)
                              \/ KeepAlive(a) \/ Silence(a) \/ GetSessionServers(a)
           \/ \E p \in Profile : GPLogin(p) \/ Logout(p)
           \/ \E s \in Sess : MessageStart(s) \/ MessageEnd(s) \/ AckTimeout(s)
    PROVE  SessInv'
<1> USE QR2SessionAssumption DEF QR2SessionAssumption
<1>1. crashed' \in BOOLEAN
  BY Zenon DEF SessInv, TypeOK, vars, SendChallenge, HeartbeatShutdown, ChallengeReply, KeepAlive,
     Silence, GetSessionServers, GPLogin, Logout, MessageStart, MessageEnd, AckTimeout
<1> DEFINE Links == SearchAgrees /\ Placed /\ LoginsOwn /\ LiveLinked /\ CleanLinked /\ RacesLoose
<1> SUFFICES TablesTyped' /\ OthersTyped' /\ Links'
  BY <1>1, Zenon DEF SessInv, TypeOK, TablesTyped, OthersTyped
<1>2. TablesTyped /\ OthersTyped /\ Links
  BY DEF SessInv, TypeOK, TablesTyped, OthersTyped
<1>3. ASSUME UNCHANGED <<tableVars, addrOf, logins, raceVars, tainted>>, held' \subseteq held
      PROVE  TablesTyped' /\ Links'
  BY <1>2, <1>3 DEF tableVars, raceVars, TablesTyped, SearchAgrees, Placed, LoginsOwn, LiveLinked,
     CleanLinked, RacesLoose, Live
<1>4. CASE UNCHANGED vars
  BY <1>2, <1>3, <1>4 DEF vars, tableVars, flagVars, raceVars, OthersTyped
<1>5. ASSUME NEW a \in Addr,
             SendChallenge(a) \/ ChallengeReply(a) \/ KeepAlive(a) \/ Silence(a)
      PROVE  TablesTyped' /\ OthersTyped' /\ Links'
  <2>1. TablesTyped' /\ Links'
    BY <1>3, <1>5 DEF SendChallenge, ChallengeReply, KeepAlive, Silence
  <2>2. table[a] \in Sess \cup {None}
    BY <1>2 DEF TablesTyped
  <2>3. OthersTyped'
    BY <1>2, <1>5, <2>2 DEF OthersTyped, SendChallenge, ChallengeReply, KeepAlive, Silence, Beats,
       raceVars
  <2> QED BY <2>1, <2>3
<1>6. ASSUME NEW a \in Addr, HeartbeatShutdown(a) \/ GetSessionServers(a)
      PROVE  TablesTyped' /\ OthersTyped' /\ Links'
  <2>1. /\ Become(removeSession(Tables, a))
        /\ UNCHANGED <<addrOf, chal, authd, silent, logins, beat, held, race, races, loose, tainted>>
    BY <1>6 DEF HeartbeatShutdown, GetSessionServers, flagVars, raceVars
  <2> QED BY <1>2, <2>1, RemoveStep DEF OthersTyped
<1>7. ASSUME NEW p \in Profile, GPLogin(p)
      PROVE  TablesTyped' /\ OthersTyped' /\ Links'
  <2>1. PICK l \in Login :
           /\ \A q \in Profile : logins[q] # l
           /\ sessOf[l] = None /\ l \notin tainted
           /\ \A x \in Sess : loginOf[x] # l /\ race[x].login # l
           /\ logins' = [logins EXCEPT ![p] = l]
    BY <1>7 DEF GPLogin
  <2>2. /\ logins[p] = None
        /\ UNCHANGED <<table, search, pidOf, loginOf, sessOf, addrOf, chal, authd, silent,
                       beat, held, race, races, tainted>>
    BY <1>7 DEF GPLogin, tableVars, flagVars
  <2>3. /\ loose' \subseteq loose /\ loose \ {p} \subseteq loose'
        /\ p \notin loose' => \/ p \notin loose
                            \/ \A x \in Sess : ~(Live(x) /\ pidOf[x] = p) /\ race[x].pid # p
    BY <1>7 DEF GPLogin
  <2>4. TablesTyped' /\ OthersTyped'
    BY <1>2, <2>1, <2>2, <2>3 DEF TablesTyped, OthersTyped
  <2>5. SearchAgrees' /\ Placed'
    BY <1>2, <2>2 DEF SearchAgrees, Placed, Live
  <2>6. \A q \in Profile : logins'[q] = IF q = p THEN l ELSE logins[q]
    BY <1>2, <2>1 DEF OthersTyped
  <2>7. LoginsOwn'
    BY <1>2, <2>1, <2>2, <2>3, <2>6 DEF LoginsOwn
  <2>8. LiveLinked'
    <3> SUFFICES ASSUME NEW x \in Sess, Live(x), pidOf[x] \notin loose' \cup {None}
                 PROVE  /\ logins'[pidOf[x]] # None
                        /\ sessOf[logins'[pidOf[x]]] = x
                        /\ loginOf[x] \in {None, logins'[pidOf[x]]}
      BY <2>2 DEF LiveLinked, Live
    <3>1. pidOf[x] \in Profile /\ pidOf[x] # p /\ pidOf[x] \notin loose
      BY <1>2, <2>2, <2>3 DEF TablesTyped, LiveLinked
    <3> QED BY <1>2, <2>6, <3>1 DEF LiveLinked
  <2>9. CleanLinked'
    BY <1>2, <2>1, <2>2, <2>3, <2>6 DEF CleanLinked, Live
  <2>10. RacesLoose'
    BY <1>2, <2>1, <2>2, <2>3, <2>6 DEF RacesLoose
  <2> QED BY <2>4, <2>5, <2>7, <2>8, <2>9, <2>10
<1>8. ASSUME NEW p \in Profile, Logout(p)
      PROVE  TablesTyped' /\ OthersTyped' /\ Links'
  <2> DEFINE old == sessOf[logins[p]]
  <2>1. /\ logins[p] # None /\ logins' = [logins EXCEPT ![p] = None]
        /\ UNCHANGED <<addrOf, chal, authd, silent, beat, held, race, races, loose, tainted>>
        /\ Become(IF old = None THEN Tables ELSE removeSession(Tables, addrOf[old]))
    BY <1>8 DEF Logout, flagVars, raceVars
  <2>2. OthersTyped'
    BY <1>2, <2>1 DEF OthersTyped
  <2>3. p \notin loose => \A x \in Sess : Live(x) /\ pidOf[x] = p => x = Displaced(p)
    BY <2>1, DisplacedFacts
  <2>4. \A q \in Profile : logins'[q] \in {None, logins[q]} /\ (q # p => logins'[q] = logins[q])
    BY <1>2, <2>1 DEF OthersTyped
  <2>5. CASE old = None
    <3>1. UNCHANGED <<table, search, pidOf, loginOf, sessOf>>
      BY <2>1, <2>5 DEF Become, Tables
    <3>2. p \notin loose => \A x \in Sess : ~(Live(x) /\ pidOf[x] = p)
      BY <2>3, <2>5 DEF Displaced
    <3>3. TablesTyped' /\ SearchAgrees' /\ Placed'
      BY <1>2, <2>1, <3>1 DEF TablesTyped, SearchAgrees, Placed, Live
    <3>4. LoginsOwn'
      BY <1>2, <2>1, <2>4, <3>1 DEF LoginsOwn, TablesTyped, OthersTyped
    <3>5. LiveLinked'
      BY <1>2, <2>1, <2>4, <3>1, <3>2 DEF LiveLinked, TablesTyped, Live
    <3>6. CleanLinked' /\ RacesLoose'
      BY <1>2, <2>1, <2>4, <3>1 DEF CleanLinked, RacesLoose, Live
    <3> QED BY <2>2, <3>3, <3>4, <3>5, <3>6
  <2>6. CASE old # None
    <3>1. old \in Sess /\ addrOf[old] \in Addr /\ Displaced(p) = table[addrOf[old]]
      BY <1>2, <2>1, <2>6 DEF TablesTyped, OthersTyped, Placed, Displaced
    <3>2. Become(removeSession(Tables, addrOf[old]))
      BY <2>1, <2>6
    <3>3. \A x \in Sess : Live(x) /\ x # table[addrOf[old]] /\ pidOf[x] \notin loose \cup {None}
                             => logins'[pidOf[x]] = logins[pidOf[x]]
      BY <1>2, <2>3, <2>4, <3>1 DEF TablesTyped
    <3> HIDE DEF old
    <3> QED BY <2>1, <2>2, <2>4, <3>1, <3>2, <3>3, RemoveStep
  <2> QED BY <2>5, <2>6
<1>9. ASSUME NEW s \in Sess, MessageStart(s)
      PROVE  TablesTyped' /\ OthersTyped' /\ Links'
  <2>1. addrOf[s] # None
    BY <1>2, <1>9 DEF MessageStart, Live, Placed
  <2>2. /\ held' = held \cup {s}
        /\ UNCHANGED <<table, search, pidOf, loginOf, sessOf, addrOf, chal, authd, silent, logins,
                       beat, race, races, loose, tainted>>
    BY <1>9 DEF MessageStart, tableVars, flagVars, raceVars
  <2>3. Placed' /\ TablesTyped' /\ OthersTyped'
    BY <1>2, <2>1, <2>2 DEF Placed, TablesTyped, OthersTyped
  <2>4. SearchAgrees' /\ LoginsOwn' /\ LiveLinked' /\ CleanLinked' /\ RacesLoose'
    BY <1>2, <2>2 DEF SearchAgrees, LoginsOwn, LiveLinked, CleanLinked, RacesLoose, Live
  <2> QED BY <2>3, <2>4
<1>10. ASSUME NEW s \in Sess, MessageEnd(s)
       PROVE  TablesTyped' /\ OthersTyped' /\ Links'
  BY <1>2, <1>3, <1>10 DEF MessageEnd, flagVars, raceVars, OthersTyped
<1>11. ASSUME NEW s \in Sess, AckTimeout(s)
       PROVE  TablesTyped' /\ OthersTyped' /\ Links'
  <2>1. /\ loginOf[s] \in Login /\ loginOf' = [loginOf EXCEPT ![s] = None]
        /\ tainted' = tainted \cup {loginOf[s]} /\ held' = held \ {s}
        /\ UNCHANGED <<table, search, pidOf, sessOf, addrOf, chal, authd, silent, logins, beat,
                       race, races, loose>>
    BY <1>2, <1>11 DEF AckTimeout, flagVars, raceVars, TablesTyped
  <2>2. TablesTyped' /\ OthersTyped'
    BY <1>2, <2>1 DEF TablesTyped, OthersTyped
  <2>3. SearchAgrees' /\ Placed' /\ LoginsOwn' /\ LiveLinked' /\ RacesLoose'
    BY <1>2, <2>1 DEF TablesTyped, SearchAgrees, Placed, LoginsOwn, LiveLinked, RacesLoose, Live
  <2>4. CleanLinked'
    BY <1>2, <2>1 DEF CleanLinked, Live, TablesTyped
  <2> QED BY <2>2, <2>3, <2>4
<1> QED BY <1>4, <1>5, <1>6, <1>7, <1>8, <1>9, <1>10, <1>11

LEMMA ReloadStep ==
    ASSUME SessInv, Reload
    PROVE  SessInv'
<1> USE QR2SessionAssumption DEF QR2SessionAssumption
<1>1. /\ search' = {s \in Sess : Live(s)}
      /\ loginOf' = [s \in Sess |-> IF Live(s) /\ pidOf[s] # None THEN logins[pidOf[s]] ELSE None]
      /\ sessOf' \in [Login -> Sess \cup {None}]
      /\ tainted' = {}
      /\ UNCHANGED <<table, pidOf, addrOf, chal, authd, silent, logins, beat, held, race, races,
                     loose>>
  BY DEF Reload, flagVars, raceVars
<1>2. \A l \in Login :
         /\ sessOf'[l] # None => sessOf'[l] \in Sess /\ loginOf'[sessOf'[l]] = l
         /\ \A s \in Sess : loginOf'[s] = l => sessOf'[l] # None
  BY DEF Reload
<1>3. crashed' \in BOOLEAN
  BY Zenon DEF Reload, SessInv, TypeOK
<1>4. \A s \in Sess : Live(s)' <=> Live(s)
  BY <1>1 DEF Live
<1>5. \A s \in Sess : loginOf'[s] # None =>
         Live(s) /\ pidOf[s] \in Profile /\ logins[pidOf[s]] = loginOf'[s]
  BY <1>1 DEF SessInv, TypeOK
<1>6. TablesTyped' /\ OthersTyped'
  BY <1>1 DEF SessInv, TypeOK, TablesTyped, OthersTyped
<1>0. \A l \in Login : sessOf'[l] # None =>
         sessOf'[l] \in Sess /\ pidOf[sessOf'[l]] \in Profile /\ logins[pidOf[sessOf'[l]]] = l
  BY <1>2, <1>5, QR2SessionAssumption
<1>7. SearchAgrees' /\ Placed' /\ RacesLoose'
  <2>1. \A l \in Login : sessOf'[l] # None => addrOf[sessOf'[l]] # None
    BY <1>0 DEF SessInv, Placed
  <2>2. \A s \in Sess : addrOf[s] = None => loginOf'[s] = None
    BY <1>1 DEF SessInv, Placed
  <2> QED BY <1>1, <1>4, <2>1, <2>2 DEF SessInv, SearchAgrees, Placed, RacesLoose
<1>8. LoginsOwn'
  <2>2. \A s \in Sess, p \in Profile : logins[p] # None /\ loginOf'[s] = logins[p] => pidOf[s] = p
    BY <1>5 DEF SessInv, LoginsOwn
  <2>3. \A p \in Profile : logins[p] # None /\ sessOf'[logins[p]] # None
                              => pidOf'[sessOf'[logins[p]]] = p
    BY <1>0, <1>1 DEF SessInv, TypeOK, LoginsOwn
  <2> QED BY <1>1, <2>2, <2>3 DEF SessInv, LoginsOwn
<1>9. LiveLinked'
  <2> SUFFICES ASSUME NEW s \in Sess, Live(s), pidOf[s] \notin loose \cup {None}
               PROVE  /\ logins[pidOf[s]] # None
                      /\ sessOf'[logins[pidOf[s]]] = s
                      /\ loginOf'[s] \in {None, logins[pidOf[s]]}
    BY <1>1, <1>4 DEF LiveLinked
  <2> DEFINE l == logins[pidOf[s]]
  <2>1. pidOf[s] \in Profile /\ l \in Login /\ sessOf[l] = s /\ loginOf'[s] = l
    BY <1>1 DEF SessInv, TypeOK, LiveLinked
  <2>2. sessOf'[l] \in Sess /\ loginOf'[sessOf'[l]] = l
    BY <1>1, <1>2, <2>1
  <2>3. /\ Live(sessOf'[l]) /\ pidOf[sessOf'[l]] \in Profile
        /\ logins[pidOf[sessOf'[l]]] = l
    BY <1>5, <2>1, <2>2
  <2>4. sessOf'[l] = s
    <3>1. pidOf[sessOf'[l]] = pidOf[s]
      BY <2>1, <2>3 DEF SessInv, LoginsOwn
    <3> QED BY <2>1, <2>2, <2>3, <3>1 DEF SessInv, LiveLinked
  <2> QED BY <2>1, <2>4
<1>10. CleanLinked'
  <2> SUFFICES ASSUME NEW l \in Login, NEW x \in Sess, x = sessOf'[l]
               PROVE  Live(x)' /\ loginOf'[x] = l
    BY <1>1 DEF SessInv, TypeOK, CleanLinked, Live
  <2> QED BY <1>2, <1>4, <1>5
<1> QED BY <1>3, <1>6, <1>7, <1>8, <1>9, <1>10, Zenon
        DEF SessInv, TypeOK, TablesTyped, OthersTyped

\* The steps of a setProfileID without the mutex change the links of profiles
\* that are loose from then on, and of no other.
LEMMA RaceSteps ==
    ASSUME SessInv, NEW s \in Sess, (\E p \in Profile : RaceFind(s, p)) \/ Raced(s)
    PROVE  SessInv'
<1> USE QR2SessionAssumption DEF QR2SessionAssumption
<1> DEFINE Links == SearchAgrees /\ Placed /\ LoginsOwn /\ LiveLinked /\ CleanLinked /\ RacesLoose
<1>1. crashed' \in BOOLEAN
  BY Zenon DEF SessInv, TypeOK, Raced, RaceFind, RaceLink, RaceUnlink, RaceDelete, RaceOwn, RacePid,
     RaceFatal
<1> SUFFICES TablesTyped' /\ OthersTyped' /\ Links'
  BY <1>1, Zenon DEF SessInv, TypeOK, TablesTyped, OthersTyped
<1>2. TablesTyped /\ OthersTyped /\ Links
  BY DEF SessInv, TypeOK, TablesTyped, OthersTyped
<1>3. ASSUME NEW p \in Profile, RaceFind(s, p)
      PROVE  TablesTyped' /\ OthersTyped' /\ Links'
  <2>1. /\ UNCHANGED <<table, search, pidOf, loginOf, sessOf, addrOf, chal, authd, silent, logins,
                       beat, held, tainted>>
        /\ race' = [race EXCEPT ![s] = [at |-> "found", pid |-> p, login |-> logins[p], addr |-> None]]
        /\ races < MaxRaces /\ races' = races + 1 /\ loose' = loose \cup {p}
        /\ s \in held /\ logins[p] \in Login
    BY <1>2, <1>3 DEF RaceFind, tableVars, flagVars, OthersTyped
  <2>2. TablesTyped' /\ OthersTyped'
    BY <1>2, <2>1 DEF TablesTyped, OthersTyped, Races
  <2>3. SearchAgrees' /\ Placed'
    BY <1>2, <2>1 DEF SearchAgrees, Placed, Live, OthersTyped
  <2>4. LoginsOwn' /\ LiveLinked' /\ CleanLinked'
    BY <1>2, <2>1 DEF LoginsOwn, LiveLinked, CleanLinked, Live
  <2>5. RacesLoose'
    BY <1>2, <2>1 DEF RacesLoose, LoginsOwn, OthersTyped
  <2> QED BY <2>2, <2>3, <2>4, <2>5
<1>4. CASE RaceLink(s)
  <2> DEFINE l   == race[s].login
             old == sessOf[l]
  <2>1. /\ UNCHANGED <<table, search, pidOf, sessOf, addrOf, chal, authd, silent, logins, beat, held,
                       races, tainted>>
        /\ race[s].at = "found" /\ l \in Login /\ race[s].pid \in loose
        /\ loginOf' = [loginOf EXCEPT ![s] = l]
        /\ race' = IF old = None THEN [race EXCEPT ![s].at = "removed"]
                   ELSE [race EXCEPT ![s].at = "linked", ![s].addr = addrOf[old]]
        /\ loose' = loose \cup Touched(s)
    BY <1>2, <1>4 DEF RaceLink, flagVars, RacesLoose
  <2>2. old # None => addrOf[old] \in Addr
    BY <1>2, <2>1 DEF Placed, TablesTyped, OthersTyped
  <2> HIDE DEF old
  <2>3. TablesTyped' /\ OthersTyped'
    <3>1. old = None => race' \in [Sess -> Races]
      <4> SUFFICES ASSUME old = None PROVE race' \in [Sess -> Races]
        OBVIOUS
      <4>1. race' = [race EXCEPT ![s].at = "removed"]
        BY <2>1
      <4> QED BY <1>2, <4>1 DEF OthersTyped, Races
    <3>2. old # None => race' \in [Sess -> Races]
      <4> SUFFICES ASSUME old # None PROVE race' \in [Sess -> Races]
        OBVIOUS
      <4>1. race' = [race EXCEPT ![s].at = "linked", ![s].addr = addrOf[old]]
        BY <2>1
      <4>2. addrOf[old] \in Addr
        BY <2>2
      <4>3. race \in [Sess -> Races] /\ race[s] \in Races
        BY <1>2 DEF OthersTyped
      <4>4. [race[s] EXCEPT !.at = "linked", !.addr = addrOf[old]] \in Races
        BY <4>2, <4>3 DEF Races
      <4>5. race' = [race EXCEPT ![s] = [race[s] EXCEPT !.at = "linked", !.addr = addrOf[old]]]
        BY <4>1, <4>3
      <4> QED BY <4>3, <4>4, <4>5
    <3> HIDE DEF l
    <3>3. loginOf' \in [Sess -> Login \cup {None}] /\ loose' \subseteq Profile
      BY <1>2, <2>1 DEF TablesTyped, OthersTyped, Touched
    <3>4. race' \in [Sess -> Races]
      BY <3>1, <3>2
    <3> QED BY <1>2, <2>1, <3>3, <3>4 DEF TablesTyped, OthersTyped
  <2>4. /\ \A x \in Sess \ {s} : race'[x] = race[x] /\ loginOf'[x] = loginOf[x]
        /\ race'[s].at # "none" /\ race'[s].pid = race[s].pid /\ race'[s].login = l
        /\ race'[s].at \in {"linked", "unlinked"} => race'[s].addr \in Addr
        /\ loginOf'[s] = l
    BY <1>2, <2>1, <2>2 DEF TablesTyped, OthersTyped, Races
  <2>5. SearchAgrees' /\ Placed' /\ RacesLoose'
    <3>1. addrOf[s] # None
      BY <1>2, <2>1 DEF Placed
    <3>2. SearchAgrees' /\ Placed'
      <4>1. SearchAgrees'
        BY <1>2, <2>1 DEF SearchAgrees, Live
      <4>2. \A x \in Sess : addrOf[x] = None =>
               pidOf[x] = None /\ loginOf'[x] = None /\ x \notin held /\ race'[x].at = "none"
        BY <1>2, <2>4, <3>1 DEF Placed
      <4>3. Placed'
        BY <1>2, <2>1, <4>2 DEF Placed
      <4> QED BY <4>1, <4>3
    <3>3. \A q \in Profile : logins[q] = l => q = race[s].pid
      BY <1>2, <2>1 DEF RacesLoose
    <3> HIDE DEF l
    <3>4. RacesLoose'
      <4> SUFFICES ASSUME NEW y \in Sess, race'[y].at # "none"
                   PROVE  /\ race'[y].pid \in loose'
                          /\ race'[y].login \in Login
                          /\ \A q \in Profile : logins'[q] = race'[y].login => q = race'[y].pid
                          /\ race'[y].at \in {"linked", "unlinked"} => race'[y].addr \in Addr
        BY DEF RacesLoose
      <4>0. l \in Login /\ race[s].pid \in loose' /\ loose \subseteq loose' /\ logins' = logins
        BY <2>1
      <4>1. CASE y = s
        BY <2>4, <3>3, <4>0, <4>1
      <4>2. CASE y # s
        <5>1. race'[y] = race[y] /\ RacesLoose
          BY <1>2, <2>4, <4>2
        <5> QED BY <4>0, <5>1 DEF RacesLoose
      <4> QED BY <4>1, <4>2
    <3> QED BY <3>2, <3>4
  <2>6. LoginsOwn'
    BY <1>2, <2>1, <2>4 DEF LoginsOwn, RacesLoose, Touched
  <2>7. LiveLinked'
    BY <1>2, <2>1, <2>4 DEF LiveLinked, Touched, Live, TablesTyped
  <2>8. CleanLinked'
    BY <1>2, <2>1, <2>4 DEF CleanLinked, Touched, Live, TablesTyped, OthersTyped
  <2> QED BY <2>3, <2>5, <2>6, <2>7, <2>8
<1>5. CASE RaceUnlink(s)
  <2> DEFINE x == table[race[s].addr]
             l == loginOf[x]
  <2>1. /\ UNCHANGED <<table, search, pidOf, addrOf, chal, authd, silent, logins, beat, held, races,
                       tainted>>
        /\ race[s].at = "linked" /\ race[s].addr \in Addr
    BY <1>2, <1>5 DEF RaceUnlink, flagVars, RacesLoose
  <2>2. PICK at \in {"removed", "unlinked"} : race' = [race EXCEPT ![s].at = at]
    BY <1>5 DEF RaceUnlink
  <2>3. OthersTyped'
    BY <1>2, <1>5, <2>1, <2>2 DEF RaceUnlink, OthersTyped, Races, Touched
  <2>4. loose \subseteq loose' /\ RacesLoose' /\ SearchAgrees'
    BY <1>2, <1>5, <2>1, <2>2 DEF RaceUnlink, OthersTyped, Races, RacesLoose, SearchAgrees, Live
  <2>5. CASE x = None
    <3>1. UNCHANGED <<loginOf, sessOf, loose>>
      BY <1>5, <2>5 DEF RaceUnlink
    <3>2. TablesTyped' /\ Placed' /\ LoginsOwn' /\ LiveLinked' /\ CleanLinked'
      BY <1>2, <2>1, <2>2, <3>1 DEF TablesTyped, OthersTyped, Races, Placed, LoginsOwn, LiveLinked,
         CleanLinked, Live
    <3> QED BY <2>3, <2>4, <3>2
  <2>6. CASE x # None
    <3>1. /\ x \in Sess /\ loginOf' = [loginOf EXCEPT ![x] = None]
          /\ sessOf' = IF l = None THEN sessOf ELSE [sessOf EXCEPT ![l] = None]
          /\ loose' = loose \cup Touched(x)
      BY <1>2, <1>5, <2>1, <2>6 DEF RaceUnlink, TablesTyped
    <3>2. l \in Login \cup {None}
      BY <1>2, <3>1 DEF TablesTyped
    <3> HIDE DEF x
    <3>3. /\ \A y \in Sess : loginOf'[y] = IF y = x THEN None ELSE loginOf[y]
          /\ \A m \in Login : sessOf'[m] = IF m = l THEN None ELSE sessOf[m]
          /\ TablesTyped'
      BY <1>2, <2>1, <3>1, <3>2 DEF TablesTyped
    <3> HIDE DEF l
    <3>4. \A q \in Profile : logins[q] \in Login \cup {None}
      BY <1>2 DEF OthersTyped
    <3>5. \A q \in Profile \ loose' : q \notin loose /\ pidOf[x] # q /\ (logins[q] # None => logins[q] # l)
      BY <3>1 DEF Touched, l
    <3>6. Placed'
      BY <1>2, <2>1, <2>2, <3>3 DEF Placed, OthersTyped, Races
    <3>7. LoginsOwn'
      BY <1>2, <2>1, <3>3, <3>4, <3>5 DEF LoginsOwn
    <3>8. LiveLinked'
      <4> SUFFICES ASSUME NEW y \in Sess, Live(y), pidOf[y] \notin loose' \cup {None}
                   PROVE  /\ logins[pidOf[y]] # None
                          /\ sessOf'[logins[pidOf[y]]] = y
                          /\ loginOf'[y] \in {None, logins[pidOf[y]]}
        BY <2>1 DEF LiveLinked, Live
      <4>1. pidOf[y] \in Profile \ loose'
        BY <1>2 DEF TablesTyped
      <4> QED BY <1>2, <3>3, <3>4, <3>5, <4>1 DEF LiveLinked
    <3>9. CleanLinked'
      <4> SUFFICES ASSUME NEW q \in Profile \ loose', NEW m \in Login, m = logins[q], m \notin tainted,
                          sessOf'[m] # None
                   PROVE  Live(sessOf'[m]) /\ loginOf'[sessOf'[m]] = m
        BY <2>1, <3>4 DEF CleanLinked, Live
      <4>1. m # l /\ sessOf'[m] = sessOf[m] /\ q \notin loose
        BY <3>3, <3>5
      <4>2. Live(sessOf[m]) /\ loginOf[sessOf[m]] = m /\ sessOf[m] \in Sess
        BY <1>2, <4>1 DEF CleanLinked, TablesTyped
      <4>3. pidOf[sessOf[m]] = q
        BY <1>2, <4>1, <4>2 DEF LoginsOwn
      <4> QED BY <3>3, <3>5, <4>1, <4>2, <4>3
    <3> QED BY <2>3, <2>4, <3>3, <3>6, <3>7, <3>8, <3>9
  <2> QED BY <2>5, <2>6
<1>6. CASE RaceDelete(s)
  <2> DEFINE a == race[s].addr
             x == table[a]
  <2>1. /\ UNCHANGED <<pidOf, loginOf, sessOf, addrOf, chal, authd, silent, logins, beat, held, races,
                       tainted>>
        /\ race[s].at = "unlinked" /\ a \in Addr /\ x # None
        /\ table' = [table EXCEPT ![a] = None] /\ search' = search \ {x}
        /\ race' = [race EXCEPT ![s].at = "removed"] /\ loose' = loose \cup Touched(x)
    BY <1>2, <1>6 DEF RaceDelete, flagVars, RacesLoose
  <2>2. TablesTyped' /\ OthersTyped'
    BY <1>2, <2>1 DEF TablesTyped, OthersTyped, Races, Touched
  <2>3. \A y \in Addr : table[y] = x => y = a
    BY <1>2, <2>1 DEF Placed
  <2>4. \A y \in Sess : Live(y)' <=> Live(y) /\ y # x
    BY <1>2, <2>1, <2>3 DEF Live, TablesTyped
  <2>5. SearchAgrees' /\ Placed' /\ RacesLoose'
    BY <1>2, <2>1, <2>4 DEF SearchAgrees, Placed, RacesLoose, TablesTyped, OthersTyped, Races
  <2> HIDE DEF x
  <2>6. \A q \in Profile \ loose' : q \notin loose /\ pidOf[x] # q
    BY <2>1 DEF Touched
  <2>7. LoginsOwn'
    BY <1>2, <2>1, <2>6 DEF LoginsOwn
  <2>8. LiveLinked'
    BY <1>2, <2>1, <2>4, <2>6 DEF LiveLinked
  <2>9. CleanLinked'
    <3> SUFFICES ASSUME NEW q \in Profile \ loose', NEW m, m = logins[q], m # None, m \notin tainted,
                        sessOf[m] # None
                 PROVE  Live(sessOf[m])' /\ loginOf[sessOf[m]] = m
      BY <2>1 DEF CleanLinked, Live
    <3>1. Live(sessOf[m]) /\ loginOf[sessOf[m]] = m /\ pidOf[sessOf[m]] = q
      BY <1>2, <2>6 DEF CleanLinked, LoginsOwn
    <3>2. sessOf[m] \in Sess
      BY <1>2 DEF TablesTyped, OthersTyped
    <3>3. sessOf[m] # x
      BY <2>6, <3>1
    <3>4. \A y \in Sess : y # x /\ Live(y) => Live(y)'
      BY <2>4
    <3>5. Live(sessOf[m])'
      <4>1. PICK y \in Sess : y = sessOf[m]
        BY <3>2
      <4>2. Live(y)'
        BY <3>1, <3>3, <3>4, <4>1
      <4> QED BY <2>1, <4>1, <4>2 DEF Live
    <3> QED BY <3>1, <3>5
  <2> QED BY <2>2, <2>5, <2>7, <2>8, <2>9
<1>7. CASE RaceOwn(s)
  <2> DEFINE l == race[s].login
  <2>1. /\ UNCHANGED <<table, search, pidOf, loginOf, addrOf, chal, authd, silent, logins, beat, held,
                       races, loose, tainted>>
        /\ race[s].at = "removed" /\ l \in Login /\ race[s].pid \in loose
        /\ \A q \in Profile : logins[q] = l => q = race[s].pid
        /\ sessOf' = [sessOf EXCEPT ![l] = s] /\ race' = [race EXCEPT ![s].at = "owned"]
    BY <1>2, <1>7 DEF RaceOwn, flagVars, RacesLoose
  <2> HIDE DEF l
  <2>2. TablesTyped' /\ OthersTyped'
    <3>1. race' \in [Sess -> Races]
      BY <1>2, <2>1 DEF OthersTyped, Races
    <3>2. sessOf' \in [Login -> Sess \cup {None}]
      BY <1>2, <2>1 DEF TablesTyped
    <3> QED BY <1>2, <2>1, <3>1, <3>2 DEF TablesTyped, OthersTyped
  <2>3. /\ \A m \in Login : sessOf'[m] = IF m = l THEN s ELSE sessOf[m]
        /\ \A q \in Profile \ loose : logins[q] # l
    BY <1>2, <2>1 DEF TablesTyped
  <2>4. SearchAgrees' /\ Placed' /\ RacesLoose'
    BY <1>2, <2>1, <2>3 DEF SearchAgrees, Placed, RacesLoose, OthersTyped, Races, Live
  <2>5. \A q \in Profile \ loose : logins[q] # None => sessOf'[logins[q]] = sessOf[logins[q]]
    BY <1>2, <2>3 DEF OthersTyped
  <2>6. LoginsOwn' /\ CleanLinked'
    BY <1>2, <2>1, <2>5 DEF LoginsOwn, CleanLinked, Live
  <2>7. LiveLinked'
    BY <1>2, <2>1, <2>5 DEF LiveLinked, Live, TablesTyped
  <2> QED BY <2>2, <2>4, <2>6, <2>7
<1>8. CASE RacePid(s)
  <2>1. /\ UNCHANGED <<table, search, loginOf, sessOf, addrOf, chal, authd, silent, logins, beat, held,
                       races, tainted>>
        /\ race[s].at = "owned" /\ race[s].pid \in loose
        /\ pidOf' = [pidOf EXCEPT ![s] = race[s].pid]
        /\ race' = [race EXCEPT ![s] = NoRace] /\ loose' = loose \cup Touched(s)
    BY <1>2, <1>8 DEF RacePid, flagVars, RacesLoose
  <2>2. TablesTyped' /\ OthersTyped'
    BY <1>2, <2>1 DEF TablesTyped, OthersTyped, Races, NoRace, Touched
  <2>3. /\ \A x \in Sess : pidOf'[x] = IF x = s THEN race[s].pid ELSE pidOf[x]
        /\ \A q \in Profile \ loose' : q \notin loose /\ pidOf[s] # q
    BY <1>2, <2>1 DEF TablesTyped, Touched
  <2>4. SearchAgrees' /\ Placed' /\ RacesLoose'
    BY <1>2, <2>1, <2>3 DEF SearchAgrees, Placed, RacesLoose, OthersTyped, Races, NoRace, Live
  <2>5. LoginsOwn'
    BY <1>2, <2>1, <2>3 DEF LoginsOwn, TablesTyped, OthersTyped
  <2>6. LiveLinked' /\ CleanLinked'
    BY <1>2, <2>1, <2>3 DEF LiveLinked, CleanLinked, Live
  <2> QED BY <2>2, <2>4, <2>5, <2>6
<1>9. CASE RaceFatal(s)
  BY <1>2, <1>9 DEF RaceFatal, tableVars, flagVars, raceVars, TablesTyped, OthersTyped, SearchAgrees,
     Placed, LoginsOwn, LiveLinked, CleanLinked, RacesLoose, Live
<1> QED BY <1>3, <1>4, <1>5, <1>6, <1>7, <1>8, <1>9 DEF Raced

LEMMA SessInvHolds == Spec => []SessInv
<1>1. Init => SessInv
  <2> SUFFICES ASSUME Init PROVE SessInv
    OBVIOUS
  <2>1. TablesTyped /\ OthersTyped
    BY QR2SessionAssumption DEF QR2SessionAssumption, Init, TablesTyped, OthersTyped, Beats, Races,
       NoRace
  <2>2. crashed \in BOOLEAN
    BY Zenon DEF Init
  <2>3. SearchAgrees /\ Placed /\ LoginsOwn /\ LiveLinked /\ CleanLinked /\ RacesLoose
    BY QR2SessionAssumption DEF QR2SessionAssumption, Init, SearchAgrees, Placed, LoginsOwn,
       LiveLinked, CleanLinked, RacesLoose, NoRace, Live
  <2> QED BY <2>1, <2>2, <2>3, Zenon DEF SessInv, TypeOK, TablesTyped, OthersTyped
<1>2. SessInv /\ [~crashed /\ Next]_vars => SessInv'
  <2> SUFFICES ASSUME SessInv, [~crashed /\ Next]_vars PROVE SessInv'
    OBVIOUS
  <2> QED BY CreateStep, UpdateStep, UnknownStep, MessageStep, OtherSteps, ReloadStep, RaceSteps
          DEF Next
<1> QED BY <1>1, <1>2, PTL DEF Spec

\* The session table, the search IDs and the logins agree in every reachable
\* state, however heartbeats, logins, logouts, messages with the mutex released,
\* removals of silent sessions and restarts interleave: links point both ways,
\* and a profile has one session unless a setProfileID was interleaved with
\* other steps over it (session.go:52-259, logins.go:60-88, message.go:110).
THEOREM TablesAgree == Spec => []TablesInv
<1>1. SessInv => TablesInv
  <2> SUFFICES ASSUME SessInv PROVE TypeOK /\ OneSessionLocked /\ LinksAgree /\ SearchAgrees
    BY DEF TablesInv
  <2> USE QR2SessionAssumption DEF QR2SessionAssumption
  <2>1. OneSessionLocked
    BY DEF SessInv, OneSessionLocked, LiveLinked
  <2>2. ASSUME NEW p \in Profile \ loose, NEW l, l = logins[p], l # None, l \notin tainted,
               sessOf[l] # None
        PROVE  Live(sessOf[l]) /\ loginOf[sessOf[l]] = l /\ pidOf[sessOf[l]] = p
    BY <2>2 DEF SessInv, LoginsOwn, CleanLinked
  <2>3. ASSUME NEW s \in Sess, NEW l, l = loginOf[s], Live(s), l # None, l \notin tainted,
               Touched(s) \cap loose = {}, Touched(s) # {}
        PROVE  logins[pidOf[s]] = l /\ sessOf[l] = s
    <3>1. PICK q \in Profile \ loose : q = pidOf[s] \/ (logins[q] # None /\ logins[q] = l)
      BY <2>3 DEF Touched
    <3>2. pidOf[s] = q
      BY <2>3, <3>1 DEF SessInv, LoginsOwn
    <3> QED BY <2>3, <3>1, <3>2 DEF SessInv, LiveLinked
  <2>4. LinksAgree
    BY <2>2, <2>3, Zenon DEF LinksAgree
  <2> QED BY <2>1, <2>4 DEF SessInv
<1> QED BY <1>1, SessInvHolds, PTL

\* A client's session goes only with its own shutdown or silence, when its
\* profile logs out or gets another session, when a message left the profile
\* that does so with a session that is gone, or by a removal without the mutex
\* (session.go:52-74, 241-244, 300-320, logins.go:74-88).
THEOREM BystandersAreKept == Spec => BystandersStay
<1> USE QR2SessionAssumption DEF QR2SessionAssumption
<1> DEFINE Moved(p)  == p # None /\ \E t \in Sess : pidOf[t] # p /\ pidOf'[t] = p
           Out(p)    == p # None /\ logins[p] # None /\ logins'[p] = None
           Fair(s)   == Live(s) /\ ~Live(s)' =>
                          \/ HeartbeatShutdown(addrOf[s]) \/ GetSessionServers(addrOf[s])
                          \/ \E p \in {pidOf[s]} \cup Frayed :
                                \/ Moved(p)
                                \/ Out(p)
                          \/ \E t \in Sess : RaceDelete(t)
<1>1. ASSUME SessInv, NEW x \in Sess, NEW p \in Profile, pidOf[x] = None, logins[p] # None,
             pidOf' = [pidOf EXCEPT ![x] = p], NEW s \in Sess,
             Live(s) /\ ~Live(s)' => s = Displaced(p)
      PROVE  Fair(s)
  <2>1. Moved(p)
    BY <1>1 DEF SessInv, TypeOK
  <2>2. Displaced(p) # None /\ pidOf[Displaced(p)] # p => logins[p] \in tainted \/ p \in loose
    BY <1>1, DisplacedFacts
  <2>3. Live(s) /\ ~Live(s)' => p \in {pidOf[s]} \cup Frayed
    BY <1>1, <2>2 DEF Frayed
  <2> HIDE DEF Moved
  <2> QED BY <2>1, <2>3
<1>2. ASSUME SessInv, NEW a, NEW x \in Sess, NEW p \in Profile, addrOf[x] = a, pidOf[x] = None,
             logins[p] # None, Become(setProfileID(Tables, x, p, a)), NEW s \in Sess
      PROVE  Fair(s)
  <2>1. PICK r : r = setProfileID(Tables, x, p, a)
    OBVIOUS
  <2>2. r.table = TableNo(Displaced(p)) /\ r.pidOf = [pidOf EXCEPT ![x] = p]
    BY <1>2, <2>1, ProfileSetTable
  <2>3. table' = TableNo(Displaced(p)) /\ pidOf' = [pidOf EXCEPT ![x] = p]
    BY <1>2, <2>1, <2>2 DEF Become
  <2>4. Live(s)' <=> Live(s) /\ s # Displaced(p)
    BY <1>2, <2>3, LiveWithout
  <2> HIDE DEF Fair
  <2> QED BY <1>1, <1>2, <2>3, <2>4
<1>3. ASSUME UNCHANGED table, NEW s \in Sess PROVE Fair(s)
  BY <1>3 DEF Live
<1>4. ASSUME SessInv, NEW a \in Addr, table' = TableNo(table[a]), NEW s \in Sess, Live(s), ~Live(s)'
      PROVE  s = table[a] /\ addrOf[s] = a
  BY <1>4 DEF SessInv, TypeOK, Placed, Live, TableNo
<1>5. ASSUME SessInv, [~crashed /\ Next]_vars, NEW s \in Sess PROVE Fair(s)
  <2> USE <1>5
  <2>1. ASSUME NEW a \in Addr, NEW p \in Profile \cup {None}, HeartbeatCreate(a, p)
        PROVE  Fair(s)
    <3>1. PICK x, r :
             /\ x \in Sess /\ addrOf[x] = None
             /\ r = IF p = None THEN Tables ELSE setProfileID(Tables, x, p, a)
             /\ table' = [r.table EXCEPT ![a] = x] /\ pidOf' = r.pidOf
      BY <2>1, Zenon DEF HeartbeatCreate
    <3>2. table[a] = None /\ (p # None => logins[p] # None) /\ pidOf[x] = None
      BY <2>1, <3>1 DEF HeartbeatCreate, SessInv, Placed
    <3>3. CASE p = None
      <4>1. table' = [table EXCEPT ![a] = x]
        BY <3>1, <3>3 DEF Tables
      <4>2. Live(s) => Live(s)'
        BY <3>2, <4>1 DEF Live, SessInv, TypeOK
      <4> QED BY <4>2
    <3>4. CASE p # None
      <4>1. p \in Profile /\ r = setProfileID(Tables, x, p, a)
        BY <3>1, <3>4
      <4>2. r.table = TableNo(Displaced(p)) /\ r.pidOf = [pidOf EXCEPT ![x] = p]
        BY <3>1, <3>2, <3>4, <4>1, ProfileSetTable
      <4>3. table' = [TableNo(Displaced(p)) EXCEPT ![a] = x] /\ pidOf' = [pidOf EXCEPT ![x] = p]
        BY <3>1, <4>2
      <4>4. Live(s) /\ ~Live(s)' => s = Displaced(p)
        BY <3>2, <4>3 DEF Live, TableNo
      <4> HIDE DEF Fair
      <4> QED BY <1>1, <3>1, <3>2, <3>4, <4>1, <4>3, <4>4
    <3> QED BY <3>3, <3>4
  <2>2. ASSUME NEW a \in Addr, NEW p \in Profile \cup {None}, HeartbeatUpdate(a, p)
        PROVE  Fair(s)
    <3> HIDE DEF Fair
    <3>1. CASE p = None \/ pidOf[table[a]] # None
      <4>1. UNCHANGED table
        BY <2>2, <3>1 DEF HeartbeatUpdate, Become, Tables, setProfileID
      <4> QED BY <1>3, <4>1
    <3>2. CASE p # None /\ pidOf[table[a]] = None
      <4>1. /\ table[a] \in Sess /\ p \in Profile /\ logins[p] # None /\ addrOf[table[a]] = a
            /\ Become(setProfileID(Tables, table[a], p, a))
        BY <2>2, <3>2 DEF HeartbeatUpdate, PidAccepted, SessInv, TypeOK, Placed
      <4> QED BY <1>2, <3>2, <4>1
    <3> QED BY <3>1, <3>2
  <2>3. ASSUME NEW a \in Addr, NEW p \in Profile, HeartbeatUnknown(a, p)
        PROVE  Fair(s)
    <3> DEFINE x == table[a]
    <3> HIDE DEF Fair
    <3>1. CASE x = None \/ ~(loginOf[x] = None /\ PidAccepted(x, p)) \/ pidOf[x] # None
      <4>1. x = None => UNCHANGED table
        BY <2>3 DEF HeartbeatUnknown, tableVars
      <4>2. ASSUME x # None PROVE UNCHANGED table
        <5>1. Become(IF loginOf[x] = None /\ PidAccepted(x, p)
                     THEN setProfileID(Tables, x, p, a) ELSE Tables)
          BY <2>3, <4>2, Zenon DEF HeartbeatUnknown
        <5>2. Become(Tables)
          BY <3>1, <4>2, <5>1 DEF Tables, setProfileID
        <5> QED BY <5>2 DEF Become, Tables
      <4>3. UNCHANGED table
        BY <4>1, <4>2
      <4> QED BY <1>3, <4>3
    <3>2. CASE x # None /\ loginOf[x] = None /\ PidAccepted(x, p) /\ pidOf[x] = None
      <4>1. /\ x \in Sess /\ logins[p] # None /\ addrOf[x] = a
            /\ Become(setProfileID(Tables, x, p, a))
        BY <2>3, <3>2 DEF HeartbeatUnknown, PidAccepted, SessInv, TypeOK, Placed
      <4> HIDE DEF x
      <4> QED BY <1>2, <3>2, <4>1
    <3> QED BY <3>1, <3>2
  <2>4. ASSUME NEW x \in Sess, NEW p \in Profile, MessageSetsPid(x, p)
        PROVE  Fair(s)
    <3> HIDE DEF Fair
    <3> QED BY <1>2, <2>4 DEF MessageSetsPid
  <2>5. ASSUME NEW a \in Addr, HeartbeatShutdown(a) \/ GetSessionServers(a)
        PROVE  Fair(s)
    <3>1. table' = TableNo(table[a])
      BY <2>5, Removed DEF HeartbeatShutdown, GetSessionServers, Become
    <3>2. Live(s) /\ ~Live(s)' => addrOf[s] = a
      BY <1>4, <3>1
    <3> QED BY <2>5, <3>2
  <2>6. ASSUME NEW p \in Profile, Logout(p)
        PROVE  Fair(s)
    <3>1. CASE sessOf[logins[p]] = None
      <4>1. UNCHANGED table
        BY <2>6, <3>1 DEF Logout, Become, Tables
      <4> HIDE DEF Fair
      <4> QED BY <1>3, <4>1
    <3>2. CASE sessOf[logins[p]] # None
      <4>1. addrOf[sessOf[logins[p]]] \in Addr
        BY <2>6, <3>2 DEF Logout, SessInv, TypeOK, LoginsOwn, Placed
      <4>2. table' = TableNo(table[addrOf[sessOf[logins[p]]]])
        BY <2>6, <3>2, <4>1, Removed DEF Logout, Become
      <4>3. Live(s) /\ ~Live(s)' => s = Displaced(p)
        BY <1>4, <3>2, <4>1, <4>2 DEF Displaced
      <4>4. Displaced(p) # None /\ pidOf[Displaced(p)] # p => logins[p] \in tainted \/ p \in loose
        BY <2>6, DisplacedFacts DEF Logout
      <4>5. Live(s) /\ ~Live(s)' => p \in {pidOf[s]} \cup Frayed
        BY <4>3, <4>4 DEF Frayed
      <4>6. Out(p)
        BY <2>6 DEF Logout, SessInv, TypeOK
      <4> HIDE DEF Out
      <4> QED BY <4>5, <4>6
    <3> QED BY <3>1, <3>2
  <2>7. ASSUME NEW x \in Sess, RaceDelete(x)
        PROVE  Fair(s)
    BY <2>7
  <2>8. CASE \/ UNCHANGED vars \/ Reload
             \/ \E a \in Addr : SendChallenge(a) \/ ChallengeReply(a) \/ KeepAlive(a) \/ Silence(a)
             \/ \E p \in Profile : GPLogin(p)
             \/ \E x \in Sess : MessageStart(x) \/ MessageEnd(x) \/ AckTimeout(x)
    <3>1. UNCHANGED table
      BY <2>8 DEF vars, tableVars, Reload, SendChallenge, ChallengeReply, KeepAlive, Silence,
         GPLogin, MessageStart, MessageEnd, AckTimeout
    <3> HIDE DEF Fair
    <3> QED BY <1>3, <3>1
  <2>9. ASSUME NEW x \in Sess, \/ \E p \in Profile : RaceFind(x, p)
                               \/ RaceLink(x) \/ RaceUnlink(x) \/ RaceOwn(x) \/ RacePid(x)
                               \/ RaceFatal(x)
        PROVE  Fair(s)
    <3>1. UNCHANGED table
      BY <2>9 DEF tableVars, RaceFind, RaceLink, RaceUnlink, RaceOwn, RacePid, RaceFatal
    <3> HIDE DEF Fair
    <3> QED BY <1>3, <3>1
  <2> HIDE DEF Fair
  <2> QED BY <2>1, <2>2, <2>3, <2>4, <2>5, <2>6, <2>7, <2>8, <2>9 DEF Next, Raced
<1>6. SessInv /\ [~crashed /\ Next]_vars => [\A s \in Sess : Fair(s)]_vars
  BY <1>5
<1> QED BY <1>6, SessInvHolds, PTL DEF Spec, BystandersStay

-----------------------------------------------------------------------------
(* The connection fields.  A number is never given out twice in a room, and  *)
(* a report names a number that was given out: that is why a field that was  *)
(* left behind cannot be read as another player's.                           *)

ConnTypeOK ==
    /\ roomOf \in [CPlayers -> CRooms \cup {NoRoom}]
    /\ ji     \in [CPlayers -> Index]
    /\ last   \in [CRooms -> Index]
    /\ conn   \in [CPlayers -> [Index -> {"0", "1", "2", "3"}]]

Reported(s, i) == conn[s][i] \in {"2", "3"}

\* The players of a room have different numbers, among those given out.
Numbered ==
    /\ \A s \in CPlayers : roomOf[s] # NoRoom => ji[s] >= 0 /\ ji[s] <= last[roomOf[s]]
    /\ \A s, t \in CPlayers : Together(s, t) => ji[s] # ji[t]

\* Reports are on numbers given out in the player's room.
GivenOut ==
    \A s \in CPlayers, i \in Index :
        Reported(s, i) => roomOf[s] # NoRoom /\ i <= last[roomOf[s]]

ConnInv == ConnTypeOK /\ Numbered /\ GivenOut /\ ConnTrue

LEMMA ConnStep == ConnInv /\ [ConnNext]_cvars => ConnInv'
<1> SUFFICES ASSUME ConnInv, [ConnNext]_cvars PROVE ConnInv'
  OBVIOUS
<1> USE ConnAssumption DEF ConnAssumption, ConnInv
<1>0. \A i \in Index : i \in Int /\ i >= -1 /\ i <= MaxJoin
  BY DEF Index
<1>1. CASE UNCHANGED cvars
  BY <1>1 DEF cvars, ConnTypeOK, Numbered, GivenOut, ConnTrue, Reported, Together
<1>2. ASSUME NEW s \in CPlayers, NEW t \in CPlayers, NEW value \in {"2", "3"},
             Together(s, t), Tell(s, t, value)
      PROVE  ConnInv'
  <2>1. ji[s] \in Index /\ ji[t] \in Index /\ s # t /\ ji[s] # ji[t]
    BY <1>2 DEF ConnTypeOK, Numbered, Together
  <2>2. /\ UNCHANGED <<roomOf, ji, last>>
        /\ conn' = [conn EXCEPT ![s][ji[t]] = value, ![t][ji[s]] = value]
        /\ told' = told \cup {<<s, t, ji[t]>>, <<t, s, ji[s]>>}
    BY <1>2 DEF Tell
  <2>3. /\ \A x \in CPlayers, i \in Index :
              conn'[x][i] = IF (x = s /\ i = ji[t]) \/ (x = t /\ i = ji[s]) THEN value
                            ELSE conn[x][i]
        /\ conn' \in [CPlayers -> [Index -> {"0", "1", "2", "3"}]]
    <3>1. conn \in [CPlayers -> [Index -> {"0", "1", "2", "3"}]] /\ value \in {"1", "2", "3"}
      BY DEF ConnTypeOK
    <3>2. PICK i \in Index, j \in Index : i = ji[t] /\ j = ji[s]
      BY <2>1
    <3>3. /\ conn' \in [CPlayers -> [Index -> {"0", "1", "2", "3"}]]
          /\ conn'[s] = [conn[s] EXCEPT ![i] = value] /\ conn'[t] = [conn[t] EXCEPT ![j] = value]
          /\ \A x \in CPlayers \ {s, t} : conn'[x] = conn[x]
      BY <2>1, <2>2, <3>1, <3>2
    <3> QED BY <2>1, <3>1, <3>2, <3>3
  <2>4. ConnTypeOK' /\ Numbered'
    BY <2>2, <2>3 DEF ConnTypeOK, Numbered, Together
  <2>5. GivenOut'
    BY <1>2, <2>1, <2>2, <2>3 DEF GivenOut, Reported, Numbered, Together
  <2>6. ConnTrue'
    <3> SUFFICES ASSUME NEW x \in CPlayers, NEW y \in CPlayers, Together(x, y),
                        conn'[x][ji[y]] \in {"2", "3"}
                 PROVE  <<x, y, ji[y]>> \in told'
      BY <2>2 DEF ConnTrue, Together
    <3>1. ji[y] \in Index
      BY DEF ConnTypeOK
    <3>2. CASE x = s /\ ji[y] = ji[t]
      <4>1. y = t
        BY <1>2, <3>2 DEF Numbered, Together
      <4> QED BY <2>2, <3>2, <4>1
    <3>3. CASE x = t /\ ji[y] = ji[s]
      <4>1. y = s
        BY <1>2, <3>3 DEF Numbered, Together
      <4> QED BY <2>2, <3>3, <4>1
    <3>4. CASE ~(x = s /\ ji[y] = ji[t]) /\ ~(x = t /\ ji[y] = ji[s])
      BY <2>2, <2>3, <3>1, <3>4 DEF ConnTrue
    <3> QED BY <3>2, <3>3, <3>4
  <2> QED BY <2>4, <2>5, <2>6
<1>3. ASSUME NEW s \in CPlayers, Leave(s)
      PROVE  ConnInv'
  <2>1. /\ roomOf[s] # NoRoom /\ roomOf' = [roomOf EXCEPT ![s] = NoRoom]
        /\ conn' = Cleared(conn, s, roomOf[s], ji[s])
        /\ told' = Forget(told, s)
        /\ UNCHANGED <<ji, last>>
    BY <1>3 DEF Leave
  <2>2. /\ \A x \in CPlayers \ {s}, i \in Index : conn'[x][i] \in {"0", conn[x][i]}
        /\ conn'[s] = Blank
        /\ conn' \in [CPlayers -> [Index -> {"0", "1", "2", "3"}]]
    BY <2>1 DEF Cleared, Blank, ConnTypeOK
  <2>3. ConnTypeOK'
    BY <2>1, <2>2 DEF ConnTypeOK
  <2>4. Numbered'
    BY <2>1 DEF Numbered, Together, ConnTypeOK
  <2>5. GivenOut'
    BY <2>1, <2>2 DEF GivenOut, Reported, Blank, ConnTypeOK
  <2>6. ConnTrue'
    <3> SUFFICES ASSUME NEW x \in CPlayers, NEW y \in CPlayers, Together(x, y)',
                        conn'[x][ji[y]] \in {"2", "3"}
                 PROVE  <<x, y, ji[y]>> \in told'
      BY <2>1 DEF ConnTrue
    <3>1. x # s /\ y # s /\ Together(x, y) /\ ji[y] \in Index
      BY <2>1 DEF Together, ConnTypeOK
    <3>2. <<x, y, ji[y]>> \in told
      BY <2>2, <3>1 DEF ConnTrue
    <3> QED BY <2>1, <3>1, <3>2 DEF Forget
  <2> QED BY <2>3, <2>4, <2>5, <2>6
<1>4. ASSUME NEW s \in CPlayers, NEW t \in CPlayers, NEW g \in CRooms, ResvOK(s, t, g)
      PROVE  ConnInv'
  <2> DEFINE new   == roomOf[s] = NoRoom
             is    == IF new THEN 0 ELSE ji[s]
             li    == IF new THEN 0 ELSE last[g]
             c     == [conn EXCEPT ![s][ji[t]] = "1", ![t][is] = "1"]
             moves == roomOf[t] # NoRoom /\ roomOf[t] # g
  <2>1. s # t /\ IF new THEN last[g] = -1 ELSE g = roomOf[s]
    BY <1>4 DEF ResvOK
  <2>2. is \in Index /\ is >= 0 /\ li \in Index /\ li >= 0 /\ li >= is
    BY <1>0, <2>1 DEF ConnTypeOK, Numbered, Index
  <2>3. /\ \A x \in CPlayers, i \in Index : c[x][i] \in {"1", conn[x][i]}
        /\ c \in [CPlayers -> [Index -> {"0", "1", "2", "3"}]]
    <3>1. ji[t] \in Index /\ conn \in [CPlayers -> [Index -> {"0", "1", "2", "3"}]]
      BY DEF ConnTypeOK
    <3> HIDE DEF is
    <3>2. /\ \A x \in CPlayers, k \in Index :
                c[x][k] = IF (x = s /\ k = ji[t]) \/ (x = t /\ k = is) THEN "1" ELSE conn[x][k]
          /\ c \in [CPlayers -> [Index -> {"0", "1", "2", "3"}]]
      <4>1. PICK i \in Index, j \in Index : i = ji[t] /\ j = is
        BY <2>2, <3>1
      <4>2. /\ c \in [CPlayers -> [Index -> {"0", "1", "2", "3"}]]
            /\ c[s] = [conn[s] EXCEPT ![i] = "1"] /\ c[t] = [conn[t] EXCEPT ![j] = "1"]
            /\ \A x \in CPlayers \ {s, t} : c[x] = conn[x]
        BY <2>1, <3>1, <4>1
      <4> HIDE DEF c
      <4> QED BY <2>1, <3>1, <4>1, <4>2
    <3> HIDE DEF c
    <3> QED BY <3>2
  <2>4. new => \A x \in CPlayers : roomOf[x] # g
    BY <1>0, <2>1 DEF Numbered, ConnTypeOK
  <2>5. CASE roomOf[t] = g /\ ~new
    <3>1. conn' = c /\ UNCHANGED <<roomOf, ji, last, told>>
      BY <1>4, <2>5 DEF ResvOK
    <3> HIDE DEF c
    <3>2. ConnTypeOK' /\ Numbered'
      BY <2>3, <3>1 DEF ConnTypeOK, Numbered, Together
    <3>3. GivenOut'
      BY <2>3, <3>1 DEF GivenOut, Reported
    <3>4. ConnTrue'
      BY <2>3, <3>1 DEF ConnTrue, Together, ConnTypeOK
    <3> QED BY <3>2, <3>3, <3>4
  <2>6. CASE ~(roomOf[t] = g /\ ~new)
    <3>1. /\ li < MaxJoin
          /\ roomOf' = [roomOf EXCEPT ![s] = g, ![t] = g]
          /\ ji'     = [ji EXCEPT ![s] = is, ![t] = li + 1]
          /\ last'   = [last EXCEPT ![g] = li + 1]
          /\ conn'   = IF moves THEN Cleared(c, t, roomOf[t], li + 1) ELSE c
          /\ told'   = Forget(told, t)
      BY <1>4, <2>6 DEF ResvOK
    <3>2. roomOf[t] # g /\ (new => last[g] = -1) /\ (~new => last[g] = li)
      BY <2>1, <2>4, <2>6
    <3>3. /\ \A x \in CPlayers, i \in Index : conn'[x][i] \in {"0", "1", conn[x][i]}
          /\ \A i \in Index : ~Reported(t, i)'
          /\ conn' \in [CPlayers -> [Index -> {"0", "1", "2", "3"}]]
      <4> HIDE DEF c
      <4>1. CASE moves
        <5>1. conn' = Cleared(c, t, roomOf[t], li + 1) /\ li + 1 \in Index
          BY <2>2, <3>1, <4>1 DEF Index
        <5> HIDE DEF li
        <5>2. /\ \A x \in CPlayers, i \in Index : conn'[x][i] \in {"0", c[x][i]}
              /\ \A i \in Index : conn'[t][i] = "0"
              /\ conn' \in [CPlayers -> [Index -> {"0", "1", "2", "3"}]]
          BY <2>3, <5>1 DEF Cleared, Blank
        <5> QED BY <2>3, <5>2 DEF Reported
      <4>2. CASE ~moves
        BY <2>3, <3>1, <3>2, <4>2 DEF Reported, GivenOut
      <4> QED BY <4>1, <4>2
    <3> HIDE DEF c, moves
    <3>4. ConnTypeOK'
      <4>1. li + 1 \in Index
        BY <2>2, <3>1 DEF Index
      <4> HIDE DEF li, is
      <4> QED BY <2>2, <3>1, <3>3, <4>1 DEF ConnTypeOK
    <3>5. \A x \in CPlayers : x # t /\ roomOf'[x] = g =>
             ji'[x] <= li /\ ji'[x] >= 0 /\ (x = s \/ (~new /\ roomOf[x] = g /\ ji'[x] = ji[x]))
      BY <1>0, <2>1, <2>2, <2>4, <3>1 DEF ConnTypeOK, Numbered
    <3>6. \A x \in CPlayers : x # t /\ x # s => roomOf'[x] = roomOf[x] /\ ji'[x] = ji[x]
      BY <3>1 DEF ConnTypeOK
    <3>7. roomOf'[t] = g /\ ji'[t] = li + 1 /\ roomOf'[s] = g /\ ji'[s] = is
      BY <2>1, <3>1 DEF ConnTypeOK
    <3>8. last'[g] = li + 1 /\ (\A h \in CRooms \ {g} : last'[h] = last[h]) /\ last[g] <= li
      BY <1>0, <2>2, <3>1, <3>2 DEF ConnTypeOK
    <3>9. ~new => ji[s] = is /\ roomOf[s] = g
      BY <2>1
    <3> HIDE DEF new, is, li
    <3>10. Numbered'
      <4>1. \A x \in CPlayers : roomOf'[x] # NoRoom => ji'[x] >= 0 /\ ji'[x] <= last'[roomOf'[x]]
        <5> SUFFICES ASSUME NEW x \in CPlayers, roomOf'[x] # NoRoom
                     PROVE  ji'[x] >= 0 /\ ji'[x] <= last'[roomOf'[x]]
          OBVIOUS
        <5>1. CASE x = t
          BY <1>0, <2>2, <3>7, <3>8, <5>1
        <5>2. CASE x # t /\ roomOf'[x] = g
          <6>1. ji'[x] \in Int /\ ji'[x] <= li /\ ji'[x] >= 0
            BY <1>0, <3>4, <3>5, <5>2 DEF ConnTypeOK
          <6> QED BY <1>0, <2>2, <3>8, <5>2, <6>1
        <5>3. CASE x # t /\ roomOf'[x] # g
          <6>1. roomOf'[x] = roomOf[x] /\ ji'[x] = ji[x] /\ roomOf[x] \in CRooms
            BY <3>6, <3>7, <5>3 DEF ConnTypeOK
          <6> QED BY <3>8, <5>3, <6>1 DEF Numbered
        <5> QED BY <5>1, <5>2, <5>3
      <4>2. ASSUME NEW x \in CPlayers, NEW y \in CPlayers, x # y, roomOf'[x] # NoRoom,
                   roomOf'[x] = roomOf'[y]
            PROVE  ji'[x] # ji'[y]
        <5>1. CASE x = t \/ y = t
          <6>1. \A z \in CPlayers : ji'[z] \in Int
            BY <1>0, <3>4 DEF ConnTypeOK
          <6> QED BY <1>0, <2>2, <3>5, <3>7, <4>2, <5>1, <6>1
        <5>2. CASE x # t /\ y # t /\ roomOf'[x] = g
          BY <3>5, <3>7, <3>9, <4>2, <5>2 DEF Numbered, Together
        <5>3. CASE x # t /\ y # t /\ roomOf'[x] # g
          BY <3>6, <3>7, <4>2, <5>3 DEF Numbered, Together
        <5> QED BY <5>1, <5>2, <5>3
      <4> QED BY <4>1, <4>2 DEF Numbered, Together
    <3>11. GivenOut'
      <4> SUFFICES ASSUME NEW x \in CPlayers, NEW i \in Index, Reported(x, i)'
                   PROVE  roomOf'[x] # NoRoom /\ i <= last'[roomOf'[x]]
        BY DEF GivenOut
      <4>1. x # t /\ Reported(x, i)
        BY <3>3 DEF Reported
      <4>2. roomOf[x] # NoRoom /\ i <= last[roomOf[x]] /\ roomOf'[x] = roomOf[x]
        BY <3>6, <3>7, <3>9, <4>1 DEF GivenOut, new
      <4>3. last[roomOf[x]] \in Int /\ roomOf[x] \in CRooms
        BY <1>0, <4>2 DEF ConnTypeOK
      <4> QED BY <1>0, <2>2, <3>8, <4>2, <4>3
    <3>12. ConnTrue'
      <4> SUFFICES ASSUME NEW x \in CPlayers, NEW y \in CPlayers, x # y, roomOf'[x] # NoRoom,
                          roomOf'[x] = roomOf'[y],
                          conn'[x][ji'[y]] \in {"2", "3"}
                   PROVE  <<x, y, ji'[y]>> \in told'
        BY DEF ConnTrue, Together
      <4> DEFINE i == ji'[y]
      <4>1. i \in Index
        BY <3>4 DEF ConnTypeOK
      <4>2. x # t /\ Reported(x, i)
        BY <3>3, <4>1 DEF Reported
      <4>3. roomOf[x] # NoRoom /\ i <= last[roomOf[x]] /\ roomOf'[x] = roomOf[x]
        BY <3>6, <3>7, <3>9, <4>1, <4>2 DEF GivenOut, new
      <4>4. y # t
        <5> SUFFICES ASSUME y = t PROVE FALSE
          OBVIOUS
        <5>1. i = li + 1 /\ roomOf[x] = g
          BY <3>7, <4>3
        <5>2. last[g] \in Int /\ li \in Int
          BY <1>0, <2>2 DEF ConnTypeOK
        <5> QED BY <3>8, <4>3, <5>1, <5>2
      <4>5. Together(x, y) /\ ji[y] = i
        <5>1. CASE y = s
          BY <3>5, <3>7, <3>9, <4>2, <4>3, <5>1 DEF Together
        <5>2. CASE y # s
          BY <3>6, <4>3, <4>4, <5>2 DEF Together
        <5> QED BY <5>1, <5>2
      <4>6. <<x, y, i>> \in told
        BY <4>2, <4>5 DEF ConnTrue, Reported
      <4> QED BY <3>1, <4>2, <4>4, <4>6 DEF Forget
    <3> QED BY <3>4, <3>10, <3>11, <3>12
  <2> QED BY <2>5, <2>6
<1> QED BY <1>1, <1>2, <1>3, <1>4 DEF ConnNext, TellAddr, NATNEGReport

\* A room's list shows two players as connected, or as failed to connect, only
\* if that was reported of these two while both were in the room, for any
\* number of players and rooms (group.go:117-142, session.go:107-118,
\* group_info.go:200-211).
THEOREM ConnectionsTrue == ConnInit /\ [][ConnNext]_cvars => []ConnTrue
<1>1. ConnInit => ConnInv
  BY ConnAssumption DEF ConnAssumption, ConnInit, ConnInv, ConnTypeOK, Numbered, GivenOut, ConnTrue,
     Reported, Together, Blank, Index
<1>2. ConnInv => ConnTrue
  BY DEF ConnInv
<1> QED BY <1>1, <1>2, ConnStep, PTL

=============================================================================
