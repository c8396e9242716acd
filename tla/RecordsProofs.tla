--------------------------- MODULE RecordsProofs ----------------------------
(***************************************************************************)
(* Proofs about what the server keeps of accounts and of the races in a    *)
(* room (modules Accounts, RaceStats).                                     *)
(***************************************************************************)
EXTENDS Accounts, RaceStats, FiniteSetTheorems, TLAPS

-----------------------------------------------------------------------------
(* Accounts.  What a login has read stays true of its account from statement *)
(* to statement, as long as nothing interferes with it.                      *)

UserRows == [user : AUsers, devs : SUBSET ADevices, ban : BOOLEAN]

CallPCs == {"inuse", "insert", "read", "device", "csnum", "change", "update", "ban", "done"}

CallTyped(c) ==
    /\ c.acc \in AUsers
    /\ c.want \in AKnownIDs \cup {NoID}
    /\ c.dev \in ADevices
    /\ c.devs \subseteq ADevices
    /\ c.pc \in {"inuse", "change", "update"} => c.want # NoID
    /\ c.pc \in {"device", "csnum", "change", "update", "ban", "done"} => c.id \in AIDs

Calls ==
    [pc : CallPCs \cup {"idle"}, acc : AUsers \cup {NoID}, want : AKnownIDs \cup {NoID},
     dev : ADevices \cup {NoID}, id : AIDs \cup {NoID}, devs : SUBSET ADevices]

AccountsTypeOK ==
    /\ users \in [AIDs -> UserRows \cup {NoUser}]
    /\ calls \in [ALogins -> Calls]
    /\ \A l \in ALogins : calls[l].pc # "idle" => CallTyped(calls[l])
    /\ unused \subseteq ASequence
    /\ \A p \in unused : users[p] = NoUser
    /\ untouched \subseteq AUsers

\* What call c knows of its account.
Progress(c) ==
    /\ c.pc \in {"inuse", "insert"} => RowsOf(c.acc) = {} /\ c.devs = {c.dev}
    /\ c.pc = "device" => c.id \in RowsOf(c.acc) /\ c.devs = users[c.id].devs
    /\ c.pc \in {"csnum", "change", "update", "ban", "done"} =>
          c.id \in RowsOf(c.acc) /\ c.dev \in users[c.id].devs

\* The account has one row at most and one login at most, which is right.
Intact(a) ==
    /\ \A p, q \in RowsOf(a) : p = q
    /\ \A l, m \in Busy(a) : l = m
    /\ \A l \in Busy(a) : Progress(calls[l])

AccountsInv == AccountsTypeOK /\ \A a \in untouched : Intact(a)

\* An account whose rows, device lists and calls a step leaves alone.
LEMMA Bystander ==
    ASSUME AccountsInv, NEW a \in AUsers, Intact(a),
           \A p \in AIDs : /\ (Exists(p) /\ users[p].user = a) <=> (Exists(p) /\ users[p].user = a)'
                           /\ Exists(p) /\ users[p].user = a => users'[p].devs = users[p].devs,
           \A m \in ALogins : /\ m \in Busy(a) <=> m \in Busy(a)'
                              /\ m \in Busy(a) => calls'[m] = calls[m]
    PROVE  Intact(a)'
<1>1. RowsOf(a)' = RowsOf(a)
  BY DEF RowsOf
<1>2. Busy(a)' = Busy(a)
  BY DEF Busy
<1>3. ASSUME NEW l \in Busy(a) PROVE Progress(calls[l])'
  <2>1. calls'[l] = calls[l] /\ calls[l].acc = a /\ Progress(calls[l])
    BY <1>3 DEF Intact, Busy
  <2>2. \A p \in RowsOf(a) : users'[p].devs = users[p].devs
    BY DEF RowsOf
  <2> QED BY <1>1, <2>1, <2>2 DEF Progress
<1> QED BY <1>1, <1>2, <1>3 DEF Intact

\* A step that only takes call l one statement further.
LEMMA CallStep ==
    ASSUME AccountsInv, NEW l \in ALogins, NEW c \in Calls,
           UNCHANGED <<users, unused>>, untouched' \subseteq untouched,
           calls' = [calls EXCEPT ![l] = c],
           \/ c.pc = "idle"
           \/ /\ calls[l].pc # "idle" /\ c.acc = calls[l].acc /\ CallTyped(c)
              /\ c.acc \in untouched => Progress(c)
    PROVE  AccountsInv'
<1>1. AccountsTypeOK'
  BY DEF AccountsInv, AccountsTypeOK
<1>2. ASSUME NEW a \in untouched' PROVE Intact(a)'
  <2>1. Intact(a) /\ a \in untouched /\ a \in AUsers
    BY <1>2 DEF AccountsInv, AccountsTypeOK
  <2>2. RowsOf(a)' = RowsOf(a) /\ \A b : RowsOf(b)' = RowsOf(b)
    BY DEF RowsOf, Exists
  <2>3. Busy(a)' \subseteq Busy(a)
    BY DEF Busy, AccountsInv, AccountsTypeOK
  <2>4. \A m \in Busy(a)' : calls'[m] = calls[m] \/ (m = l /\ calls'[m] = c /\ c.acc = a /\ Progress(c))
    BY <2>1 DEF Busy, AccountsInv, AccountsTypeOK
  <2>5. \A m \in Busy(a)' : Progress(calls'[m])
    BY <2>1, <2>3, <2>4 DEF Intact
  <2>6. \A m \in Busy(a)' : Progress(calls[m])'
    BY <2>2, <2>5 DEF Progress
  <2> QED BY <2>1, <2>2, <2>3, <2>6 DEF Intact
<1> QED BY <1>1, <1>2 DEF AccountsInv

\* The statements that leave the table alone.
LEMMA ReadingSteps ==
    ASSUME AccountsInv, NEW l \in ALogins, NEW b \in BOOLEAN,
           \/ CreateCheck(l) \/ ReadUser(l) \/ ChangeCheck(l) \/ Csnum(l, b)
           \/ SearchUserBan(l) \/ EndLogin(l)
    PROVE  AccountsInv'
<1> USE AccountsAssumption DEF AccountsAssumption
<1> DEFINE c == calls[l]
<1>1. /\ c \in Calls /\ (c.pc # "idle" => CallTyped(c))
      /\ c.pc # "idle" /\ c.acc \in untouched => Progress(c)
  BY DEF AccountsInv, AccountsTypeOK, Intact, Busy
<1>2. NoCall \in Calls /\ NoCall.pc = "idle"
  BY DEF NoCall, Calls
<1>3. CASE Fails(l) /\ UNCHANGED <<users, unused, untouched>>
  BY <1>2, <1>3, CallStep DEF Fails
<1>4. ASSUME NEW pc \in CallPCs, Goto(l, pc), UNCHANGED <<users, unused, untouched>>, c.pc # "idle",
             CallTyped([c EXCEPT !.pc = pc]),
             c.acc \in untouched => Progress([c EXCEPT !.pc = pc])
      PROVE  AccountsInv'
  <2>1. /\ [c EXCEPT !.pc = pc] \in Calls
        /\ [c EXCEPT !.pc = pc].acc = c.acc
        /\ calls' = [calls EXCEPT ![l] = [c EXCEPT !.pc = pc]]
    BY <1>1, <1>4 DEF Goto, Calls, CallPCs
  <2> QED BY <1>4, <2>1, CallStep
<1>5. CASE CreateCheck(l)
  <2>1. /\ c.pc = "inuse" /\ UNCHANGED <<users, unused, untouched>>
        /\ Fails(l) \/ Goto(l, "insert")
    BY <1>5 DEF CreateCheck
  <2>2. CallTyped([c EXCEPT !.pc = "insert"]) /\ "insert" \in CallPCs
    BY <1>1, <2>1 DEF CallTyped, Calls, CallPCs
  <2>3. c.acc \in untouched => Progress([c EXCEPT !.pc = "insert"])
    BY <1>1, <2>1 DEF Progress, Calls
  <2> QED BY <1>3, <1>4, <2>1, <2>2, <2>3
<1>6. CASE Csnum(l, b)
  <2>1. /\ c.pc = "csnum" /\ UNCHANGED <<users, unused, untouched>>
        /\ Fails(l) \/ (c.want # NoID /\ Goto(l, "change")) \/ Goto(l, "ban")
    BY <1>6 DEF Csnum
  <2>2. /\ c.want # NoID => CallTyped([c EXCEPT !.pc = "change"])
        /\ CallTyped([c EXCEPT !.pc = "ban"]) /\ "ban" \in CallPCs /\ "change" \in CallPCs
    BY <1>1, <2>1 DEF CallTyped, Calls, CallPCs
  <2>3. c.acc \in untouched => /\ Progress([c EXCEPT !.pc = "change"])
                               /\ Progress([c EXCEPT !.pc = "ban"])
    BY <1>1, <2>1 DEF Progress, Calls
  <2> QED BY <1>3, <1>4, <2>1, <2>2, <2>3
<1>7. CASE ChangeCheck(l)
  <2>1. /\ c.pc = "change" /\ UNCHANGED <<users, unused, untouched>>
        /\ Goto(l, "ban") \/ Goto(l, "update")
    BY <1>7 DEF ChangeCheck
  <2>2. /\ CallTyped([c EXCEPT !.pc = "update"]) /\ CallTyped([c EXCEPT !.pc = "ban"])
        /\ "ban" \in CallPCs /\ "update" \in CallPCs
    BY <1>1, <2>1 DEF CallTyped, Calls, CallPCs
  <2>3. c.acc \in untouched => /\ Progress([c EXCEPT !.pc = "update"])
                               /\ Progress([c EXCEPT !.pc = "ban"])
    BY <1>1, <2>1 DEF Progress, Calls
  <2> QED BY <1>4, <2>1, <2>2, <2>3
<1>8. CASE SearchUserBan(l)
  <2>1. /\ c.pc = "ban" /\ UNCHANGED <<users, unused, untouched>>
        /\ Fails(l) \/ Goto(l, "done")
    BY <1>8 DEF SearchUserBan
  <2>2. CallTyped([c EXCEPT !.pc = "done"]) /\ "done" \in CallPCs
    BY <1>1, <2>1 DEF CallTyped, Calls, CallPCs
  <2>3. c.acc \in untouched => Progress([c EXCEPT !.pc = "done"])
    BY <1>1, <2>1 DEF Progress, Calls
  <2> QED BY <1>3, <1>4, <2>1, <2>2, <2>3
<1>9. CASE ReadUser(l)
  <2>1. c.pc = "read" /\ UNCHANGED <<users, unused, untouched>>
    BY <1>9 DEF ReadUser
  <2>2. CASE Fails(l)
    BY <1>3, <2>1, <2>2
  <2>3. ASSUME NEW p \in RowsOf(c.acc),
               calls' = [calls EXCEPT ![l].pc = "device", ![l].id = p, ![l].devs = users[p].devs]
        PROVE  AccountsInv'
    <3> DEFINE d == [c EXCEPT !.pc = "device", !.id = p, !.devs = users[p].devs]
    <3>1. p \in AIDs /\ users[p].devs \subseteq ADevices
      BY <2>3 DEF RowsOf, Exists, AccountsInv, AccountsTypeOK, UserRows
    <3>2. /\ d \in Calls /\ d.acc = c.acc /\ d.pc = "device" /\ d.id = p /\ d.devs = users[p].devs
          /\ d.want = c.want /\ d.dev = c.dev
      BY <1>1, <3>1 DEF Calls, CallPCs
    <3>3. calls' = [calls EXCEPT ![l] = d]
      BY <2>3 DEF AccountsInv, AccountsTypeOK, Calls
    <3> HIDE DEF d
    <3>4. CallTyped(d) /\ Progress(d)
      BY <1>1, <2>1, <2>3, <3>1, <3>2 DEF CallTyped, Progress
    <3> QED BY <2>1, <3>2, <3>3, <3>4, CallStep
  <2> QED BY <1>9, <2>2, <2>3 DEF ReadUser
<1>10. CASE EndLogin(l)
  BY <1>3, <1>10 DEF EndLogin
<1> QED BY <1>5, <1>6, <1>7, <1>8, <1>9, <1>10

\* A login begins: it is the only one of its account, or the account is touched.
LEMMA StartStep ==
    ASSUME AccountsInv, NEW l \in ALogins, NEW a \in AUsers, NEW want \in AKnownIDs \cup {NoID},
           NEW dev \in ADevices, StartLogin(l, a, want, dev)
    PROVE  AccountsInv'
<1> USE AccountsAssumption DEF AccountsAssumption
<1>1. PICK c :
         /\ c = [pc |-> IF RowsOf(a) # {} THEN "read" ELSE IF want = NoID THEN "insert" ELSE "inuse",
                 acc |-> a, want |-> want, dev |-> dev, id |-> want, devs |-> {dev}]
         /\ calls[l].pc = "idle" /\ calls' = [calls EXCEPT ![l] = c]
         /\ untouched' = IF Busy(a) # {} THEN untouched \ {a} ELSE untouched
         /\ UNCHANGED <<users, unused>>
  BY DEF StartLogin
<1>2. /\ c \in Calls /\ c.acc = a /\ c.pc \in {"read", "insert", "inuse"} /\ CallTyped(c)
      /\ c.devs = {c.dev} /\ (c.pc # "read" => RowsOf(a) = {})
  BY <1>1 DEF Calls, CallTyped, CallPCs, AIDs
<1>3. AccountsTypeOK'
  BY <1>1, <1>2 DEF AccountsInv, AccountsTypeOK
<1>4. ASSUME NEW b \in untouched' PROVE Intact(b)'
  <2>1. Intact(b) /\ b \in AUsers /\ \A x : RowsOf(x)' = RowsOf(x)
    BY <1>1, <1>4 DEF AccountsInv, AccountsTypeOK, RowsOf, Exists
  <2>2. CASE b # a
    <3>1. \A m \in ALogins : m \in Busy(b) <=> m \in Busy(b)'
      BY <1>1, <1>2, <2>2 DEF Busy, AccountsInv, AccountsTypeOK
    <3>2. \A m \in ALogins : m \in Busy(b) => calls'[m] = calls[m]
      BY <1>1 DEF Busy, AccountsInv, AccountsTypeOK
    <3> QED BY <1>1, <2>1, <3>1, <3>2, Bystander DEF Exists
  <2>3. CASE b = a
    <3>1. Busy(a) = {} /\ Busy(a)' = {l} /\ calls'[l] = c
      BY <1>1, <1>2, <1>4, <2>3 DEF Busy, AccountsInv, AccountsTypeOK
    <3>2. Progress(c)'
      BY <1>2, <2>1 DEF Progress
    <3> QED BY <2>1, <2>3, <3>1, <3>2 DEF Intact
  <2> QED BY <2>2, <2>3
<1> QED BY <1>3, <1>4 DEF AccountsInv

LEMMA InsertStep ==
    ASSUME AccountsInv, NEW l \in ALogins, Insert(l)
    PROVE  AccountsInv'
<1> USE AccountsAssumption DEF AccountsAssumption
<1>1. PICK c \in Calls : c = calls[l]
  BY DEF AccountsInv, AccountsTypeOK
<1>2. c.pc = "insert" /\ UNCHANGED untouched /\ CallTyped(c)
  BY <1>1 DEF Insert, AccountsInv, AccountsTypeOK
<1>3. CASE Fails(l) /\ UNCHANGED <<users, unused>>
  <2>1. NoCall \in Calls /\ NoCall.pc = "idle"
    BY DEF NoCall, Calls
  <2> QED BY <1>2, <1>3, <2>1, CallStep DEF Fails
<1>4. ASSUME NEW p \in AIDs, users[p] = NoUser, p \in unused \/ p \in AKnownIDs,
             users' = [users EXCEPT ![p] = [user |-> c.acc, devs |-> c.devs, ban |-> FALSE]],
             unused' = unused \ {p},
             calls' = [calls EXCEPT ![l].pc = "ban", ![l].id = p]
      PROVE  AccountsInv'
  <2>1. PICK r \in UserRows : r = [user |-> c.acc, devs |-> c.devs, ban |-> FALSE]
    BY <1>2 DEF UserRows, CallTyped
  <2>2. PICK d : d = [c EXCEPT !.pc = "ban", !.id = p]
    OBVIOUS
  <2>3. /\ d \in Calls /\ d.acc = c.acc /\ d.pc = "ban" /\ d.id = p /\ d.devs = c.devs
        /\ d.want = c.want /\ d.dev = c.dev
    BY <1>4, <2>2 DEF Calls, CallPCs
  <2>4. calls' = [calls EXCEPT ![l] = d] /\ users' = [users EXCEPT ![p] = r]
    BY <1>1, <1>4, <2>1, <2>2 DEF AccountsInv, AccountsTypeOK, Calls
  <2>5. CallTyped(d)
    BY <1>2, <1>4, <2>3 DEF CallTyped
  <2>6. r # NoUser /\ r.user = c.acc /\ r.devs = c.devs /\ c.acc \in AUsers
    BY <1>2, <2>1 DEF NoUser, CallTyped
  <2>7. AccountsTypeOK'
    <3>1. users' \in [AIDs -> UserRows \cup {NoUser}]
      BY <2>1, <2>4 DEF AccountsInv, AccountsTypeOK
    <3>2. calls' \in [ALogins -> Calls] /\ \A m \in ALogins : calls'[m].pc # "idle" => CallTyped(calls'[m])
      BY <2>3, <2>4, <2>5 DEF AccountsInv, AccountsTypeOK
    <3>3. unused' \subseteq ASequence /\ \A q \in unused' : users'[q] = NoUser
      BY <1>4, <2>4 DEF AccountsInv, AccountsTypeOK, AIDs
    <3> QED BY <1>2, <3>1, <3>2, <3>3 DEF AccountsInv, AccountsTypeOK
  <2>8. ASSUME NEW a \in untouched PROVE Intact(a)'
    <3>1. Intact(a) /\ a \in AUsers
      BY DEF AccountsInv, AccountsTypeOK
    <3>2. CASE a # c.acc
      <4>1. \A q \in AIDs : /\ (Exists(q) /\ users[q].user = a) <=> (Exists(q) /\ users[q].user = a)'
                            /\ Exists(q) /\ users[q].user = a => users'[q].devs = users[q].devs
        BY <1>4, <2>4, <2>6, <3>2 DEF Exists, AccountsInv, AccountsTypeOK
      <4>2. \A m \in ALogins : /\ m \in Busy(a) <=> m \in Busy(a)'
                               /\ m \in Busy(a) => calls'[m] = calls[m]
        BY <1>1, <2>3, <2>4, <3>2 DEF Busy, AccountsInv, AccountsTypeOK
      <4> QED BY <3>1, <4>1, <4>2, Bystander
    <3>3. CASE a = c.acc
      <4>1. RowsOf(a) = {} /\ c.devs = {c.dev} /\ Busy(a) = {l}
        BY <1>1, <1>2, <3>1, <3>3 DEF Intact, Busy, Progress
      <4>2. RowsOf(a)' = {p} /\ users'[p].devs = c.devs
        <5>1. users'[p] = r /\ \A q \in AIDs \ {p} : users'[q] = users[q]
          BY <2>4 DEF AccountsInv, AccountsTypeOK
        <5>2. \A q \in AIDs : ~(users[q] # NoUser /\ users[q].user = a)
          BY <4>1 DEF RowsOf, Exists
        <5> QED BY <2>6, <3>3, <5>1, <5>2 DEF RowsOf, Exists
      <4>3. Busy(a)' = {l} /\ calls'[l] = d
        BY <1>1, <1>2, <2>3, <2>4, <3>3, <4>1 DEF Busy, AccountsInv, AccountsTypeOK
      <4>4. Progress(d)'
        BY <2>3, <3>3, <4>1, <4>2 DEF Progress
      <4> QED BY <4>2, <4>3, <4>4 DEF Intact
    <3> QED BY <3>2, <3>3
  <2> QED BY <1>2, <2>7, <2>8 DEF AccountsInv
<1>5. CASE ~(Fails(l) /\ UNCHANGED <<users, unused>>)
  <2>1. ~(c.want # NoID /\ Exists(c.want))
    BY <1>1, <1>5 DEF Insert
  <2>2. PICK p \in IF c.want = NoID THEN unused ELSE {c.want} :
           /\ users' = [users EXCEPT ![p] = [user |-> c.acc, devs |-> c.devs, ban |-> FALSE]]
           /\ unused' = unused \ {p}
           /\ calls' = [calls EXCEPT ![l].pc = "ban", ![l].id = p]
    BY <1>1, <2>1, Zenon DEF Insert
  <2>3. p \in AIDs /\ users[p] = NoUser /\ (p \in unused \/ p \in AKnownIDs)
    BY <1>2, <2>1, <2>2 DEF AccountsInv, AccountsTypeOK, AIDs, Exists, CallTyped
  <2> QED BY <1>4, <2>2, <2>3
<1> QED BY <1>3, <1>5

\* The device list that was read is written back, perhaps to another account.
LEMMA DeviceStep ==
    ASSUME AccountsInv, NEW l \in ALogins, NEW b \in BOOLEAN, Device(l, b)
    PROVE  AccountsInv'
<1> USE AccountsAssumption DEF AccountsAssumption
<1>1. PICK c \in Calls : c = calls[l]
  BY DEF AccountsInv, AccountsTypeOK
<1>2. /\ c.pc = "device" /\ CallTyped(c) /\ c.id \in AIDs /\ UNCHANGED unused
      /\ untouched' = IF users[c.id].user # c.acc THEN untouched \ {users[c.id].user} ELSE untouched
  BY <1>1 DEF Device, AccountsInv, AccountsTypeOK, CallTyped
<1>3. c.acc \in untouched => /\ c.id \in RowsOf(c.acc) /\ c.devs = users[c.id].devs
  BY <1>1, <1>2 DEF AccountsInv, Intact, Busy, Progress, CallTyped
<1>4. CASE Fails(l) /\ UNCHANGED users
  <2>1. NoCall \in Calls /\ NoCall.pc = "idle"
    BY DEF NoCall, Calls
  <2> QED BY <1>2, <1>4, <2>1, CallStep DEF Fails
<1>5. CASE c.dev \in c.devs /\ Goto(l, "csnum") /\ UNCHANGED users
  <2>1. PICK d : d = [c EXCEPT !.pc = "csnum"]
    OBVIOUS
  <2>2. /\ d \in Calls /\ d.acc = c.acc /\ d.pc = "csnum" /\ d.id = c.id /\ d.devs = c.devs
        /\ d.want = c.want /\ d.dev = c.dev
    BY <2>1 DEF Calls, CallPCs
  <2>3. calls' = [calls EXCEPT ![l] = d] /\ untouched' \subseteq untouched
    BY <1>1, <1>2, <1>5, <2>1 DEF Goto
  <2>4. CallTyped(d) /\ (d.acc \in untouched => Progress(d))
    BY <1>2, <1>3, <1>5, <2>2 DEF CallTyped, Progress
  <2> QED BY <1>1, <1>2, <1>5, <2>2, <2>3, <2>4, CallStep
<1>6. ASSUME calls' = [calls EXCEPT ![l].pc = "csnum", ![l].devs = c.devs \cup {c.dev}],
             users' = IF Exists(c.id) THEN [users EXCEPT ![c.id].devs = c.devs \cup {c.dev}] ELSE users
      PROVE  AccountsInv'
  <2>1. PICK list \in SUBSET ADevices : list = c.devs \cup {c.dev}
    BY <1>2 DEF CallTyped
  <2>2. PICK d : d = [c EXCEPT !.pc = "csnum", !.devs = list]
    OBVIOUS
  <2>3. /\ d \in Calls /\ d.acc = c.acc /\ d.pc = "csnum" /\ d.id = c.id /\ d.devs = list
        /\ d.want = c.want /\ d.dev = c.dev
    BY <2>1, <2>2 DEF Calls, CallPCs
  <2>4. calls' = [calls EXCEPT ![l] = d]
    BY <1>1, <1>6, <2>1, <2>2 DEF AccountsInv, AccountsTypeOK, Calls
  <2>5. CallTyped(d)
    BY <1>2, <2>1, <2>3 DEF CallTyped
  <2>6. /\ users' \in [AIDs -> UserRows \cup {NoUser}]
        /\ \A q \in AIDs : /\ users'[q] = NoUser <=> users[q] = NoUser
                           /\ users'[q].user = users[q].user
                           /\ q # c.id => users'[q] = users[q]
        /\ users[c.id] # NoUser => users'[c.id].devs = list
    <3>1. users \in [AIDs -> UserRows \cup {NoUser}] /\ \A r \in UserRows : r # NoUser
      BY DEF AccountsInv, AccountsTypeOK, UserRows, NoUser
    <3>2. CASE users[c.id] = NoUser
      BY <1>6, <3>1, <3>2 DEF Exists
    <3>3. CASE users[c.id] # NoUser
      <4>1. PICK r : r = [users[c.id] EXCEPT !.devs = list]
        OBVIOUS
      <4>2. users[c.id] \in UserRows /\ r \in UserRows /\ r.user = users[c.id].user /\ r.devs = list
        BY <1>2, <3>1, <3>3, <4>1 DEF UserRows
      <4>3. users' = [users EXCEPT ![c.id] = r]
        BY <1>6, <2>1, <3>3, <4>1 DEF Exists
      <4> QED BY <1>2, <3>1, <3>3, <4>2, <4>3
    <3> QED BY <3>2, <3>3
  <2>7. AccountsTypeOK'
    BY <1>2, <2>3, <2>4, <2>5, <2>6 DEF AccountsInv, AccountsTypeOK, AIDs
  <2>8. ASSUME NEW a \in untouched' PROVE Intact(a)'
    <3>1. Intact(a) /\ a \in AUsers
      BY <1>2, <2>8 DEF AccountsInv, AccountsTypeOK
    <3>2. RowsOf(a)' = RowsOf(a)
      BY <2>6 DEF RowsOf, Exists
    <3>3. CASE a # c.acc
      <4>1. users[c.id].user # a
        BY <1>2, <2>8, <3>3
      <4>2. \A q \in AIDs : /\ (Exists(q) /\ users[q].user = a) <=> (Exists(q) /\ users[q].user = a)'
                            /\ Exists(q) /\ users[q].user = a => users'[q].devs = users[q].devs
        BY <2>6, <4>1 DEF Exists
      <4>3. \A m \in ALogins : /\ m \in Busy(a) <=> m \in Busy(a)'
                               /\ m \in Busy(a) => calls'[m] = calls[m]
        BY <1>1, <2>3, <2>4, <3>3 DEF Busy, AccountsInv, AccountsTypeOK
      <4> QED BY <3>1, <4>2, <4>3, Bystander
    <3>4. CASE a = c.acc
      <4>1. c.id \in RowsOf(a) /\ Busy(a) = {l} /\ a \in untouched
        BY <1>1, <1>2, <1>3, <2>8, <3>1, <3>4 DEF Intact, Busy
      <4>2. users'[c.id].devs = list
        BY <2>6, <4>1 DEF RowsOf, Exists
      <4>3. Busy(a)' = {l} /\ calls'[l] = d
        BY <1>1, <1>2, <2>3, <2>4, <3>4, <4>1 DEF Busy, AccountsInv, AccountsTypeOK
      <4>4. Progress(d)'
        BY <2>1, <2>3, <3>2, <3>4, <4>1, <4>2 DEF Progress
      <4> QED BY <3>1, <3>2, <4>3, <4>4 DEF Intact
    <3> QED BY <3>3, <3>4
  <2> QED BY <2>7, <2>8 DEF AccountsInv
<1> QED BY <1>1, <1>4, <1>5, <1>6 DEF Device

LEMMA ChangeStep ==
    ASSUME AccountsInv, NEW l \in ALogins, Change(l)
    PROVE  AccountsInv'
<1> USE AccountsAssumption DEF AccountsAssumption
<1>1. PICK c \in Calls : c = calls[l]
  BY DEF AccountsInv, AccountsTypeOK
<1>2. PICK rows : rows = RowsOf(c.acc)
  OBVIOUS
<1>3. c.pc = "update" /\ CallTyped(c) /\ UNCHANGED <<unused, untouched>>
  BY <1>1 DEF Change, AccountsInv, AccountsTypeOK
<1>4. c.acc \in untouched => /\ Busy(c.acc) = {l} /\ c.id \in rows /\ c.dev \in users[c.id].devs
                             /\ \A q \in rows : q = c.id
  BY <1>1, <1>2, <1>3 DEF AccountsInv, Intact, Busy, Progress, CallTyped
<1>5. PICK d, e : /\ d = [c EXCEPT !.pc = "ban"]
                  /\ e = [c EXCEPT !.pc = "ban", !.id = c.want]
  OBVIOUS
<1>6. CASE Goto(l, "ban") /\ UNCHANGED users
  <2>1. /\ d \in Calls /\ d.acc = c.acc /\ d.pc = "ban" /\ d.id = c.id /\ d.devs = c.devs
        /\ d.want = c.want /\ d.dev = c.dev
    BY <1>5 DEF Calls, CallPCs
  <2>2. calls' = [calls EXCEPT ![l] = d]
    BY <1>1, <1>5, <1>6 DEF Goto
  <2>3. CallTyped(d) /\ (d.acc \in untouched => Progress(d))
    BY <1>2, <1>3, <1>4, <2>1 DEF CallTyped, Progress
  <2> QED BY <1>1, <1>3, <1>6, <2>1, <2>2, <2>3, CallStep
<1>7. ASSUME users[c.want] = NoUser,
             calls' = [calls EXCEPT ![l].pc = "ban", ![l].id = c.want],
             users' = [p \in AIDs |-> IF p \in rows THEN NoUser
                             ELSE IF p = c.want /\ rows # {} THEN users[CHOOSE q \in rows : TRUE]
                             ELSE users[p]]
      PROVE  AccountsInv'
  <2>1. c.want \in AKnownIDs /\ c.want \in AIDs /\ c.want \notin ASequence /\ c.want \notin rows
    BY <1>2, <1>3, <1>7 DEF CallTyped, AIDs, RowsOf, Exists
  <2>2. /\ e \in Calls /\ e.acc = c.acc /\ e.pc = "ban" /\ e.id = c.want /\ e.devs = c.devs
        /\ e.want = c.want /\ e.dev = c.dev
    BY <1>5, <2>1 DEF Calls, CallPCs
  <2>3. calls' = [calls EXCEPT ![l] = e]
    BY <1>1, <1>5, <1>7 DEF AccountsInv, AccountsTypeOK, Calls
  <2>4. CallTyped(e)
    BY <1>3, <2>1, <2>2 DEF CallTyped
  <2>5. PICK r : r = CHOOSE q \in rows : TRUE
    OBVIOUS
  <2>6. rows \subseteq AIDs /\ (rows # {} => r \in rows)
        /\ \A q \in rows : users[q] # NoUser /\ users[q].user = c.acc
    BY <1>2, <2>5 DEF RowsOf, Exists
  <2>7. /\ \A p \in rows : users'[p] = NoUser
        /\ rows # {} => users'[c.want] = users[r]
        /\ rows = {} => users'[c.want] = NoUser
        /\ \A p \in AIDs \ rows : p # c.want => users'[p] = users[p]
    BY <1>7, <2>1, <2>5, <2>6
  <2>8. AccountsTypeOK'
    <3>1. users' \in [AIDs -> UserRows \cup {NoUser}]
      BY <1>7, <2>5, <2>6 DEF AccountsInv, AccountsTypeOK
    <3>2. calls' \in [ALogins -> Calls] /\ \A m \in ALogins : calls'[m].pc # "idle" => CallTyped(calls'[m])
      BY <2>2, <2>3, <2>4 DEF AccountsInv, AccountsTypeOK
    <3>3. \A q \in unused : users'[q] = NoUser
      BY <2>1, <2>7 DEF AccountsInv, AccountsTypeOK, AIDs
    <3> QED BY <1>3, <3>1, <3>2, <3>3 DEF AccountsInv, AccountsTypeOK
  <2>9. ASSUME NEW a \in untouched PROVE Intact(a)'
    <3>1. Intact(a) /\ a \in AUsers
      BY DEF AccountsInv, AccountsTypeOK
    <3>2. CASE a # c.acc
      <4>1. \A q \in AIDs : /\ (Exists(q) /\ users[q].user = a) <=> (Exists(q) /\ users[q].user = a)'
                            /\ Exists(q) /\ users[q].user = a => users'[q].devs = users[q].devs
        <5> SUFFICES ASSUME NEW q \in AIDs
                     PROVE  /\ (users[q] # NoUser /\ users[q].user = a)
                                 <=> (users'[q] # NoUser /\ users'[q].user = a)
                            /\ users[q] # NoUser /\ users[q].user = a => users'[q].devs = users[q].devs
          BY DEF Exists
        <5>1. CASE q \in rows
          BY <2>6, <2>7, <3>2, <5>1
        <5>2. CASE q = c.want
          BY <1>7, <2>6, <2>7, <3>2, <5>2
        <5>3. CASE q \notin rows /\ q # c.want
          BY <2>7, <5>3
        <5> QED BY <5>1, <5>2, <5>3
      <4>2. \A m \in ALogins : /\ m \in Busy(a) <=> m \in Busy(a)'
                               /\ m \in Busy(a) => calls'[m] = calls[m]
        BY <1>1, <2>2, <2>3, <3>2 DEF Busy, AccountsInv, AccountsTypeOK
      <4> QED BY <3>1, <4>1, <4>2, Bystander
    <3>3. CASE a = c.acc
      <4>1. rows = {c.id} /\ r = c.id /\ Busy(a) = {l} /\ c.dev \in users[c.id].devs
        BY <1>4, <2>6, <3>3
      <4>2. users'[c.want] = users[c.id] /\ users'[c.id] = NoUser
        BY <2>7, <4>1
      <4>3. \A q \in AIDs : users[q] # NoUser /\ users[q].user = a => q \in rows
        BY <1>2, <3>3 DEF RowsOf, Exists
      <4>4. RowsOf(a)' = {c.want}
        BY <2>1, <2>6, <2>7, <3>3, <4>1, <4>2, <4>3 DEF RowsOf, Exists
      <4>5. Busy(a)' = {l} /\ calls'[l] = e
        BY <1>1, <1>3, <2>2, <2>3, <3>3, <4>1 DEF Busy, AccountsInv, AccountsTypeOK
      <4>6. Progress(e)'
        BY <2>2, <3>3, <4>1, <4>2, <4>4 DEF Progress
      <4> QED BY <4>4, <4>5, <4>6 DEF Intact
    <3> QED BY <3>2, <3>3
  <2> QED BY <1>3, <2>8, <2>9 DEF AccountsInv
<1> QED BY <1>1, <1>2, <1>6, <1>7 DEF Change, Exists

LEMMA ModeratorStep ==
    ASSUME AccountsInv, NEW p \in AIDs, NEW b \in BOOLEAN, ClearProfile(p, b) \/ SetBan(p, b)
    PROVE  AccountsInv'
<1> USE AccountsAssumption DEF AccountsAssumption
<1>1. users \in [AIDs -> UserRows \cup {NoUser}] /\ \A r \in UserRows : r # NoUser
  BY DEF AccountsInv, AccountsTypeOK, UserRows, NoUser
<1>2. PICK r \in UserRows : r = users[p]
  BY <1>1 DEF ClearProfile, SetBan, Exists
<1>3. /\ UNCHANGED <<calls, unused>> /\ untouched' \subseteq untouched
      /\ \A m \in ALogins, a \in AUsers : m \in Busy(a) <=> m \in Busy(a)'
  BY DEF ClearProfile, SetBan, Interferes, Busy
<1>4. ASSUME NEW s \in UserRows \cup {NoUser}, users' = [users EXCEPT ![p] = s],
             s = NoUser \/ s.user = r.user,
             r.user \in untouched' /\ (s = NoUser \/ s.devs # r.devs) => Busy(r.user) = {}
      PROVE  AccountsInv'
  <2>1. AccountsTypeOK'
    BY <1>1, <1>2, <1>3, <1>4 DEF AccountsInv, AccountsTypeOK, AIDs
  <2>2. users'[p] = s /\ \A q \in AIDs \ {p} : users'[q] = users[q]
    BY <1>1, <1>4
  <2>3. ASSUME NEW a \in untouched' PROVE Intact(a)'
    <3>1. Intact(a) /\ a \in AUsers
      BY <1>3, <2>3 DEF AccountsInv, AccountsTypeOK
    <3>2. CASE r.user # a \/ (s # NoUser /\ s.devs = r.devs)
      <4>1. \A q \in AIDs : /\ (Exists(q) /\ users[q].user = a) <=> (Exists(q) /\ users[q].user = a)'
                            /\ Exists(q) /\ users[q].user = a => users'[q].devs = users[q].devs
        BY <1>1, <1>2, <1>4, <2>2, <3>2 DEF Exists
      <4> QED BY <1>3, <3>1, <4>1, Bystander
    <3>3. CASE r.user = a /\ (s = NoUser \/ s.devs # r.devs)
      <4>1. Busy(a)' = {}
        BY <1>3, <1>4, <2>3, <3>1, <3>3 DEF Busy
      <4>2. RowsOf(a)' \subseteq RowsOf(a)
        BY <1>1, <1>2, <1>4, <2>2, <3>3 DEF RowsOf, Exists
      <4> QED BY <3>1, <4>1, <4>2 DEF Intact
    <3> QED BY <3>2, <3>3
  <2> QED BY <2>1, <2>3 DEF AccountsInv
<1>5. CASE SetBan(p, b)
  <2>1. PICK s : s = [r EXCEPT !.ban = b]
    OBVIOUS
  <2>2. s \in UserRows /\ s.user = r.user /\ s.devs = r.devs
    BY <2>1 DEF UserRows
  <2>3. users' = [users EXCEPT ![p] = s]
    BY <1>2, <1>5, <2>1 DEF SetBan
  <2> QED BY <1>1, <1>4, <2>2, <2>3
<1>6. CASE ClearProfile(p, b)
  <2>1. PICK s : s = IF b THEN NoUser ELSE [r EXCEPT !.devs = {}]
    OBVIOUS
  <2>2. s \in UserRows \cup {NoUser} /\ (s = NoUser \/ s.user = r.user)
    BY <2>1 DEF UserRows
  <2>3. users' = [users EXCEPT ![p] = s]
    BY <1>2, <1>6, <2>1 DEF ClearProfile
  <2>4. r.user \in untouched' => Busy(r.user) = {}
    BY <1>2, <1>6 DEF ClearProfile, Interferes
  <2> QED BY <1>4, <2>2, <2>3, <2>4
<1> QED BY <1>5, <1>6

LEMMA AccountsInvHolds == AccountsInit /\ [][AccountsNext]_avars => []AccountsInv
<1>1. AccountsInit => AccountsInv
  BY DEF AccountsInit, AccountsInv, AccountsTypeOK, AIDs, NoCall, Calls, Intact, RowsOf, Busy, Exists
<1>2. AccountsInv /\ [AccountsNext]_avars => AccountsInv'
  <2> SUFFICES ASSUME AccountsInv, [AccountsNext]_avars PROVE AccountsInv'
    OBVIOUS
  <2>1. CASE UNCHANGED avars
    BY <2>1 DEF avars, AccountsInv, AccountsTypeOK, Intact, RowsOf, Busy, Exists, Progress
  <2>2. TRUE \in BOOLEAN /\ FALSE \in BOOLEAN
    OBVIOUS
  <2> QED
    BY <2>1, <2>2, ReadingSteps, StartStep, InsertStep, DeviceStep, ChangeStep, ModeratorStep
    DEF AccountsNext
<1> QED BY <1>1, <1>2, PTL

\* An account with which no other login of it and no moderator interferes has
\* one row, and a login that succeeded has its profile ID and its device in that
\* row, through any interleaving of the statements of the others' logins
\* (login.go:98-202, user.go:149-193).
THEOREM AccountsIntact == AccountsInit /\ [][AccountsNext]_avars => []AccountIntact
<1>1. AccountsInv => AccountIntact
  <2> SUFFICES ASSUME AccountsInv, NEW a \in untouched
               PROVE  /\ Cardinality(RowsOf(a)) <= 1
                      /\ \A l \in Busy(a) : calls[l].pc = "done" =>
                            /\ RowsOf(a) = {calls[l].id}
                            /\ calls[l].dev \in users[calls[l].id].devs
    BY DEF AccountIntact
  <2>1. Intact(a)
    BY DEF AccountsInv
  <2>2. Cardinality(RowsOf(a)) <= 1
    <3>1. RowsOf(a) = {} \/ \E p : RowsOf(a) = {p}
      BY <2>1 DEF Intact
    <3>2. CASE RowsOf(a) = {}
      <4>1. Cardinality(RowsOf(a)) = 0
        BY <3>2, FS_EmptySet
      <4> QED BY <4>1
    <3>3. ASSUME NEW p, RowsOf(a) = {p} PROVE Cardinality(RowsOf(a)) <= 1
      <4>1. Cardinality(RowsOf(a)) = 1
        BY <3>3, FS_Singleton, Zenon
      <4> QED BY <4>1
    <3> QED BY <3>1, <3>2, <3>3
  <2>3. \A l \in Busy(a) : calls[l].pc = "done" =>
            /\ RowsOf(a) = {calls[l].id}
            /\ calls[l].dev \in users[calls[l].id].devs
    BY <2>1 DEF Intact, Progress, Busy
  <2> QED BY <2>2, <2>3
<1> QED BY <1>1, AccountsInvHolds, PTL

\* A profile ID does not pass from one account to another while its row exists:
\* between the check that it is free and the INSERT or UPDATE anybody may take
\* it, and then the primary key refuses (user.go:158-168, user.go:177-187).
THEOREM OwnersAreKept == AccountsInit /\ [][AccountsNext]_avars => ProfileKeepsOwner
<1> DEFINE Kept(p) == users[p] # NoUser /\ users'[p] # NoUser => users'[p].user = users[p].user
<1>1. ASSUME AccountsInv, [AccountsNext]_avars, NEW p \in AIDs PROVE Kept(p)
  <2> USE <1>1, AccountsAssumption DEF AccountsAssumption
  <2>1. users \in [AIDs -> UserRows \cup {NoUser}] /\ \A q \in unused : users[q] = NoUser
    BY DEF AccountsInv, AccountsTypeOK
  <2>2. ASSUME NEW l \in ALogins, Insert(l) PROVE Kept(p)
    <3>1. CASE UNCHANGED users
      BY <3>1
    <3>2. CASE ~UNCHANGED users
      <4>1. ~(calls[l].want # NoID /\ Exists(calls[l].want))
        BY <2>2, <3>2 DEF Insert
      <4>2. PICK q, r :
               /\ q \in IF calls[l].want = NoID THEN unused ELSE {calls[l].want}
               /\ users' = [users EXCEPT ![q] = r]
        BY <2>2, <4>1, Zenon DEF Insert
      <4>3. users[q] = NoUser
        BY <2>1, <4>1, <4>2 DEF Exists
      <4> QED BY <2>1, <4>2, <4>3
    <3> QED BY <3>1, <3>2
  <2>3. ASSUME NEW l \in ALogins, NEW b \in BOOLEAN, Device(l, b) PROVE Kept(p)
    BY <2>1, <2>3 DEF Device, UserRows, Exists
  <2>4. ASSUME NEW l \in ALogins, Change(l) PROVE Kept(p)
    BY <2>1, <2>4 DEF Change, Exists
  <2>5. ASSUME NEW q \in AIDs, NEW b \in BOOLEAN, SetBan(q, b) \/ ClearProfile(q, b) PROVE Kept(p)
    BY <2>1, <2>5 DEF SetBan, ClearProfile, UserRows, Exists
  <2>6. CASE UNCHANGED users
    BY <2>6
  <2>7. TRUE \in BOOLEAN /\ FALSE \in BOOLEAN
    OBVIOUS
  <2>8. CASE \/ UNCHANGED avars
             \/ \E l \in ALogins :
                  \/ \E a \in AUsers, want \in AKnownIDs \cup {NoID}, d \in ADevices :
                        StartLogin(l, a, want, d)
                  \/ CreateCheck(l) \/ ReadUser(l) \/ ChangeCheck(l) \/ SearchUserBan(l) \/ EndLogin(l)
                  \/ \E b \in BOOLEAN : Csnum(l, b)
    BY <2>6, <2>8 DEF avars, StartLogin, CreateCheck, ReadUser, ChangeCheck, SearchUserBan, EndLogin,
       Csnum
  <2> QED BY <2>2, <2>3, <2>4, <2>5, <2>7, <2>8 DEF AccountsNext
<1>2. AccountsInv /\ [AccountsNext]_avars => [\A p \in AIDs : Kept(p)]_avars
  BY <1>1
<1> QED BY <1>2, AccountsInvHolds, PTL DEF ProfileKeepsOwner

-----------------------------------------------------------------------------
(* Races. *)

RaceRecords == [kind : {"none", "course", "stage", "result"},
                room : RRooms \cup {RNone}, course : RCourses \cup {RNone}]

RaceTypeOK ==
    /\ inRoom  \in [RPlayers -> RRooms \cup {RNone}]
    /\ name    \in [RRooms -> RNames \cup {RNone}]
    /\ race    \in [RRooms -> [num : 0..MaxRaces, course : RCourses \cup {RNone}]]
    /\ results \in [RNames -> [1..MaxRaces -> Seq(RCourses \cup {RNone})]]
    /\ report  \in [RPlayers -> RaceRecords]
    /\ timers  \subseteq RRooms \X {"waits", "deletes"}

\* Who is in a room, reports to it or waits for its end knows a room that was
\* created; a room whose timer runs is closed; and reports are to open rooms.
RoomsKnown ==
    /\ \A p \in RPlayers : inRoom[p] # RNone => name[inRoom[p]] # RNone
    /\ \A p \in RPlayers : report[p].kind # "none" =>
          report[p].room # RNone /\ name[report[p].room] # RNone
    /\ \A p \in RPlayers : report[p].room # RNone /\ report[p].room \notin outlived
          => Open(report[p].room)
    /\ \A x \in timers : name[x[1]] # RNone /\ ~Open(x[1])

\* A name that was not given again names one room.
NamesOwn ==
    \A g, h \in RRooms : name[g] = name[h] /\ name[g] # RNone /\ name[g] \notin reused => g = h

\* Results are filed under races that were begun, those of the current race
\* under its course.
FiledByRace ==
    \A n \in RNames \ reused, k \in 1..MaxRaces : results[n][k] # <<>> =>
        \E g \in RRooms :
           /\ name[g] = n /\ k <= race[g].num
           /\ k = race[g].num => \A i \in DOMAIN results[n][k] : results[n][k][i] = race[g].course

RaceInv == RaceTypeOK /\ RoomsKnown /\ NamesOwn /\ FiledByRace /\ CourseOfRace /\ ResultsForgotten

LEMMA RaceStepRooms ==
    ASSUME RaceInv, NEW p \in RPlayers, NEW g \in RRooms,
           JoinRoom(p, g) \/ \E n \in RNames : CreateRoom(p, g, n)
    PROVE  RaceInv'
<1> USE RaceAssumption DEF RaceAssumption, RaceInv
<1>1. /\ inRoom[p] = RNone /\ inRoom' = [inRoom EXCEPT ![p] = g]
      /\ UNCHANGED <<race, results, report, timers, outlived>>
  BY DEF JoinRoom, CreateRoom, statVars
<1>2. \A h \in RRooms : Open(h)' <=> Open(h) \/ h = g
  BY <1>1 DEF Open, In, RaceTypeOK
<1>3. CASE JoinRoom(p, g)
  <2>1. Open(g) /\ UNCHANGED <<name, reused>>
    BY <1>3 DEF JoinRoom, statVars
  <2>2. name[g] # RNone /\ \A h \in RRooms : Open(h)' <=> Open(h)
    BY <1>2, <2>1 DEF Open, In, RoomsKnown
  <2>3. RaceTypeOK'
    BY <1>1, <2>1 DEF RaceRecords, RaceTypeOK
  <2>4. RoomsKnown'
    <3>1. \A q \in RPlayers : inRoom'[q] # RNone => name'[inRoom'[q]] # RNone
      BY <1>1, <2>1, <2>2 DEF RaceRecords, RaceTypeOK, RoomsKnown
    <3>2. \A q \in RPlayers : report'[q].kind # "none" =>
             report'[q].room # RNone /\ name'[report'[q].room] # RNone
      BY <1>1, <2>1 DEF RoomsKnown
    <3>3. \A q \in RPlayers : report[q].room # RNone /\ report[q].room \notin outlived
             => Open(report[q].room)'
      BY <1>1, <2>2 DEF RaceRecords, RaceTypeOK, RoomsKnown, Open, In
    <3>4. \A x \in timers : x[1] \in RRooms /\ name[x[1]] # RNone /\ ~Open(x[1])
      BY DEF RaceRecords, RaceTypeOK, RoomsKnown
    <3>5. \A x \in timers' : name'[x[1]] # RNone /\ ~Open(x[1])'
      BY <1>1, <2>1, <2>2, <3>4
    <3> QED BY <1>1, <3>1, <3>2, <3>3, <3>5 DEF RoomsKnown, Open, In
  <2>5. NamesOwn' /\ FiledByRace' /\ CourseOfRace'
    BY <1>1, <2>1 DEF NamesOwn, FiledByRace, CourseOfRace
  <2>6. ResultsForgotten'
    BY <1>1, <2>1, <2>2 DEF ResultsForgotten, HasResults
  <2> QED BY <2>3, <2>4, <2>5, <2>6
<1>4. ASSUME NEW n \in RNames, CreateRoom(p, g, n)
      PROVE  RaceInv'
  <2>1. /\ name[g] = RNone /\ name' = [name EXCEPT ![g] = n]
        /\ reused' = IF HasResults(n) \/ \E h \in RRooms : name[h] = n THEN reused \cup {n} ELSE reused
    BY <1>4 DEF CreateRoom
  <2>2. reused \subseteq reused' /\ (n \notin reused' => ~HasResults(n) /\ \A h \in RRooms : name[h] # n)
    BY <2>1
  <2>3. \A h \in RRooms : name'[h] = IF h = g THEN n ELSE name[h]
    BY <2>1 DEF RaceRecords, RaceTypeOK
  <2>4. RaceTypeOK'
    BY <1>1, <2>1 DEF RaceRecords, RaceTypeOK
  <2>5. RoomsKnown'
    <3>1. \A q \in RPlayers : inRoom'[q] # RNone => name'[inRoom'[q]] # RNone
      BY <1>1, <2>3 DEF RaceRecords, RaceTypeOK, RoomsKnown
    <3>2. \A q \in RPlayers : report'[q].kind # "none" =>
             report'[q].room # RNone /\ name'[report'[q].room] # RNone
      BY <1>1, <2>3 DEF RaceRecords, RaceTypeOK, RoomsKnown
    <3>3. \A q \in RPlayers : report[q].room # RNone /\ report[q].room \notin outlived
             => Open(report[q].room)'
      BY <1>1, <1>2 DEF RaceRecords, RaceTypeOK, RoomsKnown, Open, In
    <3>4. \A x \in timers : x[1] \in RRooms /\ name[x[1]] # RNone /\ ~Open(x[1]) /\ x[1] # g
      BY <2>1 DEF RaceRecords, RaceTypeOK, RoomsKnown
    <3>5. \A x \in timers' : name'[x[1]] # RNone /\ ~Open(x[1])'
      BY <1>1, <1>2, <2>3, <3>4
    <3> QED BY <1>1, <3>1, <3>2, <3>3, <3>5 DEF RoomsKnown, Open, In
  <2>6. NamesOwn'
    BY <2>2, <2>3 DEF NamesOwn
  <2>7. FiledByRace'
    <3> SUFFICES ASSUME NEW m \in RNames \ reused', NEW k \in 1..MaxRaces, results[m][k] # <<>>
                 PROVE  \E h \in RRooms :
                          /\ name'[h] = m /\ k <= race[h].num
                          /\ k = race[h].num => \A i \in DOMAIN results[m][k] :
                                                   results[m][k][i] = race[h].course
      BY <1>1 DEF FiledByRace
    <3>1. m \in RNames \ reused
      BY <2>2
    <3>2. PICK h \in RRooms : /\ name[h] = m /\ k <= race[h].num
                              /\ k = race[h].num => \A i \in DOMAIN results[m][k] :
                                                       results[m][k][i] = race[h].course
      BY <3>1 DEF FiledByRace
    <3>3. h # g
      BY <2>1, <3>2
    <3> QED BY <2>3, <3>2, <3>3
  <2>8. CourseOfRace'
    BY <1>1, <2>2 DEF CourseOfRace
  <2>9. ResultsForgotten'
    <3> SUFFICES ASSUME NEW h \in RRooms, name'[h] # RNone, name'[h] \notin reused',
                        h \notin outlived, HasResults(name'[h])
                 PROVE  Open(h)' \/ <<h, "waits">> \in timers
      BY <1>1 DEF ResultsForgotten, HasResults
    <3>1. h # g
      BY <2>2, <2>3
    <3> QED BY <1>2, <2>2, <2>3, <3>1 DEF ResultsForgotten
  <2> QED BY <2>4, <2>5, <2>6, <2>7, <2>8, <2>9
<1> QED BY <1>3, <1>4

LEMMA RaceStepLeave ==
    ASSUME RaceInv, NEW p \in RPlayers, LeaveRoom(p)
    PROVE  RaceInv'
<1> USE RaceAssumption DEF RaceAssumption, RaceInv
<1>1. PICK g \in RRooms : g = inRoom[p]
  BY DEF LeaveRoom, RaceTypeOK
<1>2. /\ inRoom' = [inRoom EXCEPT ![p] = RNone]
      /\ timers' = IF In(g) = {p} /\ HasResults(name[g]) THEN timers \cup {<<g, "waits">>} ELSE timers
      /\ outlived' = IF In(g) = {p} /\ Reports(g) # {} THEN outlived \cup {g} ELSE outlived
      /\ UNCHANGED <<name, race, results, report, reused>>
  BY <1>1 DEF LeaveRoom
<1>3. /\ \A h \in RRooms : Open(h)' <=> Open(h) /\ ~(h = g /\ In(g) = {p})
      /\ p \in In(g)
  BY <1>1, <1>2 DEF Open, In, RaceTypeOK
<1>4. timers \subseteq timers' /\ outlived \subseteq outlived'
  BY <1>2
<1>5. RaceTypeOK'
  <2>1. timers' \subseteq RRooms \X {"waits", "deletes"}
    BY <1>2 DEF RaceRecords, RaceTypeOK
  <2> QED BY <1>2, <2>1 DEF RaceRecords, RaceTypeOK
<1>6. RoomsKnown'
  <2>1. \A q \in RPlayers : inRoom'[q] # RNone => name'[inRoom'[q]] # RNone
    BY <1>2 DEF RaceRecords, RaceTypeOK, RoomsKnown
  <2>2. \A q \in RPlayers : report'[q].kind # "none" =>
           report'[q].room # RNone /\ name'[report'[q].room] # RNone
    BY <1>2 DEF RoomsKnown
  <2>3. \A q \in RPlayers : report[q].room # RNone /\ report[q].room \notin outlived'
           => report[q].room \in RRooms /\ Open(report[q].room)
              /\ ~(report[q].room = g /\ In(g) = {p})
    BY <1>2 DEF RaceRecords, RaceTypeOK, RoomsKnown, Reports
  <2>4. \A q \in RPlayers : report[q].room # RNone /\ report[q].room \notin outlived'
           => \E r \in RPlayers : inRoom'[r] = report[q].room
    <3>1. \A h \in RRooms : Open(h) /\ ~(h = g /\ In(g) = {p}) => \E r \in RPlayers : inRoom'[r] = h
      BY <1>3 DEF Open, In
    <3> QED BY <2>3, <3>1
  <2>5. \A x \in timers' : x[1] \in RRooms /\ name[x[1]] # RNone
                            /\ ~(Open(x[1]) /\ ~(x[1] = g /\ In(g) = {p}))
    BY <1>1, <1>2 DEF RaceRecords, RaceTypeOK, RoomsKnown
  <2>6. \A x \in timers' : name'[x[1]] # RNone /\ ~\E r \in RPlayers : inRoom'[r] = x[1]
    <3>1. \A h \in RRooms : (\E r \in RPlayers : inRoom'[r] = h) => Open(h) /\ ~(h = g /\ In(g) = {p})
      BY <1>3 DEF Open, In
    <3> QED BY <1>2, <2>5, <3>1
  <2> QED BY <1>2, <2>1, <2>2, <2>4, <2>6 DEF RoomsKnown, Open, In
<1>7. NamesOwn' /\ FiledByRace' /\ CourseOfRace'
  BY <1>2 DEF NamesOwn, FiledByRace, CourseOfRace
<1>8. ResultsForgotten'
  <2> SUFFICES ASSUME NEW h \in RRooms, name[h] # RNone, name[h] \notin reused,
                      h \notin outlived', HasResults(name[h])
               PROVE  Open(h)' \/ <<h, "waits">> \in timers'
    BY <1>2 DEF ResultsForgotten, HasResults
  <2>1. Open(h) \/ <<h, "waits">> \in timers
    BY <1>4 DEF ResultsForgotten
  <2> QED BY <1>2, <1>3, <1>4, <2>1
<1> QED BY <1>5, <1>6, <1>7, <1>8

\* A report that is handled, or begun from the room its sender is in.
LEMMA ReportsKnown ==
    ASSUME RaceTypeOK, RoomsKnown, NEW p \in RPlayers, NEW r \in RaceRecords,
           report' = [report EXCEPT ![p] = r],
           r.room # RNone => Open(r.room) /\ name[r.room] # RNone,
           r.kind # "none" => r.room # RNone,
           UNCHANGED <<inRoom, name, timers, outlived>>
    PROVE  RoomsKnown' /\ report' \in [RPlayers -> RaceRecords]
<1>1. \A q \in RPlayers : report'[q] = r \/ report'[q] = report[q]
  BY DEF RaceTypeOK
<1>2. \A h : Open(h)' <=> Open(h)
  BY DEF Open, In
<1>3. RoomsKnown'
  BY <1>1, <1>2 DEF RoomsKnown, Open, In
<1> QED BY <1>3 DEF RaceTypeOK

LEMMA HandledKnown ==
    ASSUME RaceTypeOK, RoomsKnown, NEW p \in RPlayers, Handled(p),
           UNCHANGED <<inRoom, name, timers, outlived>>
    PROVE  RoomsKnown' /\ report' \in [RPlayers -> RaceRecords]
<1>1. PICK r : r = NoReport
  OBVIOUS
<1>2. r \in RaceRecords /\ r.room = RNone /\ r.kind = "none"
  BY <1>1 DEF NoReport, RaceRecords
<1>3. report' = [report EXCEPT ![p] = r]
  BY <1>1 DEF Handled
<1> QED BY <1>2, <1>3, ReportsKnown

LEMMA RaceStepReport ==
    ASSUME RaceInv, NEW p \in RPlayers, NEW k \in {"course", "stage", "result"},
           NEW c \in RCourses \cup {RNone}, Report(p, k, c) \/ PlayerEntry(p)
    PROVE  RaceInv'
<1> USE RaceAssumption DEF RaceAssumption, RaceInv
<1>1. UNCHANGED <<inRoom, name, race, results, timers, outlived, reused>>
  BY DEF Report, PlayerEntry
<1>2. RoomsKnown' /\ report' \in [RPlayers -> RaceRecords]
  <2>1. CASE PlayerEntry(p)
    BY <1>1, <2>1, HandledKnown DEF PlayerEntry
  <2>2. CASE Report(p, k, c)
    <3>1. inRoom[p] \in RRooms /\ Open(inRoom[p]) /\ name[inRoom[p]] # RNone /\ inRoom[p] # RNone
      BY <2>2 DEF Report, RaceTypeOK, RoomsKnown, Open, In
    <3>2. PICK r : r = [kind |-> k, room |-> inRoom[p], course |-> c]
      OBVIOUS
    <3>3. r \in RaceRecords /\ r.room = inRoom[p] /\ report' = [report EXCEPT ![p] = r]
      BY <2>2, <3>1, <3>2 DEF RaceRecords, Report
    <3>4. r.room # RNone => Open(r.room) /\ name[r.room] # RNone
      BY <3>1, <3>3
    <3> QED BY <1>1, <3>1, <3>3, <3>4, ReportsKnown
  <2> QED BY <2>1, <2>2
<1>3. \A h : Open(h)' <=> Open(h)
  BY <1>1 DEF Open, In
<1>4. RaceTypeOK'
  BY <1>1, <1>2 DEF RaceTypeOK
<1>5. NamesOwn' /\ FiledByRace' /\ CourseOfRace'
  BY <1>1 DEF NamesOwn, FiledByRace, CourseOfRace
<1>6. ResultsForgotten'
  BY <1>1, <1>3 DEF ResultsForgotten, HasResults
<1> QED BY <1>2, <1>4, <1>5, <1>6

\* The room of a report, its name and, when the name is its own, what is filed
\* under it: the results of the races begun, the current one's of one course.
LEMMA ReportedRoom ==
    ASSUME RaceInv, NEW p \in RPlayers, report[p].kind # "none"
    PROVE  \E g \in RRooms, n \in RNames :
             /\ g = report[p].room /\ n = name[g]
             /\ g \in outlived \/ Open(g)
             /\ \A k \in 1..MaxRaces : n \notin reused /\ results[n][k] # <<>> =>
                  /\ k <= race[g].num
                  /\ k = race[g].num => \A i \in DOMAIN results[n][k] :
                                           results[n][k][i] = race[g].course
<1> USE RaceAssumption DEF RaceAssumption, RaceInv
<1>1. PICK g \in RRooms : g = report[p].room
  BY DEF RaceTypeOK, RaceRecords, RoomsKnown
<1>2. PICK n \in RNames : n = name[g]
  BY <1>1 DEF RaceTypeOK, RoomsKnown
<1>3. g \in outlived \/ Open(g)
  BY <1>1 DEF RoomsKnown
<1>4. ASSUME NEW k \in 1..MaxRaces, n \notin reused, results[n][k] # <<>>
      PROVE  /\ k <= race[g].num
             /\ k = race[g].num => \A i \in DOMAIN results[n][k] :
                                      results[n][k][i] = race[g].course
  <2>1. PICK h \in RRooms : /\ name[h] = n /\ k <= race[h].num
                            /\ k = race[h].num => \A i \in DOMAIN results[n][k] :
                                                     results[n][k][i] = race[h].course
    BY <1>4 DEF FiledByRace
  <2>2. h = g
    BY <1>2, <1>4, <2>1 DEF NamesOwn
  <2> QED BY <2>1, <2>2
<1> QED BY <1>1, <1>2, <1>3, <1>4

LEMMA RaceStepCourse ==
    ASSUME RaceInv, NEW p \in RPlayers, SelectCourse(p)
    PROVE  RaceInv'
<1> USE RaceAssumption DEF RaceAssumption, RaceInv
<1>1. PICK g \in RRooms, n \in RNames :
         /\ g = report[p].room /\ n = name[g]
         /\ \A k \in 1..MaxRaces : n \notin reused /\ results[n][k] # <<>> => k <= race[g].num
  BY ReportedRoom DEF SelectCourse
<1>2. UNCHANGED <<inRoom, name, results, timers, outlived, reused>> /\ Handled(p)
  BY DEF SelectCourse
<1>3. PICK c \in RCourses \cup {RNone} :
         race' = [race EXCEPT ![g] = [num |-> race[g].num + 1, course |-> c]]
  BY <1>1 DEF SelectCourse, RaceTypeOK, RaceRecords
<1>4. race[g].num \in 0..MaxRaces /\ race[g].num + 1 \in 0..MaxRaces
  BY <1>1 DEF SelectCourse, RaceTypeOK
<1>5. /\ race' \in [RRooms -> [num : 0..MaxRaces, course : RCourses \cup {RNone}]]
      /\ race'[g].num = race[g].num + 1
      /\ \A h \in RRooms : h # g => race'[h] = race[h]
  <2>1. PICK r \in [num : 0..MaxRaces, course : RCourses \cup {RNone}] :
           r = [num |-> race[g].num + 1, course |-> c]
    BY <1>4
  <2>2. r.num = race[g].num + 1 /\ race' = [race EXCEPT ![g] = r]
    BY <1>3, <2>1
  <2> QED BY <2>2 DEF RaceTypeOK
<1>6. RoomsKnown' /\ report' \in [RPlayers -> RaceRecords]
  BY <1>2, HandledKnown
<1>7. RaceTypeOK'
  BY <1>2, <1>5, <1>6 DEF RaceTypeOK
<1>8. FiledByRace'
  <2> SUFFICES ASSUME NEW m \in RNames \ reused, NEW k \in 1..MaxRaces, results[m][k] # <<>>
               PROVE  \E h \in RRooms :
                        /\ name[h] = m /\ k <= race'[h].num
                        /\ k = race'[h].num => \A i \in DOMAIN results[m][k] :
                                                  results[m][k][i] = race'[h].course
    BY <1>2 DEF FiledByRace
  <2>1. PICK h \in RRooms : /\ name[h] = m /\ k <= race[h].num
                            /\ k = race[h].num => \A i \in DOMAIN results[m][k] :
                                                     results[m][k][i] = race[h].course
    BY DEF FiledByRace
  <2>2. CASE h = g
    <3>1. k <= race[g].num /\ k < race'[g].num
      BY <1>4, <1>5, <2>1, <2>2
    <3> QED BY <1>4, <1>5, <2>1, <2>2, <3>1
  <2>3. CASE h # g
    BY <1>5, <2>1, <2>3
  <2> QED BY <2>2, <2>3
<1>9. NamesOwn' /\ CourseOfRace'
  BY <1>2 DEF NamesOwn, CourseOfRace
<1>10. ResultsForgotten'
  BY <1>2 DEF ResultsForgotten, HasResults, Open, In
<1> QED BY <1>6, <1>7, <1>8, <1>9, <1>10

LEMMA RaceStepResult ==
    ASSUME RaceInv, NEW p \in RPlayers, RaceResult(p)
    PROVE  RaceInv'
<1> USE RaceAssumption DEF RaceAssumption, RaceInv
<1>1. PICK g \in RRooms, n \in RNames :
         /\ g = report[p].room /\ n = name[g]
         /\ g \in outlived \/ Open(g)
         /\ \A k \in 1..MaxRaces : n \notin reused /\ results[n][k] # <<>> =>
              /\ k <= race[g].num
              /\ k = race[g].num => \A i \in DOMAIN results[n][k] :
                                       results[n][k][i] = race[g].course
  BY ReportedRoom DEF RaceResult
<1>2. UNCHANGED <<inRoom, name, race, timers, outlived, reused>> /\ Handled(p)
  BY DEF RaceResult
<1>3. RoomsKnown' /\ report' \in [RPlayers -> RaceRecords]
  BY <1>2, HandledKnown
<1>4. NamesOwn'
  BY <1>2 DEF NamesOwn
<1>5. CASE race[g].num = 0
  <2>1. results' = results
    BY <1>1, <1>5 DEF RaceResult
  <2>2. RaceTypeOK'
    BY <1>2, <1>3, <2>1 DEF RaceTypeOK
  <2>3. FiledByRace' /\ CourseOfRace' /\ ResultsForgotten'
    BY <1>2, <2>1 DEF FiledByRace, CourseOfRace, ResultsForgotten, HasResults, Open, In
  <2> QED BY <1>3, <1>4, <2>2, <2>3
<1>6. CASE race[g].num # 0
  <2>1. PICK num \in 1..MaxRaces, c \in RCourses \cup {RNone} : num = race[g].num /\ c = race[g].course
    BY <1>6, SMTT(30) DEF RaceTypeOK
  <2>2. results' = [results EXCEPT ![n][num] = Append(results[n][num], c)]
    BY <1>1, <1>6, <2>1 DEF RaceResult
  <2>3. results[n] \in [1..MaxRaces -> Seq(RCourses \cup {RNone})] /\ results[n][num] \in Seq(RCourses \cup {RNone})
    BY DEF RaceTypeOK
  <2>4. PICK s \in Seq(RCourses \cup {RNone}) :
           /\ s = Append(results[n][num], c)
           /\ n \notin reused => \A i \in DOMAIN s : s[i] = c
    <3>1. PICK t \in Seq(RCourses \cup {RNone}) : t = results[n][num]
      BY <2>3
    <3>2. n \notin reused => \A i \in DOMAIN t : t[i] = c
      BY <1>1, <2>1, <3>1
    <3>3. Append(t, c) \in Seq(RCourses \cup {RNone}) /\ Len(Append(t, c)) = Len(t) + 1
          /\ \A i \in 1..(Len(t) + 1) : Append(t, c)[i] = IF i = Len(t) + 1 THEN c ELSE t[i]
      OBVIOUS
    <3>4. DOMAIN t = 1..Len(t) /\ DOMAIN Append(t, c) = 1..(Len(t) + 1) /\ Len(t) \in Nat
      BY <3>3
    <3>5. n \notin reused => \A i \in DOMAIN Append(t, c) : Append(t, c)[i] = c
      BY <3>2, <3>3, <3>4
    <3> QED BY <3>1, <3>3, <3>5
  <2>5. /\ \A m \in RNames : m # n => results'[m] = results[m]
        /\ results'[n] = [results[n] EXCEPT ![num] = s]
        /\ results' \in [RNames -> [1..MaxRaces -> Seq(RCourses \cup {RNone})]]
    BY <2>2, <2>3, <2>4 DEF RaceTypeOK
  <2>6. \A k \in 1..MaxRaces : results'[n][k] = IF k = num THEN s ELSE results[n][k]
    BY <2>3, <2>5
  <2>7. RaceTypeOK'
    BY <1>2, <1>3, <2>5 DEF RaceTypeOK
  <2>8. FiledByRace'
    <3> SUFFICES ASSUME NEW m \in RNames \ reused, NEW k \in 1..MaxRaces, results'[m][k] # <<>>
                 PROVE  \E h \in RRooms :
                          /\ name[h] = m /\ k <= race[h].num
                          /\ k = race[h].num => \A i \in DOMAIN results'[m][k] :
                                                   results'[m][k][i] = race[h].course
      BY <1>2 DEF FiledByRace
    <3>1. CASE m = n /\ k = num
      <4>1. name[g] = m /\ k <= race[g].num
        BY <1>1, <2>1, <3>1
      <4>2. \A i \in DOMAIN results'[m][k] : results'[m][k][i] = race[g].course
        BY <2>1, <2>4, <2>6, <3>1
      <4> QED BY <4>1, <4>2
    <3>2. CASE ~(m = n /\ k = num)
      <4>1. results'[m][k] = results[m][k]
        BY <2>5, <2>6, <3>2
      <4> QED BY <4>1 DEF FiledByRace
    <3> QED BY <3>1, <3>2
  <2>9. CourseOfRace'
    <3> SUFFICES ASSUME NEW m \in RNames \ reused, NEW k \in 1..MaxRaces,
                        NEW i \in DOMAIN results'[m][k], NEW j \in DOMAIN results'[m][k]
                 PROVE  results'[m][k][i] = results'[m][k][j]
      BY <1>2 DEF CourseOfRace
    <3>1. CASE m = n /\ k = num
      BY <2>4, <2>6, <3>1
    <3>2. CASE ~(m = n /\ k = num)
      <4>1. results'[m][k] = results[m][k]
        BY <2>5, <2>6, <3>2
      <4> QED BY <4>1 DEF CourseOfRace
    <3> QED BY <3>1, <3>2
  <2>10. ResultsForgotten'
    <3> SUFFICES ASSUME NEW h \in RRooms, name[h] # RNone, name[h] \notin reused, h \notin outlived,
                        results'[name[h]] # NoResults
                 PROVE  Open(h) \/ <<h, "waits">> \in timers
      BY <1>2 DEF ResultsForgotten, HasResults, Open, In
    <3>1. CASE name[h] = n
      BY <1>1, <3>1 DEF NamesOwn
    <3>2. CASE name[h] # n
      <4>1. results'[name[h]] = results[name[h]]
        BY <2>5, <3>2 DEF RaceTypeOK
      <4> QED BY <4>1 DEF ResultsForgotten, HasResults
    <3> QED BY <3>1, <3>2
  <2> QED BY <1>3, <1>4, <2>7, <2>8, <2>9, <2>10
<1> QED BY <1>5, <1>6, SMTT(30)

LEMMA RaceStepTimer ==
    ASSUME RaceInv, NEW g \in RRooms, TimerResults(g) \/ TimerPlayers(g)
    PROVE  RaceInv'
<1> USE RaceAssumption DEF RaceAssumption, RaceInv
<1>1. UNCHANGED <<inRoom, name, race, report, outlived, reused>>
  BY DEF TimerResults, TimerPlayers
<1>2. name[g] \in RNames /\ ~Open(g)
  <2>1. PICK x \in timers : x[1] = g
    BY DEF TimerResults, TimerPlayers
  <2> QED BY <2>1 DEF RoomsKnown, RaceTypeOK
<1>3. PICK n \in RNames : n = name[g]
  BY <1>2
<1>4. /\ timers' \subseteq RRooms \X {"waits", "deletes"}
      /\ \A x \in timers' : x \in timers \/ x[1] = g
      /\ \A h \in RRooms : h # g /\ <<h, "waits">> \in timers => <<h, "waits">> \in timers'
  BY DEF TimerResults, TimerPlayers, RaceTypeOK
<1>5. RoomsKnown'
  <2>1. \A x \in timers' : name[x[1]] # RNone /\ ~Open(x[1])
    BY <1>2, <1>4 DEF RoomsKnown
  <2> QED BY <1>1, <2>1 DEF RoomsKnown, Open, In
<1>6. NamesOwn'
  BY <1>1 DEF NamesOwn
<1>7. CASE TimerPlayers(g)
  <2>1. results' = results /\ \A h \in RRooms : <<h, "waits">> \in timers => <<h, "waits">> \in timers'
    BY <1>7 DEF TimerPlayers
  <2>2. RaceTypeOK'
    BY <1>1, <1>4, <2>1 DEF RaceTypeOK
  <2>3. FiledByRace' /\ CourseOfRace' /\ ResultsForgotten'
    BY <1>1, <2>1 DEF FiledByRace, CourseOfRace, ResultsForgotten, HasResults, Open, In
  <2> QED BY <1>5, <1>6, <2>2, <2>3
<1>8. CASE TimerResults(g)
  <2>1. results' = [results EXCEPT ![n] = NoResults]
    BY <1>3, <1>8 DEF TimerResults
  <2>2. NoResults \in [1..MaxRaces -> Seq(RCourses \cup {RNone})] /\ \A k \in 1..MaxRaces : NoResults[k] = <<>>
    BY DEF NoResults
  <2>3. RaceTypeOK'
    BY <1>1, <1>4, <2>1, <2>2 DEF RaceTypeOK
  <2>4. \A m \in RNames, k \in 1..MaxRaces : results'[m][k] = <<>> \/ results'[m][k] = results[m][k]
    BY <2>1, <2>2 DEF RaceTypeOK
  <2>5. FiledByRace'
    <3> SUFFICES ASSUME NEW m \in RNames \ reused, NEW k \in 1..MaxRaces, results'[m][k] # <<>>
                 PROVE  \E h \in RRooms :
                          /\ name[h] = m /\ k <= race[h].num
                          /\ k = race[h].num => \A i \in DOMAIN results'[m][k] :
                                                   results'[m][k][i] = race[h].course
      BY <1>1 DEF FiledByRace
    <3> QED BY <2>4 DEF FiledByRace
  <2>6. CourseOfRace'
    <3> SUFFICES ASSUME NEW m \in RNames \ reused, NEW k \in 1..MaxRaces,
                        NEW i \in DOMAIN results'[m][k], NEW j \in DOMAIN results'[m][k]
                 PROVE  results'[m][k][i] = results'[m][k][j]
      BY <1>1 DEF CourseOfRace
    <3>1. CASE results'[m][k] = <<>>
      BY <3>1
    <3> QED BY <2>4, <3>1 DEF CourseOfRace
  <2>7. ResultsForgotten'
    <3> SUFFICES ASSUME NEW h \in RRooms, name[h] # RNone, name[h] \notin reused, h \notin outlived,
                        results'[name[h]] # NoResults
                 PROVE  Open(h) \/ <<h, "waits">> \in timers'
      BY <1>1 DEF ResultsForgotten, HasResults, Open, In
    <3>1. name[h] # n /\ results'[name[h]] = results[name[h]]
      BY <2>1 DEF RaceTypeOK
    <3>2. Open(h) \/ <<h, "waits">> \in timers
      BY <3>1 DEF ResultsForgotten, HasResults
    <3> QED BY <1>3, <1>4, <3>1, <3>2
  <2> QED BY <1>5, <1>6, <2>3, <2>5, <2>6, <2>7
<1> QED BY <1>7, <1>8

\* A restart leaves no results and nobody who would file or drop some.
LEMMA RaceStepReload ==
    ASSUME RaceInv, RaceReload
    PROVE  RaceInv'
<1> USE RaceAssumption DEF RaceAssumption, RaceInv
<1>1. UNCHANGED <<inRoom, name, race, outlived, reused>> /\ timers' = {}
  BY DEF RaceReload
<1>2. NoReport \in RaceRecords /\ NoReport.room = RNone /\ NoReport.kind = "none"
  BY DEF NoReport, RaceRecords
<1>3. NoResults \in [1..MaxRaces -> Seq(RCourses \cup {RNone})] /\ \A k \in 1..MaxRaces : NoResults[k] = <<>>
  BY DEF NoResults
<1>4. /\ report' = [p \in RPlayers |-> NoReport] /\ \A p \in RPlayers : report'[p] = NoReport
      /\ results' = [n \in RNames |-> NoResults]
  BY DEF RaceReload
<1>5. RaceTypeOK'
  BY <1>1, <1>2, <1>3, <1>4 DEF RaceTypeOK
<1>6. RoomsKnown'
  BY <1>1, <1>2, <1>4 DEF RoomsKnown
<1>7. NamesOwn' /\ FiledByRace'
  BY <1>1, <1>3, <1>4 DEF NamesOwn, FiledByRace
<1>8. ResultsForgotten'
  BY <1>1, <1>4 DEF ResultsForgotten, HasResults, RaceTypeOK
<1>9. CourseOfRace'
  <2> SUFFICES ASSUME NEW n \in RNames, NEW k \in 1..MaxRaces,
                      NEW i \in DOMAIN results'[n][k], NEW j \in DOMAIN results'[n][k]
               PROVE  results'[n][k][i] = results'[n][k][j]
    BY DEF CourseOfRace
  <2>1. results'[n][k] = <<>>
    BY <1>3, <1>4
  <2> QED BY <2>1
<1> QED BY <1>5, <1>6, <1>7, <1>8, <1>9

LEMMA RaceInvHolds == RaceInit /\ [][RaceNext]_raceVars => []RaceInv
<1> USE RaceAssumption DEF RaceAssumption
<1>1. RaceInit => RaceInv
  <2> SUFFICES ASSUME RaceInit PROVE RaceInv
    OBVIOUS
  <2>1. NoReport \in RaceRecords /\ NoReport.room = RNone /\ NoReport.kind = "none"
    BY DEF NoReport, RaceRecords
  <2>2. NoResults \in [1..MaxRaces -> Seq(RCourses \cup {RNone})] /\ \A k \in 1..MaxRaces : NoResults[k] = <<>>
    BY DEF NoResults
  <2>3. RaceTypeOK
    BY <2>1, <2>2 DEF RaceInit, RaceTypeOK
  <2>4. RoomsKnown
    BY <2>1 DEF RaceInit, RoomsKnown
  <2>5. NamesOwn /\ FiledByRace /\ ResultsForgotten
    BY <2>2 DEF RaceInit, NamesOwn, FiledByRace, ResultsForgotten
  <2>6. CourseOfRace
    <3> SUFFICES ASSUME NEW n \in RNames, NEW k \in 1..MaxRaces,
                        NEW i \in DOMAIN results[n][k], NEW j \in DOMAIN results[n][k]
                 PROVE  results[n][k][i] = results[n][k][j]
      BY DEF CourseOfRace
    <3>1. results[n][k] = <<>>
      BY <2>2 DEF RaceInit
    <3> QED BY <3>1
  <2> QED BY <2>3, <2>4, <2>5, <2>6 DEF RaceInv
<1>2. RaceInv /\ [RaceNext]_raceVars => RaceInv'
  <2> SUFFICES ASSUME RaceInv, [RaceNext]_raceVars PROVE RaceInv'
    OBVIOUS
  <2>1. CASE UNCHANGED raceVars
    BY <2>1 DEF raceVars, RaceInv, RaceTypeOK, RoomsKnown, NamesOwn, FiledByRace, CourseOfRace,
                ResultsForgotten, HasResults, Open, In
  <2>2. ASSUME NEW p \in RPlayers, NEW g \in RRooms, JoinRoom(p, g) \/ \E n \in RNames : CreateRoom(p, g, n)
        PROVE  RaceInv'
    BY <2>2, RaceStepRooms
  <2>3. ASSUME NEW p \in RPlayers, LeaveRoom(p)
        PROVE  RaceInv'
    BY <2>3, RaceStepLeave
  <2>4. ASSUME NEW p \in RPlayers, NEW k \in {"course", "stage", "result"},
               NEW c \in RCourses \cup {RNone}, Report(p, k, c)
        PROVE  RaceInv'
    BY <2>4, RaceStepReport
  <2>5. ASSUME NEW p \in RPlayers, PlayerEntry(p)
        PROVE  RaceInv'
    BY <2>5, RaceStepReport
  <2>6. ASSUME NEW p \in RPlayers, SelectCourse(p) \/ RaceResult(p)
        PROVE  RaceInv'
    BY <2>6, RaceStepCourse, RaceStepResult
  <2>7. ASSUME NEW g \in RRooms, TimerResults(g) \/ TimerPlayers(g)
        PROVE  RaceInv'
    BY <2>7, RaceStepTimer
  <2>8. CASE RaceReload
    BY <2>8, RaceStepReload
  <2> QED BY <2>1, <2>2, <2>3, <2>4, <2>5, <2>6, <2>7, <2>8 DEF RaceNext
<1> QED BY <1>1, <1>2, PTL

(***************************************************************************)
(* What is kept of the races in a room, with handlers that file a record   *)
(* after their sender has left and a timer that runs beside them.          *)
(***************************************************************************)

\* All results of one race of a room are of one course, and no results of a
\* closed room outlive its timer, except those that a report brought to a closed
\* room, and under a name that was given twice (group.go:490-824, session.go:82-99).
THEOREM RacesAreFiled == RaceInit /\ [][RaceNext]_raceVars => []RacesInv
<1>1. RaceInv => RacesInv
  BY DEF RaceInv, RacesInv
<1> QED BY <1>1, RaceInvHolds, PTL

\* Whatever report is filed and whichever timer runs out, an open room keeps the
\* results it has: the deletion by name in the timer (session.go:86-97) reaches
\* only rooms that are closed, as long as no name is given twice.  What loses
\* them is a restart of the backend, which saves the rooms and not the results
\* (group.go:37-38, 858-868).
THEOREM OpenRoomsKeepResults == RaceInit /\ [][RaceNext]_raceVars => ResultsKept
<1> USE RaceAssumption DEF RaceAssumption
<1>1. RaceInv /\ [RaceNext]_raceVars =>
        [RaceReload \/ \A g \in RRooms : (Open(g) /\ name[g] \notin reused) =>
            \A k \in 1..MaxRaces : IsPrefix(results[name[g]][k], results'[name[g]][k])]_raceVars
  <2> SUFFICES ASSUME RaceInv, RaceNext, ~RaceReload, NEW g \in RRooms, Open(g), name[g] \notin reused,
                      NEW k \in 1..MaxRaces
               PROVE  IsPrefix(results[name[g]][k], results'[name[g]][k])
    OBVIOUS
  <2> USE DEF RaceInv
  <2>1. PICK n \in RNames : n = name[g]
    BY DEF Open, In, RoomsKnown, RaceTypeOK
  <2>2. results[n] \in [1..MaxRaces -> Seq(RCourses \cup {RNone})] /\ results[n][k] \in Seq(RCourses \cup {RNone})
    BY DEF RaceTypeOK
  <2>3. results'[n][k] = results[n][k] \/ \E c \in RCourses \cup {RNone} : results'[n][k] = Append(results[n][k], c)
    <3>1. CASE results' = results
      BY <3>1
    <3>2. ASSUME NEW p \in RPlayers, RaceResult(p), results' # results
          PROVE  results'[n][k] = results[n][k] \/ \E c \in RCourses \cup {RNone} : results'[n][k] = Append(results[n][k], c)
      <4>0. report[p].kind = "result"
        BY <3>2 DEF RaceResult
      <4>1. PICK h \in RRooms, m \in RNames : h = report[p].room /\ m = name[h]
        BY <4>0, ReportedRoom
      <4>2. PICK num \in 1..MaxRaces, c \in RCourses \cup {RNone} : num = race[h].num /\ c = race[h].course
        <5>1. race[h].num # 0
          BY <3>2, <4>1 DEF RaceResult
        <5>2. race[h].num \in 0..MaxRaces /\ race[h].course \in RCourses \cup {RNone}
          BY SMTT(30) DEF RaceTypeOK
        <5> QED BY <5>1, <5>2, SMTT(30)
      <4>3. results' = [results EXCEPT ![m][num] = Append(results[m][num], c)]
        BY <3>2, <4>1, <4>2, SMTT(30) DEF RaceResult
      <4> QED BY <2>2, <4>3 DEF RaceTypeOK
    <3>3. ASSUME NEW h \in RRooms, TimerResults(h)
          PROVE  results'[n][k] = results[n][k]
      <4>1. name[h] \in RNames /\ ~Open(h)
        <5>1. PICK x \in timers : x[1] = h
          BY <3>3 DEF TimerResults
        <5> QED BY <5>1 DEF RoomsKnown, RaceTypeOK
      <4>2. name[h] # n
        BY <2>1, <4>1 DEF NamesOwn, RaceTypeOK
      <4> QED BY <3>3, <4>1, <4>2 DEF TimerResults, RaceTypeOK
    <3> QED BY <3>1, <3>2, <3>3 DEF RaceNext, JoinRoom, CreateRoom, LeaveRoom, Report, SelectCourse,
                                     PlayerEntry, TimerPlayers, statVars
  <2>4. \A s, t \in Seq(RCourses \cup {RNone}) :
           t = s \/ (\E c \in RCourses \cup {RNone} : t = Append(s, c)) => IsPrefix(s, t)
    <3> SUFFICES ASSUME NEW s \in Seq(RCourses \cup {RNone}), NEW t \in Seq(RCourses \cup {RNone}),
                        t = s \/ (\E c \in RCourses \cup {RNone} : t = Append(s, c))
                 PROVE  IsPrefix(s, t)
      OBVIOUS
    <3>1. Len(s) \in Nat /\ Len(s) <= Len(t) /\ \A i \in 1..Len(s) : s[i] = t[i]
      OBVIOUS
    <3>2. /\ SubSeq(s, 1, Len(s)) = [i \in 1..Len(s) |-> s[i]]
          /\ SubSeq(t, 1, Len(s)) = [i \in 1..Len(s) |-> t[i]]
      BY <3>1
    <3> QED BY <3>1, <3>2 DEF IsPrefix
  <2>5. results'[n][k] \in Seq(RCourses \cup {RNone})
    <3>1. \A s \in Seq(RCourses \cup {RNone}), c \in RCourses \cup {RNone} :
             Append(s, c) \in Seq(RCourses \cup {RNone})
      OBVIOUS
    <3> QED BY <2>2, <2>3, <3>1
  <2>6. IsPrefix(results[n][k], results'[n][k])
    BY <2>2, <2>3, <2>4, <2>5
  <2> QED BY <2>1, <2>6
<1> QED BY <1>1, RaceInvHolds, PTL DEF ResultsKept

=============================================================================
