--------------------------- MODULE QR2GroupProofs ---------------------------
(***************************************************************************)
(* Proofs about QR2Group, for any number of sessions, groups, heartbeat    *)
(* and message goroutines, and for every value of the bounds.              *)
(*                                                                         *)
(* RoomInv is inductive.  Only two operators write the variables that      *)
(* RoomsAgree speaks of, removeFromGroup and processResvOK (and Reload),   *)
(* so that each has a lemma of its own and the actions cite those.  The    *)
(* last part shows that QR2Group implements Rooms.                         *)
(***************************************************************************)
EXTENDS QR2Group, TLAPS

-----------------------------------------------------------------------------
(* Elections. *)

\* findNewServer picks a player of the room or nobody.
LEMMA NewServerIsPlayer ==
    ASSUME NEW P, NEW srv, IsNewServer(srv, P)
    PROVE  srv \in P \cup {NoSess}
BY DEF IsNewServer, Hosts

\* The match type stays one of the values dwc_mtype can have.
LEMMA MatchTypeType ==
    ASSUME TypeOK, NEW g \in Group, NEW srv \in Sess \cup {NoSess}
    PROVE  UpdatedMatchType(g, srv) \in MatchTypes
BY DEF UpdatedMatchType, TypeOK

\* When s leaves h, the server left behind is one of the other players, or
\* nobody, or h has no player any more.
LEMMA LeaveServer ==
    ASSUME TypeOK, RoomsAgree, GroupAssumption,
           NEW h \in Group, NEW s \in players[h], NEW srv,
           ServerAfterLeave(h, s, srv)
    PROVE  \/ players[h] \ {s} = {}
           \/ srv \in (players[h] \ {s}) \cup {NoSess}
<1>1. CASE players[h] \ {s} # {} /\ server[h] = s
  BY <1>1, NewServerIsPlayer DEF ServerAfterLeave
<1>2. CASE players[h] \ {s} # {} /\ server[h] # s
  BY <1>2 DEF ServerAfterLeave, RoomsAgree, OccupiedRegistered, ServerInGroup
<1> QED BY <1>1, <1>2

-----------------------------------------------------------------------------
(* Leaving a room. *)

\* The variables removeFromGroup writes keep their types.
LEMMA RemoveType ==
    ASSUME TypeOK, GroupAssumption, NEW s \in Sess, removeFromGroup(s)
    PROVE  /\ groupPtr'  \in [Sess -> Group \cup {NoGroup}]
           /\ groupName' \in [Sess -> Group \cup {NoGroup}]
           /\ groups'    \subseteq Group
           /\ players'   \in [Group -> SUBSET Sess]
           /\ server'    \in [Group -> Sess \cup {NoSess}]
           /\ lastJoin'  \in [Group -> 0 .. MaxJoin]
           /\ matchType' \in [Group -> MatchTypes]
<1> DEFINE h == groupPtr[s]
<1>1. CASE h = NoGroup
  BY <1>1 DEF removeFromGroup, TypeOK, roomVars
<1>2. CASE h # NoGroup
  <2>1. h \in Group BY <1>2 DEF TypeOK
  <2>2. PICK srv \in Sess \cup {NoSess} :
            /\ players'   = [players EXCEPT ![h] = @ \ {s}]
            /\ groups'    = GroupsAfterLeave(h, s)
            /\ server'    = [server EXCEPT ![h] = srv]
            /\ matchType' = [matchType EXCEPT ![h] =
                                MatchTypeAfterLeave(h, s, srv)]
            /\ groupPtr'  = [groupPtr EXCEPT ![s] = NoGroup]
            /\ groupName' = [groupName EXCEPT ![s] = NoGroup]
            /\ lastJoin'  = lastJoin
    BY <1>2 DEF removeFromGroup
  <2>3. MatchTypeAfterLeave(h, s, srv) \in MatchTypes
    BY <2>1, MatchTypeType DEF MatchTypeAfterLeave, TypeOK
  <2>4. groups' \subseteq Group BY <2>2 DEF GroupsAfterLeave, TypeOK
  <2>5. matchType' \in [Group -> MatchTypes] BY <2>2, <2>3 DEF TypeOK
  <2>6. /\ players' \in [Group -> SUBSET Sess]
        /\ server' \in [Group -> Sess \cup {NoSess}]
    BY <2>1, <2>2 DEF TypeOK
  <2> QED BY <2>2, <2>4, <2>5, <2>6 DEF TypeOK
<1> QED BY <1>1, <1>2

\* removeFromGroup keeps the room invariant.
LEMMA RemoveInv ==
    ASSUME TypeOK, RoomsAgree, GroupAssumption, NEW s \in Sess,
           removeFromGroup(s), joinIndex' = joinIndex
    PROVE  RoomsAgree'
<1> DEFINE h == groupPtr[s]
<1>1. CASE h = NoGroup
  BY <1>1 DEF removeFromGroup, roomVars, RoomsAgree, PointersAgree,
              OccupiedRegistered, JoinIndexUnique, ServerInGroup
<1>2. CASE h # NoGroup
  <2>1. h \in Group BY <1>2 DEF TypeOK
  <2>2. PICK srv \in Sess \cup {NoSess} :
            /\ ServerAfterLeave(h, s, srv)
            /\ players'   = [players EXCEPT ![h] = @ \ {s}]
            /\ groups'    = GroupsAfterLeave(h, s)
            /\ server'    = [server EXCEPT ![h] = srv]
            /\ groupPtr'  = [groupPtr EXCEPT ![s] = NoGroup]
            /\ groupName' = [groupName EXCEPT ![s] = NoGroup]
            /\ lastJoin'  = lastJoin
    BY <1>2 DEF removeFromGroup
  <2>3. s \in players[h] BY <2>1 DEF RoomsAgree, PointersAgree
  <2>4. \A g \in Group : players'[g] = IF g = h THEN players[h] \ {s}
                                               ELSE players[g]
    BY <2>2 DEF TypeOK
  <2>5. PointersAgree'
    <3> SUFFICES ASSUME NEW x \in Sess
                 PROVE  /\ groupName'[x] = groupPtr'[x]
                        /\ \A g \in Group : x \in players'[g] <=> groupPtr'[x] = g
      BY DEF PointersAgree
    <3>1. CASE x = s
      BY <3>1, <2>2, <2>4 DEF TypeOK, RoomsAgree, PointersAgree, GroupAssumption
    <3>2. CASE x # s
      BY <3>2, <2>2, <2>4 DEF TypeOK, RoomsAgree, PointersAgree
    <3> QED BY <3>1, <3>2
  <2>6. OccupiedRegistered'
    BY <2>2, <2>4 DEF GroupsAfterLeave, RoomsAgree, OccupiedRegistered
  <2>7. JoinIndexUnique'
    BY <2>2, <2>4 DEF RoomsAgree, JoinIndexUnique, TypeOK
  <2>8. ServerInGroup'
    <3> SUFFICES ASSUME NEW g \in groups'
                 PROVE  server'[g] \in players'[g] \cup {NoSess}
      BY DEF ServerInGroup
    <3>0. g \in groups /\ g \in Group
      BY <2>2 DEF GroupsAfterLeave, TypeOK
    <3>1. CASE g = h
      <4>1. players[h] \ {s} # {}
        BY <3>1, <2>2 DEF GroupsAfterLeave
      <4>2. srv \in (players[h] \ {s}) \cup {NoSess}
        BY <4>1, <2>1, <2>2, <2>3, LeaveServer
      <4>3. server'[g] = srv BY <3>1, <2>1, <2>2 DEF TypeOK
      <4> QED BY <3>0, <3>1, <4>2, <4>3, <2>4
    <3>2. CASE g # h
      BY <3>0, <3>2, <2>2, <2>4 DEF TypeOK, RoomsAgree, ServerInGroup
    <3> QED BY <3>1, <3>2
  <2> QED BY <2>5, <2>6, <2>7, <2>8 DEF RoomsAgree
<1> QED BY <1>1, <1>2

-----------------------------------------------------------------------------
(* Joining a room. *)

\* A group object that is free is not the group of anybody.
LEMMA FreeGroupIsNobodys ==
    ASSUME TypeOK, NEW g \in Group, FreeGroup(g), NEW x \in Sess
    PROVE  groupPtr[x] # g /\ groupName[x] # g /\ x \notin players[g]
BY DEF FreeGroup, TypeOK

\* A sender without room that opens one keeps the types and the invariant.
LEMMA NewGroupInv ==
    ASSUME TypeOK, RoomsAgree, GroupAssumption,
           NEW s \in Sess, NEW d \in Sess, NEW g \in Group,
           ResvOKNewGroup(s, d, g)
    PROVE  /\ RoomsAgree'
           /\ joinIndex' \in [Sess -> -1 .. MaxJoin]
           /\ groupPtr'  \in [Sess -> Group \cup {NoGroup}]
           /\ groupName' \in [Sess -> Group \cup {NoGroup}]
           /\ groups'    \subseteq Group
           /\ players'   \in [Group -> SUBSET Sess]
           /\ server'    \in [Group -> Sess \cup {NoSess}]
           /\ lastJoin'  \in [Group -> 0 .. MaxJoin]
           /\ matchType' \in [Group -> MatchTypes]
<1> DEFINE h == groupPtr[d]
<1>f. FreeGroup(g) BY DEF ResvOKNewGroup
<1>p. /\ groupPtr[s] = NoGroup
      /\ groupPtr'  = [groupPtr EXCEPT ![s] = g, ![d] = g]
      /\ groupName' = [groupName EXCEPT ![s] = g, ![d] = g]
  BY DEF ResvOKNewGroup
<1>m. data[s].mtype \in MatchTypes BY DEF TypeOK
<1>1. CASE d = s
  <2>1. /\ players'   = [players EXCEPT ![g] = {s}]
        /\ lastJoin'  = [lastJoin EXCEPT ![g] = 0]
        /\ joinIndex' = [joinIndex EXCEPT ![s] = 0]
        /\ groups'    = groups \cup {g}
        /\ server'    = [server EXCEPT ![g] = s]
        /\ matchType' = [matchType EXCEPT ![g] = data[s].mtype]
    BY <1>1 DEF ResvOKNewGroup
  <2>2. /\ joinIndex' \in [Sess -> -1 .. MaxJoin]
        /\ groupPtr'  \in [Sess -> Group \cup {NoGroup}]
        /\ groupName' \in [Sess -> Group \cup {NoGroup}]
        /\ groups'    \subseteq Group
        /\ players'   \in [Group -> SUBSET Sess]
        /\ server'    \in [Group -> Sess \cup {NoSess}]
        /\ lastJoin'  \in [Group -> 0 .. MaxJoin]
        /\ matchType' \in [Group -> MatchTypes]
    BY <2>1, <1>p, <1>m, SMTT(30) DEF TypeOK, GroupAssumption
  <2>3. PointersAgree'
    BY <2>1, <1>p, <1>f, <1>1, FreeGroupIsNobodys
    DEF TypeOK, RoomsAgree, PointersAgree, GroupAssumption
  <2>4. OccupiedRegistered'
    BY <2>1 DEF TypeOK, RoomsAgree, OccupiedRegistered
  <2>5. JoinIndexUnique'
    BY <2>1, <1>p DEF TypeOK, RoomsAgree, JoinIndexUnique, PointersAgree,
                      GroupAssumption
  <2>6. ServerInGroup'
    BY <2>1 DEF TypeOK, RoomsAgree, ServerInGroup
  <2> QED BY <2>2, <2>3, <2>4, <2>5, <2>6 DEF RoomsAgree
<1>2. CASE d # s /\ h = NoGroup
  <2>1. /\ MaxJoin >= 1
        /\ players'   = [players EXCEPT ![g] = {s, d}]
        /\ lastJoin'  = [lastJoin EXCEPT ![g] = 1]
        /\ joinIndex' = [joinIndex EXCEPT ![s] = 0, ![d] = 1]
        /\ groups'    = groups \cup {g}
        /\ server'    = [server EXCEPT ![g] = s]
        /\ matchType' = [matchType EXCEPT ![g] = data[s].mtype]
    BY <1>2 DEF ResvOKNewGroup
  <2>2. /\ joinIndex' \in [Sess -> -1 .. MaxJoin]
        /\ lastJoin'  \in [Group -> 0 .. MaxJoin]
    BY <2>1, SMTT(30) DEF TypeOK, GroupAssumption
  <2>t. /\ groupPtr'  \in [Sess -> Group \cup {NoGroup}]
        /\ groupName' \in [Sess -> Group \cup {NoGroup}]
        /\ groups'    \subseteq Group
        /\ players'   \in [Group -> SUBSET Sess]
        /\ server'    \in [Group -> Sess \cup {NoSess}]
        /\ matchType' \in [Group -> MatchTypes]
    BY <2>1, <1>p, <1>m DEF TypeOK
  <2>3. PointersAgree'
    BY <2>1, <1>p, <1>f, <1>2, FreeGroupIsNobodys
    DEF TypeOK, RoomsAgree, PointersAgree, GroupAssumption
  <2>4. OccupiedRegistered'
    BY <2>1 DEF TypeOK, RoomsAgree, OccupiedRegistered
  <2>5. JoinIndexUnique'
    BY <2>1, <1>p, <1>2 DEF TypeOK, RoomsAgree, JoinIndexUnique, PointersAgree,
                            GroupAssumption
  <2>6. ServerInGroup'
    BY <2>1 DEF TypeOK, RoomsAgree, ServerInGroup
  <2> QED BY <2>2, <2>t, <2>3, <2>4, <2>5, <2>6 DEF RoomsAgree
<1>3. CASE d # s /\ h # NoGroup
  <2>0. h \in Group BY <1>3 DEF TypeOK
  <2>h. h # g BY <1>f, FreeGroupIsNobodys
  <2>1. PICK srv \in Sess \cup {NoSess} :
            /\ ServerAfterLeave(h, d, srv)
            /\ players'   = [players EXCEPT ![g] = {s, d}, ![h] = @ \ {d}]
            /\ groups'    = GroupsAfterLeave(h, d) \cup {g}
            /\ server'    = [server EXCEPT ![g] = s, ![h] = srv]
            /\ matchType' = [matchType EXCEPT
                                 ![g] = data[s].mtype,
                                 ![h] = MatchTypeAfterLeave(h, d, srv)]
    BY <1>3 DEF ResvOKNewGroup
  <2>2. /\ MaxJoin >= 1
        /\ lastJoin'  = [lastJoin EXCEPT ![g] = 1]
        /\ joinIndex' = [joinIndex EXCEPT ![s] = 0, ![d] = 1]
    BY <1>3 DEF ResvOKNewGroup
  <2>3. MatchTypeAfterLeave(h, d, srv) \in MatchTypes
    BY <2>0, MatchTypeType DEF MatchTypeAfterLeave, TypeOK
  <2>4. groups' \subseteq Group BY <2>1 DEF GroupsAfterLeave, TypeOK
  <2>5. matchType' \in [Group -> MatchTypes] BY <2>1, <2>3, <1>m DEF TypeOK
  <2>6. /\ players' \in [Group -> SUBSET Sess]
        /\ server' \in [Group -> Sess \cup {NoSess}]
    BY <2>1, <2>0 DEF TypeOK
  <2>7. /\ joinIndex' \in [Sess -> -1 .. MaxJoin]
        /\ lastJoin'  \in [Group -> 0 .. MaxJoin]
    BY <2>2 DEF TypeOK, GroupAssumption
  <2>8. /\ groupPtr'  \in [Sess -> Group \cup {NoGroup}]
        /\ groupName' \in [Sess -> Group \cup {NoGroup}]
    BY <1>p DEF TypeOK
  <2>9. \A f \in Group : players'[f] = IF f = h THEN players[h] \ {d}
                                     ELSE IF f = g THEN {s, d} ELSE players[f]
    BY <2>1, <2>h, <2>0 DEF TypeOK
  <2>10. PointersAgree'
    <3>1. \A x \in Sess : /\ groupPtr'[x]  = IF x \in {s, d} THEN g ELSE groupPtr[x]
                          /\ groupName'[x] = IF x \in {s, d} THEN g ELSE groupName[x]
      BY <1>p DEF TypeOK
    <3>2. \A x \in Sess : /\ groupName[x] = groupPtr[x] /\ groupPtr[x] # g
                          /\ \A f \in Group : x \in players[f] <=> groupPtr[x] = f
      BY <1>f, FreeGroupIsNobodys DEF RoomsAgree, PointersAgree
    <3>3. groupPtr[s] \notin Group
      BY <1>p DEF GroupAssumption
    <3> QED BY <2>9, <3>1, <3>2, <3>3, <2>h DEF PointersAgree
  <2>11. OccupiedRegistered'
    BY <2>1, <2>9 DEF GroupsAfterLeave, RoomsAgree, OccupiedRegistered
  <2>12. JoinIndexUnique'
    BY <2>2, <2>9, <1>p, <1>3, <2>h
    DEF TypeOK, RoomsAgree, JoinIndexUnique, PointersAgree, GroupAssumption
  <2>13. ServerInGroup'
    <3> SUFFICES ASSUME NEW f \in groups'
                 PROVE  server'[f] \in players'[f] \cup {NoSess}
      BY DEF ServerInGroup
    <3>0. f \in Group BY <2>4
    <3>1. CASE f = h
      <4>1. players[h] \ {d} # {} BY <3>1, <2>1, <2>h DEF GroupsAfterLeave
      <4>2. d \in players[h] BY <2>0 DEF RoomsAgree, PointersAgree
      <4>3. srv \in (players[h] \ {d}) \cup {NoSess}
        BY <4>1, <4>2, <2>0, <2>1, LeaveServer
      <4>4. server'[f] = srv BY <3>1, <2>0, <2>1, <2>h DEF TypeOK
      <4> QED BY <3>0, <3>1, <4>3, <4>4, <2>9
    <3>2. CASE f = g
      BY <3>2, <2>1, <2>9, <2>h DEF TypeOK
    <3>3. CASE f # g /\ f # h
      <4>1. f \in groups BY <3>3, <2>1 DEF GroupsAfterLeave
      <4> QED BY <4>1, <3>0, <3>3, <2>1, <2>9 DEF TypeOK, RoomsAgree, ServerInGroup
    <3> QED BY <3>1, <3>2, <3>3
  <2> QED BY <2>4, <2>5, <2>6, <2>7, <2>8, <2>10, <2>11, <2>12, <2>13 DEF RoomsAgree
<1> QED BY <1>1, <1>2, <1>3

\* A destination that joins the sender's room keeps the types and the invariant.
LEMMA JoinInv ==
    ASSUME TypeOK, RoomsAgree, GroupAssumption,
           NEW s \in Sess, NEW d \in Sess, ResvOKJoin(s, d)
    PROVE  /\ RoomsAgree'
           /\ joinIndex' \in [Sess -> -1 .. MaxJoin]
           /\ groupPtr'  \in [Sess -> Group \cup {NoGroup}]
           /\ groupName' \in [Sess -> Group \cup {NoGroup}]
           /\ groups'    \subseteq Group
           /\ players'   \in [Group -> SUBSET Sess]
           /\ server'    \in [Group -> Sess \cup {NoSess}]
           /\ lastJoin'  \in [Group -> 0 .. MaxJoin]
           /\ matchType' \in [Group -> MatchTypes]
<1> DEFINE g == groupPtr[s]
           h == groupPtr[d]
<1>g. g \in Group BY DEF ResvOKJoin, TypeOK
<1>1. CASE d \in players[g]
  BY <1>1 DEF ResvOKJoin, roomVars, TypeOK, RoomsAgree, PointersAgree,
              OccupiedRegistered, JoinIndexUnique, ServerInGroup
<1>2. CASE d \notin players[g]
  <2>1. /\ lastJoin[g] < MaxJoin
        /\ lastJoin'  = [lastJoin EXCEPT ![g] = @ + 1]
        /\ joinIndex' = [joinIndex EXCEPT ![d] = lastJoin[g] + 1]
        /\ groupPtr'  = [groupPtr EXCEPT ![d] = g]
        /\ groupName' = [groupName EXCEPT ![d] = g]
    BY <1>2 DEF ResvOKJoin
  <2>2. /\ joinIndex' \in [Sess -> -1 .. MaxJoin]
        /\ lastJoin'  \in [Group -> 0 .. MaxJoin]
    BY <2>1, <1>g DEF TypeOK, GroupAssumption
  <2>3. /\ groupPtr'  \in [Sess -> Group \cup {NoGroup}]
        /\ groupName' \in [Sess -> Group \cup {NoGroup}]
    BY <2>1, <1>g DEF TypeOK
  <2>4. h # g BY <1>2, <1>g DEF RoomsAgree, PointersAgree
  <2>s. s \in players[g] /\ g \in groups
    BY <1>g DEF RoomsAgree, PointersAgree, OccupiedRegistered
  <2>5. CASE h = NoGroup
    <3>1. /\ players' = [players EXCEPT ![g] = @ \cup {d}]
          /\ groups' = groups /\ server' = server /\ matchType' = matchType
      BY <1>2, <2>5 DEF ResvOKJoin
    <3>2. /\ groups'    \subseteq Group
          /\ players'   \in [Group -> SUBSET Sess]
          /\ server'    \in [Group -> Sess \cup {NoSess}]
          /\ matchType' \in [Group -> MatchTypes]
      BY <3>1 DEF TypeOK
    <3>3. \A f \in Group : players'[f] = IF f = g THEN players[g] \cup {d}
                                                 ELSE players[f]
      BY <3>1 DEF TypeOK
    <3>4. PointersAgree'
      BY <3>3, <2>1, <2>5, <1>g
      DEF TypeOK, RoomsAgree, PointersAgree, GroupAssumption
    <3>5. OccupiedRegistered'
      BY <3>1, <3>3, <2>s DEF RoomsAgree, OccupiedRegistered
    <3>6. JoinIndexUnique'
      BY <3>3, <2>1, <2>5, <1>g, <1>2
      DEF TypeOK, RoomsAgree, PointersAgree, JoinIndexUnique, GroupAssumption
    <3>7. ServerInGroup'
      BY <3>1, <3>3 DEF TypeOK, RoomsAgree, ServerInGroup
    <3> QED BY <2>2, <2>3, <3>2, <3>4, <3>5, <3>6, <3>7 DEF RoomsAgree
  <2>6. CASE h # NoGroup
    <3>0. h \in Group BY <2>6 DEF TypeOK
    <3>1. PICK srv \in Sess \cup {NoSess} :
              /\ ServerAfterLeave(h, d, srv)
              /\ players'   = [players EXCEPT ![g] = @ \cup {d}, ![h] = @ \ {d}]
              /\ groups'    = GroupsAfterLeave(h, d)
              /\ server'    = [server EXCEPT ![h] = srv]
              /\ matchType' = [matchType EXCEPT ![h] =
                                   MatchTypeAfterLeave(h, d, srv)]
      BY <1>2, <2>6 DEF ResvOKJoin
    <3>2. MatchTypeAfterLeave(h, d, srv) \in MatchTypes
      BY <3>0, MatchTypeType DEF MatchTypeAfterLeave, TypeOK
    <3>3. groups' \subseteq Group BY <3>1 DEF GroupsAfterLeave, TypeOK
    <3>4. matchType' \in [Group -> MatchTypes] BY <3>1, <3>2 DEF TypeOK
    <3>5. /\ players' \in [Group -> SUBSET Sess]
          /\ server' \in [Group -> Sess \cup {NoSess}]
      BY <3>1, <3>0, <1>g DEF TypeOK
    <3>6. \A f \in Group : players'[f] = IF f = h THEN players[h] \ {d}
                                       ELSE IF f = g THEN players[g] \cup {d}
                                       ELSE players[f]
      BY <3>1, <2>4, <3>0 DEF TypeOK
    <3>7. PointersAgree'
      BY <3>6, <2>1, <2>4, <1>g
      DEF TypeOK, RoomsAgree, PointersAgree, GroupAssumption
    <3>8. OccupiedRegistered'
      BY <3>1, <3>6, <2>s, <2>4 DEF GroupsAfterLeave, RoomsAgree, OccupiedRegistered
    <3>9. JoinIndexUnique'
      BY <3>6, <2>1, <2>4, <1>g, <1>2
      DEF TypeOK, RoomsAgree, PointersAgree, JoinIndexUnique, GroupAssumption
    <3>10. ServerInGroup'
      <4> SUFFICES ASSUME NEW f \in groups'
                   PROVE  server'[f] \in players'[f] \cup {NoSess}
        BY DEF ServerInGroup
      <4>0. f \in Group /\ f \in groups BY <3>1, <3>3 DEF GroupsAfterLeave
      <4>1. CASE f = h
        <5>1. players[h] \ {d} # {} BY <4>1, <3>1 DEF GroupsAfterLeave
        <5>2. d \in players[h] BY <3>0 DEF RoomsAgree, PointersAgree
        <5>3. srv \in (players[h] \ {d}) \cup {NoSess}
          BY <5>1, <5>2, <3>0, <3>1, LeaveServer
        <5>4. server'[f] = srv BY <4>1, <3>0, <3>1 DEF TypeOK
        <5> QED BY <4>0, <4>1, <5>3, <5>4, <3>6
      <4>2. CASE f # h
        BY <4>0, <4>2, <3>1, <3>6 DEF TypeOK, RoomsAgree, ServerInGroup
      <4> QED BY <4>1, <4>2
    <3> QED BY <2>2, <2>3, <3>3, <3>4, <3>5, <3>7, <3>8, <3>9, <3>10 DEF RoomsAgree
  <2> QED BY <2>5, <2>6
<1> QED BY <1>1, <1>2

\* The whole of processResvOK keeps the types and the invariant.
LEMMA ResvOKInv ==
    ASSUME TypeOK, RoomsAgree, GroupAssumption,
           NEW s \in Sess, NEW d \in Sess, processResvOK(s, d)
    PROVE  /\ RoomsAgree'
           /\ joinIndex' \in [Sess -> -1 .. MaxJoin]
           /\ groupPtr'  \in [Sess -> Group \cup {NoGroup}]
           /\ groupName' \in [Sess -> Group \cup {NoGroup}]
           /\ groups'    \subseteq Group
           /\ players'   \in [Group -> SUBSET Sess]
           /\ server'    \in [Group -> Sess \cup {NoSess}]
           /\ lastJoin'  \in [Group -> 0 .. MaxJoin]
           /\ matchType' \in [Group -> MatchTypes]
<1>1. CASE UNCHANGED <<joinIndex, groupPtr, groupName, roomVars>>
  BY <1>1 DEF roomVars, TypeOK, RoomsAgree, PointersAgree,
              OccupiedRegistered, JoinIndexUnique, ServerInGroup
<1>2. CASE \E g \in Group : ResvOKNewGroup(s, d, g)
  BY <1>2, NewGroupInv
<1>3. CASE ResvOKJoin(s, d)
  BY <1>3, JoinInv
<1> QED BY <1>1, <1>2, <1>3 DEF processResvOK

-----------------------------------------------------------------------------
(* The other steps. *)

\* A step that leaves rooms, pointers and join indices alone keeps RoomsAgree, also
\* when it elects a server among the players of one room.
LEMMA RoomsUnchangedInv ==
    ASSUME RoomsAgree,
           UNCHANGED <<joinIndex, groupPtr, groupName, groups, players, lastJoin>>,
           ServerInGroup'
    PROVE  RoomsAgree'
BY DEF RoomsAgree, PointersAgree, OccupiedRegistered, JoinIndexUnique

\* A reload rebuilds from the saved names what the pointers said before it.
LEMMA ReloadInv ==
    ASSUME TypeOK, RoomsAgree, GroupAssumption, Reload
    PROVE  RoomsAgree'
<1>1. /\ groupName' = [s \in Sess |-> IF s \in Live THEN groupName[s] ELSE NoGroup]
      /\ groupPtr'  = [s \in Sess |-> LoadedGroup(s)]
      /\ joinIndex' = [s \in Sess |-> IF s \in Live THEN joinIndex[s] ELSE -1]
      /\ players'   = [g \in Group |-> LoadedPlayers(g)]
      /\ groups' = groups /\ lastJoin' = lastJoin
  BY DEF Reload
<1>2. \A g \in Group, s \in Sess :
          s \in players'[g] <=> s \in players[g] /\ s \in Live
  BY <1>1 DEF LoadedPlayers, LoadedGroup, RoomsAgree, PointersAgree,
              OccupiedRegistered, TypeOK, GroupAssumption
<1>3. \A g \in Group : players'[g] \subseteq players[g]
  <2>1. \A g \in Group : players'[g] \subseteq Sess
    BY <1>1 DEF LoadedPlayers
  <2> QED BY <1>2, <2>1
<1>4. PointersAgree'
  BY <1>1, <1>2 DEF LoadedGroup, RoomsAgree, PointersAgree, OccupiedRegistered,
                    TypeOK, GroupAssumption
<1>5. OccupiedRegistered'
  BY <1>1, <1>3 DEF RoomsAgree, OccupiedRegistered
<1>6. JoinIndexUnique'
  <2> SUFFICES ASSUME NEW g \in Group, NEW s \in players'[g]
               PROVE  /\ joinIndex'[s] \in 0 .. lastJoin'[g]
                      /\ \A d \in players'[g] : joinIndex'[s] = joinIndex'[d] => s = d
    BY DEF JoinIndexUnique
  <2>1. players[g] \subseteq Sess BY DEF TypeOK
  <2>2. \A d \in players'[g] : d \in Live /\ d \in Sess /\ joinIndex'[d] = joinIndex[d]
    BY <1>1, <1>2, <1>3, <2>1
  <2> QED BY <2>2, <1>1, <1>3 DEF RoomsAgree, JoinIndexUnique
<1>7. ServerInGroup'
  <2> SUFFICES ASSUME NEW g \in groups'
               PROVE  server'[g] \in players'[g] \cup {NoSess}
    BY DEF ServerInGroup
  <2>1. g \in Group /\ g \in groups BY <1>1 DEF TypeOK
  <2>2. IsNewServer(server'[g], LoadedPlayers(g)) BY <2>1 DEF Reload
  <2>3. server'[g] \in LoadedPlayers(g) \cup {NoSess}
    BY <2>2, NewServerIsPlayer
  <2> QED BY <2>1, <2>3, <1>1
<1> QED BY <1>4, <1>5, <1>6, <1>7 DEF RoomsAgree

\* The last step of a heartbeat elects a player of the room, or leaves the server.
LEMMA HeartbeatGroupInv ==
    ASSUME TypeOK, RoomsAgree, GroupAssumption,
           NEW t \in Heartbeats, HeartbeatGroup(t)
    PROVE  RoomsAgree' /\ TypeOK'
<1> DEFINE g == beat[t].group
<1>0. g \in Group \cup {NoGroup} BY DEF TypeOK
<1>1. UNCHANGED <<sessVars, groups, players, lastJoin, msg>>
  BY DEF HeartbeatGroup
<1>2. /\ server' \in [Group -> Sess \cup {NoSess}]
      /\ matchType' \in [Group -> MatchTypes]
      /\ ServerInGroup'
  <2>1. CASE UNCHANGED <<server, matchType>>
    BY <2>1, <1>1 DEF RoomsAgree, ServerInGroup, TypeOK
  <2>2. CASE g # NoGroup /\ findNewServer(g)
    <3>1. PICK srv \in players[g] \cup {NoSess} :
              /\ server' = [server EXCEPT ![g] = srv]
              /\ matchType' = [matchType EXCEPT ![g] = UpdatedMatchType(g, srv)]
      BY <2>2 DEF findNewServer
    <3>2. g \in Group /\ srv \in Sess \cup {NoSess}
      BY <1>0, <2>2 DEF TypeOK
    <3>3. UpdatedMatchType(g, srv) \in MatchTypes BY <3>2, MatchTypeType
    <3> QED BY <3>1, <3>2, <3>3, <1>1 DEF RoomsAgree, ServerInGroup, TypeOK
  <2>3. CASE /\ g # NoGroup
             /\ matchType' = [matchType EXCEPT ![g] =
                                  UpdatedMatchType(g, server[g])]
             /\ UNCHANGED server
    <3>1. g \in Group /\ server[g] \in Sess \cup {NoSess}
      BY <1>0, <2>3 DEF TypeOK
    <3>2. UpdatedMatchType(g, server[g]) \in MatchTypes BY <3>1, MatchTypeType
    <3> QED BY <2>3, <3>2, <1>1 DEF RoomsAgree, ServerInGroup, TypeOK
  <2> QED BY <2>1, <2>2, <2>3 DEF HeartbeatGroup
<1>3. beat' \in [Heartbeats -> [sess  : Sess \cup {NoSess},
                                group : Group \cup {NoGroup}]]
  BY DEF HeartbeatGroup, NoBeat, TypeOK
<1>4. TypeOK' BY <1>1, <1>2, <1>3 DEF TypeOK, sessVars, HeartbeatGroup, Locked
<1>5. RoomsAgree' BY <1>1, <1>2, RoomsUnchangedInv DEF sessVars
<1> QED BY <1>4, <1>5

-----------------------------------------------------------------------------
(* Setting a profile ID. *)

\* The steps that call setProfileID and remove session old for it.
ProfileStep(old) ==
    \/ \E s \in Sess : LinkSession(s, old)
    \/ \E s, d \in Sess : GPResvFrom(s, d, old)
    \/ GPResvTo(old)
    \/ \E t \in Messages : MsgSender(t, old)

\* A report under way names two sessions.
LEMMA ReportNames ==
    ASSUME TypeOK, gp.next \in {"to", "join"}
    PROVE  gp.from \in Sess /\ gp.to \in Sess /\ gp \in Reports
BY DEF TypeOK, NoReport, Reports

LEMMA ProfileSteps ==
    ASSUME TypeOK, NEW old \in Sess \cup {NoSess}, ProfileStep(old)
    PROVE  /\ \E s \in Sess : setProfileID(s, old)
           /\ UNCHANGED <<data, joinIndex, resvID, hasResv, beat>>
           /\ msg' \in [Messages -> Pointers] /\ gp' \in {NoReport} \cup Reports
<1>1. ASSUME NEW s \in Sess, LinkSession(s, old)
      PROVE  /\ setProfileID(s, old)
             /\ UNCHANGED <<data, joinIndex, resvID, hasResv, beat, msg, gp>>
  BY <1>1 DEF LinkSession, Locked
<1>2. ASSUME NEW s \in Sess, NEW d \in Sess, GPResvFrom(s, d, old)
      PROVE  /\ setProfileID(s, old)
             /\ UNCHANGED <<data, joinIndex, resvID, hasResv, beat, msg>> /\ gp' \in Reports
  BY <1>2 DEF GPResvFrom, Reports
<1>3. ASSUME GPResvTo(old)
      PROVE  /\ gp.to \in Sess /\ setProfileID(gp.to, old)
             /\ UNCHANGED <<data, joinIndex, resvID, hasResv, beat, msg>> /\ gp' \in Reports
  <2>1. gp \in Reports /\ gp.to \in Sess BY <1>3, ReportNames DEF GPResvTo
  <2> QED BY <1>3, <2>1 DEF GPResvTo, Reports
<1>4. ASSUME NEW t \in Messages, MsgSender(t, old)
      PROVE  /\ msg[t].found \in Sess /\ setProfileID(msg[t].found, old)
             /\ UNCHANGED <<data, joinIndex, resvID, hasResv, beat, gp>>
             /\ msg' \in [Messages -> Pointers]
  <2>1. msg[t] \in Pointers /\ msg[t].found \in Sess /\ NoMsg \in Pointers
    BY <1>4 DEF MsgSender, TypeOK, Pointers, NoMsg
  <2>2. [msg[t] EXCEPT !.found = NoSess, !.sender = msg[t].found] \in Pointers
    BY <2>1 DEF Pointers
  <2>3. msg' \in [Messages -> Pointers]
    BY <1>4, <2>1, <2>2 DEF MsgSender, TypeOK
  <2> QED BY <1>4, <2>1, <2>3 DEF MsgSender
<1> QED BY <1>1, <1>2, <1>3, <1>4 DEF ProfileStep, TypeOK

\* setProfileID removes one session at most, and nothing else becomes of the map.
LEMMA ProfileSet ==
    ASSUME TypeOK, NEW s \in Sess, NEW old \in Sess \cup {NoSess}, setProfileID(s, old)
    PROVE  /\ status' \in [Sess -> Statuses]
           /\ \/ UNCHANGED <<groupPtr, groupName, roomVars>> /\ Live' = Live
              \/ old \in Live /\ removeFromGroup(old) /\ Live' = Live \ {old}
<1> DEFINE linked == [status EXCEPT ![s] = IF @ = "new" THEN "linked" ELSE "stray"]
<1>1. linked \in [Sess -> Statuses]
  BY DEF TypeOK, Statuses
<1>2. CASE status[s] \notin {"new", "gone"} /\ UNCHANGED <<status, groupPtr, groupName, roomVars>>
  BY <1>2 DEF TypeOK, Live
<1>3. CASE /\ status[s] \in {"new", "gone"} /\ status' = linked
           /\ UNCHANGED <<groupPtr, groupName, roomVars>>
  BY <1>1, <1>3 DEF TypeOK, Live
<1>4. CASE /\ status[s] \in {"new", "gone"} /\ old \in Live
           /\ status' = [linked EXCEPT ![old] = Removed(@)]
           /\ removeFromGroup(old)
  <2>1. old \in Sess /\ Removed(linked[old]) \in {"gone", "left"}
    BY <1>4 DEF Live, Removed
  <2>2. status' \in [Sess -> Statuses]
    BY <1>1, <1>4, <2>1 DEF Statuses
  <2>3. \A x \in Sess \ {old} : status'[x] = linked[x]
    BY <1>1, <1>4
  <2>4. status'[old] \in {"gone", "left"}
    BY <1>1, <1>4, <2>1
  <2>5. Live' = Live \ {old}
    BY <1>4, <2>3, <2>4 DEF Live, TypeOK
  <2> QED BY <1>4, <2>2, <2>5
<1> HIDE DEF linked
<1> QED BY <1>2, <1>3, <1>4 DEF setProfileID, linked

-----------------------------------------------------------------------------
(* The invariant. *)

LEMMA InitInv == GroupAssumption /\ Init => RoomInv
<1> SUFFICES ASSUME GroupAssumption, Init PROVE RoomInv OBVIOUS
<1>1. TypeOK
  <2>1. NoPayload \in [host : BOOLEAN, mtype : MatchTypes]
    BY DEF NoPayload, MatchTypes
  <2>2. "gone" \in Statuses /\ "" \in MatchTypes BY DEF Statuses, MatchTypes
  <2>3. NoBeat \in [sess : Sess \cup {NoSess}, group : Group \cup {NoGroup}]
    BY DEF NoBeat
  <2>4. NoMsg \in Pointers
    BY DEF NoMsg, Pointers
  <2>5. -1 \in -1 .. MaxJoin /\ 0 \in 0 .. MaxJoin BY DEF GroupAssumption
  <2> QED BY <2>1, <2>2, <2>3, <2>4, <2>5 DEF Init, TypeOK
<1>2. RoomsAgree
  BY DEF Init, RoomsAgree, PointersAgree, OccupiedRegistered, JoinIndexUnique,
         ServerInGroup, GroupAssumption
<1> QED BY <1>1, <1>2 DEF RoomInv

\* Every step keeps the types and the room invariant.
LEMMA NextInv ==
    ASSUME RoomInv, GroupAssumption, [Next]_vars
    PROVE  RoomInv'
<1> USE DEF RoomInv
<1>1. ASSUME NEW t \in Heartbeats, NEW s \in Sess, NEW p \in Payloads,
             HeartbeatNew(t, s, p)
      PROVE  RoomInv'
  <2>1. TypeOK'
    BY <1>1 DEF HeartbeatNew, Locked, TypeOK, Statuses, roomVars, GroupAssumption
  <2>2. groupPtr[s] = NoGroup /\ groupName[s] = NoGroup
    <3>1. \A g \in Group : s \notin players[g]
      BY <1>1 DEF HeartbeatNew, Unreferenced
    <3> QED BY <3>1 DEF RoomsAgree, PointersAgree, TypeOK
  <2>3. groupPtr' = groupPtr /\ groupName' = groupName
    BY <1>1, <2>2 DEF HeartbeatNew, TypeOK
  <2>4. UNCHANGED roomVars /\ joinIndex' = [joinIndex EXCEPT ![s] = -1]
    BY <1>1 DEF HeartbeatNew
  <2>5. PointersAgree' /\ OccupiedRegistered' /\ ServerInGroup'
    BY <2>3, <2>4 DEF RoomsAgree, PointersAgree, OccupiedRegistered, ServerInGroup,
                      roomVars
  <2>6. JoinIndexUnique'
    <3>1. \A g \in Group : s \notin players[g]
      BY <1>1 DEF HeartbeatNew, Unreferenced
    <3>2. \A g \in Group : \A x \in players[g] : joinIndex'[x] = joinIndex[x]
      BY <3>1, <2>4 DEF TypeOK
    <3> QED BY <3>2, <2>4 DEF RoomsAgree, JoinIndexUnique, roomVars
  <2> QED BY <2>1, <2>5, <2>6 DEF RoomsAgree
<1>2. ASSUME NEW t \in Heartbeats, NEW s \in Sess, NEW p \in Payloads,
             HeartbeatData(t, s, p)
      PROVE  RoomInv'
  <2>1. TypeOK'
    BY <1>2 DEF HeartbeatData, Locked, TypeOK, roomVars, GroupAssumption
  <2>2. RoomsAgree'
    BY <1>2 DEF HeartbeatData, roomVars, RoomsAgree, PointersAgree,
                OccupiedRegistered, JoinIndexUnique, ServerInGroup
  <2> QED BY <2>1, <2>2
<1>3. ASSUME NEW t \in Heartbeats, HeartbeatUnknowns(t)
      PROVE  RoomInv'
  <2>0. beat[t].sess \in Sess BY <1>3 DEF HeartbeatUnknowns, Live
  <2>1. TypeOK'
    <3>0. /\ beat \in [Heartbeats -> [sess  : Sess \cup {NoSess},
                                     group : Group \cup {NoGroup}]]
          /\ groupPtr[beat[t].sess] \in Group \cup {NoGroup}
      BY <2>0 DEF TypeOK
    <3>1. beat' \in [Heartbeats -> [sess  : Sess \cup {NoSess},
                                   group : Group \cup {NoGroup}]]
      BY <1>3, <3>0 DEF HeartbeatUnknowns
    <3>2. UNCHANGED <<sessVars, roomVars, msg, gp>>
      BY <1>3 DEF HeartbeatUnknowns, Locked
    <3> QED BY <3>1, <3>2 DEF TypeOK, roomVars, sessVars
  <2>2. RoomsAgree'
    BY <1>3 DEF HeartbeatUnknowns, roomVars, sessVars, RoomsAgree, PointersAgree,
                OccupiedRegistered, JoinIndexUnique, ServerInGroup
  <2> QED BY <2>1, <2>2
<1>4. ASSUME NEW t \in Heartbeats, HeartbeatGroup(t)
      PROVE  RoomInv'
  BY <1>4, HeartbeatGroupInv
<1>5. ASSUME NEW old \in Sess \cup {NoSess}, ProfileStep(old)
      PROVE  RoomInv'
  <2>1. PICK s \in Sess : setProfileID(s, old)
    BY <1>5, ProfileSteps
  <2>2. /\ UNCHANGED <<data, joinIndex, resvID, hasResv, beat>> /\ msg' \in [Messages -> Pointers]
        /\ gp' \in {NoReport} \cup Reports
    BY <1>5, ProfileSteps
  <2>3. status' \in [Sess -> Statuses]
    BY <2>1, ProfileSet
  <2>4. CASE UNCHANGED <<groupPtr, groupName, roomVars>>
    <3>1. TypeOK' BY <2>2, <2>3, <2>4 DEF TypeOK, roomVars
    <3>2. RoomsAgree'
      BY <2>2, <2>4 DEF roomVars, RoomsAgree, PointersAgree, OccupiedRegistered,
                        JoinIndexUnique, ServerInGroup
    <3> QED BY <3>1, <3>2
  <2>5. CASE old \in Sess /\ removeFromGroup(old)
    <3>1. TypeOK' BY <2>2, <2>3, <2>5, RemoveType DEF TypeOK
    <3>2. RoomsAgree' BY <2>2, <2>5, RemoveInv
    <3> QED BY <3>1, <3>2
  <2> QED BY <2>1, <2>4, <2>5, ProfileSet DEF Live
<1>6. ASSUME NEW s \in Sess, RemoveSession(s)
      PROVE  RoomInv'
  <2>1. /\ UNCHANGED <<data, joinIndex, resvID, hasResv, beat, msg, gp>>
        /\ status' \in [Sess -> Statuses]
        /\ removeFromGroup(s)
    BY <1>6 DEF RemoveSession, Removed, Locked, TypeOK, Statuses
  <2>2. TypeOK' BY <2>1, RemoveType DEF TypeOK
  <2>3. RoomsAgree' BY <2>1, RemoveInv
  <2> QED BY <2>2, <2>3
<1>7. ASSUME NEW s \in Sess, GPStatusUpdate(s)
      PROVE  RoomInv'
  <2>1. /\ UNCHANGED <<status, data, joinIndex, resvID, hasResv, beat, msg, gp>>
        /\ removeFromGroup(s)
    BY <1>7 DEF GPStatusUpdate, Locked
  <2>2. TypeOK' BY <2>1, RemoveType DEF TypeOK
  <2>3. RoomsAgree' BY <2>1, RemoveInv
  <2> QED BY <2>2, <2>3
<1>8. ASSUME GPResvOK
      PROVE  RoomInv'
  <2>1. /\ UNCHANGED <<status, data, resvID, hasResv, beat, msg>> /\ gp' = NoReport
        /\ gp.from \in Sess /\ gp.to \in Sess /\ processResvOK(gp.from, gp.to)
    BY <1>8, ReportNames DEF GPResvOK
  <2> QED BY <2>1, ResvOKInv DEF TypeOK
<1>9. ASSUME NEW t \in Messages, NEW s \in Sess,
             MsgReceiver(t, s) \/ MsgFind(t, s) \/ AckTimeout(t, s)
      PROVE  RoomInv'
  <2>1. TypeOK'
    <3>1. CASE MsgReceiver(t, s) \/ MsgFind(t, s)
      <4>1. msg' \in [Messages -> Pointers]
        BY <3>1, SMTT(30) DEF MsgReceiver, MsgFind, Pointers, TypeOK
      <4>2. UNCHANGED <<sessVars, roomVars, beat, gp>>
        BY <3>1 DEF MsgReceiver, MsgFind, Locked
      <4> QED BY <4>1, <4>2 DEF TypeOK, roomVars, sessVars
    <3>3. CASE AckTimeout(t, s)
      BY <3>3 DEF AckTimeout, TypeOK, Statuses, roomVars
    <3> QED BY <1>9, <3>1, <3>3
  <2>2. RoomsAgree'
    BY <1>9 DEF MsgReceiver, MsgFind, AckTimeout, roomVars, sessVars, RoomsAgree,
                PointersAgree, OccupiedRegistered, JoinIndexUnique, ServerInGroup
  <2> QED BY <2>1, <2>2
<1>10. ASSUME NEW t \in Messages, NEW f \in BOOLEAN, MsgReservation(t, f)
       PROVE  RoomInv'
  <2>1. TypeOK'
    BY <1>10 DEF MsgReservation, MsgReady, NoMsg, Pointers, Locked, TypeOK, roomVars
  <2>2. RoomsAgree'
    BY <1>10 DEF MsgReservation, roomVars, RoomsAgree, PointersAgree,
                 OccupiedRegistered, JoinIndexUnique, ServerInGroup
  <2> QED BY <2>1, <2>2
<1>11. ASSUME NEW t \in Messages, MsgResvOK(t)
       PROVE  RoomInv'
  <2> DEFINE s == msg[t].sender
             d == msg[t].receiver
  <2>1. s \in Sess /\ d \in Sess BY <1>11 DEF MsgResvOK, MsgReady, Pointers, TypeOK
  <2>2. /\ UNCHANGED <<status, data, resvID, hasResv, beat, gp>>
        /\ msg' \in [Messages -> Pointers]
    BY <1>11 DEF MsgResvOK, NoMsg, Pointers, Locked, TypeOK
  <2>3. CASE processResvOK(s, d)
    BY <2>1, <2>2, <2>3, ResvOKInv DEF TypeOK
  <2>4. CASE UNCHANGED <<joinIndex, groupPtr, groupName, roomVars>>
    <3>1. TypeOK' BY <2>2, <2>4 DEF TypeOK, roomVars
    <3>2. RoomsAgree'
      BY <2>4 DEF roomVars, RoomsAgree, PointersAgree, OccupiedRegistered,
                  JoinIndexUnique, ServerInGroup
    <3> QED BY <3>1, <3>2
  <2> QED BY <1>11, <2>3, <2>4 DEF MsgResvOK
<1>12. ASSUME NEW t \in Messages, MsgResvDeny(t) \/ MsgDrop(t)
       PROVE  RoomInv'
  <2>1. TypeOK'
    <3>1. CASE MsgResvDeny(t)
      BY <3>1 DEF MsgResvDeny, NoMsg, Pointers, Locked, TypeOK, roomVars
    <3>2. CASE MsgDrop(t)
      BY <3>2 DEF MsgDrop, NoMsg, Pointers, TypeOK, roomVars, sessVars
    <3> QED BY <1>12, <3>1, <3>2
  <2>2. RoomsAgree'
    BY <1>12 DEF MsgResvDeny, MsgDrop, roomVars, sessVars, RoomsAgree, PointersAgree,
                 OccupiedRegistered, JoinIndexUnique, ServerInGroup
  <2> QED BY <2>1, <2>2
<1>13. ASSUME Reload
       PROVE  RoomInv'
  <2>1. RoomsAgree' BY <1>13, ReloadInv
  <2>2. status' \in [Sess -> Statuses]
    BY <1>13 DEF Reload, LoadedStatus, Live, Statuses, TypeOK
  <2>d. data' \in [Sess -> [host : BOOLEAN, mtype : MatchTypes]]
    <3>1. NoPayload \in [host : BOOLEAN, mtype : MatchTypes]
      BY DEF NoPayload, MatchTypes
    <3> QED BY <3>1, <1>13 DEF Reload, TypeOK
  <2>j. joinIndex' \in [Sess -> -1 .. MaxJoin]
    BY <1>13 DEF Reload, TypeOK, GroupAssumption
  <2>r. resvID' \in [Sess -> Sess \cup {NoSess}] /\ hasResv' \in [Sess -> BOOLEAN]
    BY <1>13 DEF Reload, TypeOK
  <2>3. /\ groupPtr'  \in [Sess -> Group \cup {NoGroup}]
        /\ groupName' \in [Sess -> Group \cup {NoGroup}]
        /\ players'   \in [Group -> SUBSET Sess]
        /\ groups' \subseteq Group /\ lastJoin' \in [Group -> 0 .. MaxJoin]
        /\ beat' = beat
    BY <1>13 DEF Reload, LoadedGroup, LoadedPlayers, TypeOK
  <2>4. /\ server'    \in [Group -> Sess \cup {NoSess}]
        /\ matchType' \in [Group -> MatchTypes]
    <3>1. PICK srv \in [Group -> Sess \cup {NoSess}] :
              /\ server' = srv
              /\ matchType' = [g \in Group |-> UpdatedMatchType(g, srv[g])]
      BY <1>13 DEF Reload
    <3>2. \A g \in Group : UpdatedMatchType(g, srv[g]) \in MatchTypes
      BY MatchTypeType
    <3> QED BY <3>1, <3>2
  <2>5. msg' \in [Messages -> Pointers] /\ gp' = gp
    BY <1>13 DEF Reload, NoMsg, Pointers, Locked
  <2> QED BY <2>1, <2>2, <2>d, <2>j, <2>r, <2>3, <2>4, <2>5 DEF TypeOK
<1>14. ASSUME UNCHANGED vars
       PROVE  RoomInv'
  <2>1. TypeOK' BY <1>14 DEF vars, sessVars, roomVars, TypeOK
  <2>2. RoomsAgree'
    BY <1>14 DEF vars, sessVars, roomVars, RoomsAgree, PointersAgree,
                 OccupiedRegistered, JoinIndexUnique, ServerInGroup
  <2> QED BY <2>1, <2>2
<1>15. ASSUME GPReportEnds
       PROVE  RoomInv'
  <2>1. UNCHANGED <<sessVars, roomVars, beat, msg>> /\ gp' = NoReport
    BY <1>15 DEF GPReportEnds
  <2>2. TypeOK' BY <2>1 DEF sessVars, roomVars, TypeOK
  <2>3. RoomsAgree'
    BY <2>1 DEF sessVars, roomVars, RoomsAgree, PointersAgree, OccupiedRegistered,
                JoinIndexUnique, ServerInGroup
  <2> QED BY <2>2, <2>3
<1> QED
  BY <1>1, <1>2, <1>3, <1>4, <1>5, <1>6, <1>7, <1>8, <1>9, <1>10, <1>11, <1>12,
     <1>13, <1>14, <1>15 DEF Next, GPReport, ProfileStep

\* Whatever heartbeats, messages, removals and reloads happen in whatever order,
\* pointers, names and players maps agree, occupied rooms are registered, join
\* indices identify players and a room's server plays in it.
THEOREM RoomsConsistent == Spec => []RoomInv
<1>1. Init => RoomInv BY InitInv, GroupAssumption
<1>2. RoomInv /\ [Next]_vars => RoomInv' BY NextInv, GroupAssumption
<1> QED BY <1>1, <1>2, PTL DEF Spec

\* The state of the room tracker is always well typed: in particular no join
\* index leaves its range and no pointer is anything but nil or an object.
THEOREM TypeCorrect == Spec => []TypeOK
<1>1. RoomInv => TypeOK BY DEF RoomInv
<1> QED BY <1>1, RoomsConsistent, PTL

-----------------------------------------------------------------------------
(* Action properties. *)

\* removeFromGroup(s) takes s out of its room and moves nobody else.
LEMMA RemovePtr ==
    ASSUME TypeOK, NEW s \in Sess, removeFromGroup(s)
    PROVE  groupPtr' = [groupPtr EXCEPT ![s] = NoGroup]
<1>1. CASE groupPtr[s] = NoGroup BY <1>1 DEF removeFromGroup, TypeOK
<1>2. CASE groupPtr[s] # NoGroup BY <1>2 DEF removeFromGroup
<1> QED BY <1>1, <1>2

\* processResvOK(s, d) moves nobody but s and d, and whoever keeps its room keeps
\* its join index.
LEMMA ResvOKMoves ==
    ASSUME RoomInv, NEW s \in Sess, NEW d \in Sess, processResvOK(s, d),
           NEW x \in Sess
    PROVE  /\ x \notin {s, d} => groupPtr'[x] = groupPtr[x]
           /\ groupPtr'[x] = groupPtr[x] => joinIndex'[x] = joinIndex[x]
<1> USE DEF RoomInv
<1>1. CASE UNCHANGED <<joinIndex, groupPtr, groupName, roomVars>>
  BY <1>1
<1>2. ASSUME NEW g \in Group, ResvOKNewGroup(s, d, g)
      PROVE  /\ x \notin {s, d} => groupPtr'[x] = groupPtr[x]
             /\ groupPtr'[x] = groupPtr[x] => joinIndex'[x] = joinIndex[x]
  <2>1. groupPtr' = [groupPtr EXCEPT ![s] = g, ![d] = g]
    BY <1>2 DEF ResvOKNewGroup
  <2>2. groupPtr[s] # g /\ groupPtr[d] # g
    BY <1>2, FreeGroupIsNobodys DEF ResvOKNewGroup
  <2>3. x \notin {s, d} => joinIndex'[x] = joinIndex[x]
    BY <1>2 DEF ResvOKNewGroup, TypeOK
  <2> QED BY <2>1, <2>2, <2>3 DEF TypeOK
<1>3. CASE ResvOKJoin(s, d)
  <2> DEFINE g == groupPtr[s]
  <2>1. CASE d \in players[g] BY <1>3, <2>1 DEF ResvOKJoin
  <2>2. CASE d \notin players[g]
    <3>1. /\ joinIndex' = [joinIndex EXCEPT ![d] = lastJoin[g] + 1]
          /\ groupPtr'  = [groupPtr EXCEPT ![d] = g]
      BY <1>3, <2>2 DEF ResvOKJoin
    <3>2. groupPtr[d] # g
      BY <1>3, <2>2 DEF ResvOKJoin, RoomsAgree, PointersAgree, TypeOK
    <3> QED BY <3>1, <3>2 DEF TypeOK
  <2> QED BY <2>1, <2>2
<1> QED BY <1>1, <1>2, <1>3 DEF processResvOK

\* One step never changes the join index of a player that keeps its room.
LEMMA JoinIndexStep ==
    ASSUME RoomInv, GroupAssumption, [Next]_vars, NEW x \in Sess,
           groupPtr[x] # NoGroup, groupPtr'[x] = groupPtr[x]
    PROVE  joinIndex'[x] = joinIndex[x]
<1> USE DEF RoomInv
<1>1. ASSUME NEW t \in Heartbeats, NEW s \in Sess, NEW p \in Payloads,
             HeartbeatNew(t, s, p)
      PROVE  joinIndex'[x] = joinIndex[x]
  <2>1. x # s BY <1>1 DEF HeartbeatNew, TypeOK
  <2> QED BY <1>1, <2>1 DEF HeartbeatNew, TypeOK
<1>2. ASSUME NEW s \in Sess, NEW d \in Sess, processResvOK(s, d)
      PROVE  joinIndex'[x] = joinIndex[x]
  BY <1>2, ResvOKMoves
<1>3. ASSUME NEW t \in Messages, MsgResvOK(t)
      PROVE  joinIndex'[x] = joinIndex[x]
  <2>1. msg[t].sender \in Sess /\ msg[t].receiver \in Sess
    BY <1>3 DEF MsgResvOK, MsgReady, Pointers, TypeOK
  <2> QED BY <1>3, <2>1, <1>2 DEF MsgResvOK
<1>4. CASE Reload
  <2>1. x \in Live BY <1>4 DEF Reload, LoadedGroup
  <2> QED BY <1>4, <2>1 DEF Reload
<1>5. CASE joinIndex' = joinIndex BY <1>5
<1>6. CASE GPResvOK
  BY <1>2, <1>6, ReportNames DEF GPResvOK
<1> QED
  BY <1>1, <1>2, <1>3, <1>4, <1>5, <1>6
  DEF Next, GPReport, vars, sessVars, HeartbeatData, HeartbeatUnknowns, HeartbeatGroup,
      LinkSession, RemoveSession, GPStatusUpdate, GPResvFrom, GPResvTo, GPReportEnds,
      MsgReceiver, MsgFind, MsgSender, AckTimeout, MsgReservation, MsgResvDeny, MsgDrop

\* A player keeps its join index for as long as it stays in its room.
THEOREM JoinIndexKept == Spec => JoinIndexStable
<1>1. RoomInv /\ [Next]_vars =>
          [\A s \in Sess : (groupPtr[s] # NoGroup /\ groupPtr'[s] = groupPtr[s])
                            => joinIndex'[s] = joinIndex[s]]_vars
  BY JoinIndexStep, GroupAssumption
<1> QED BY <1>1, RoomsConsistent, PTL DEF Spec, JoinIndexStable

\* The steps that move a session or a host, and that all others leave them alone.
LEMMA StepKinds ==
    ASSUME [Next]_vars
    PROVE  \/ \E t \in Heartbeats, s \in Sess, p \in Payloads : HeartbeatNew(t, s, p)
           \/ \E t \in Heartbeats : HeartbeatGroup(t)
           \/ \E old \in Sess \cup {NoSess} : ProfileStep(old)
           \/ \E s \in Sess : RemoveSession(s) \/ GPStatusUpdate(s)
           \/ GPResvOK
           \/ \E t \in Messages, s \in Sess : AckTimeout(t, s)
           \/ \E t \in Messages : MsgResvOK(t)
           \/ Reload
           \/ UNCHANGED <<status, groupPtr, server>>
<1> DEFINE Same == UNCHANGED <<status, groupPtr, server>>
<1>1. ASSUME NEW t \in Heartbeats, NEW s \in Sess, NEW p \in Payloads,
             HeartbeatData(t, s, p)
      PROVE  Same
  BY <1>1 DEF HeartbeatData, roomVars
<1>2. ASSUME NEW t \in Heartbeats, HeartbeatUnknowns(t)
      PROVE  Same
  BY <1>2 DEF HeartbeatUnknowns, roomVars, sessVars
<1>3. ASSUME GPReportEnds
      PROVE  Same
  BY <1>3 DEF GPReportEnds, roomVars, sessVars
<1>4. ASSUME NEW t \in Messages, NEW s \in Sess, MsgReceiver(t, s) \/ MsgFind(t, s)
      PROVE  Same
  BY <1>4 DEF MsgReceiver, MsgFind, roomVars, sessVars
<1>5. ASSUME NEW t \in Messages, NEW f \in BOOLEAN, MsgReservation(t, f)
      PROVE  Same
  BY <1>5 DEF MsgReservation, roomVars, sessVars
<1>6. ASSUME NEW t \in Messages, MsgResvDeny(t) \/ MsgDrop(t)
      PROVE  Same
  BY <1>6 DEF MsgResvDeny, MsgDrop, roomVars, sessVars
<1>7. ASSUME UNCHANGED vars
      PROVE  Same
  BY <1>7 DEF vars, roomVars, sessVars
<1>8. SUFFICES ASSUME ~Same
               PROVE  \/ \E t \in Heartbeats, s \in Sess, p \in Payloads :
                            HeartbeatNew(t, s, p)
                      \/ \E t \in Heartbeats : HeartbeatGroup(t)
                      \/ \E old \in Sess \cup {NoSess} : ProfileStep(old)
                      \/ \E s \in Sess : RemoveSession(s) \/ GPStatusUpdate(s)
                      \/ GPResvOK
                      \/ \E t \in Messages, s \in Sess : AckTimeout(t, s)
                      \/ \E t \in Messages : MsgResvOK(t)
                      \/ Reload
  OBVIOUS
<1> HIDE DEF Same
<1> QED
  BY <1>1, <1>2, <1>3, <1>4, <1>5, <1>6, <1>7, <1>8 DEF Next, GPReport, ProfileStep

\* One step leaves an offline session in a room only if it was there before or a
\* client message or a report that named it was processed.
LEMMA GhostStep ==
    ASSUME RoomInv, GroupAssumption, [Next]_vars, NEW x \in Sess,
           x \notin Live', groupPtr'[x] # NoGroup
    PROVE  \/ x \notin Live /\ groupPtr[x] = groupPtr'[x]
           \/ \E t \in Messages : x \in {msg[t].sender, msg[t].receiver}
                                /\ msg'[t] = NoMsg
           \/ x \in {gp.from, gp.to} /\ gp.next = "join" /\ gp' = NoReport
<1> USE DEF RoomInv
<1> DEFINE Old == x \notin Live /\ groupPtr[x] = groupPtr'[x]
           Late == \E t \in Messages : x \in {msg[t].sender, msg[t].receiver}
                                     /\ msg'[t] = NoMsg
           Reported == x \in {gp.from, gp.to} /\ gp.next = "join" /\ gp' = NoReport
<1>1. ASSUME NEW t \in Heartbeats, NEW s \in Sess, NEW p \in Payloads,
             HeartbeatNew(t, s, p)
      PROVE  Old
  <2>1. x # s BY <1>1 DEF HeartbeatNew, TypeOK
  <2> QED BY <1>1, <2>1 DEF HeartbeatNew, TypeOK, Live
<1>2. ASSUME NEW old \in Sess \cup {NoSess}, ProfileStep(old)
      PROVE  Old
  <2>1. PICK s \in Sess : setProfileID(s, old)
    BY <1>2, ProfileSteps
  <2>2. CASE groupPtr' = groupPtr /\ Live' = Live
    BY <2>2
  <2>3. CASE old \in Live /\ removeFromGroup(old) /\ Live' = Live \ {old}
    <3>1. old \in Sess /\ groupPtr' = [groupPtr EXCEPT ![old] = NoGroup]
      BY <2>3, RemovePtr DEF Live
    <3> QED BY <2>3, <3>1 DEF TypeOK
  <2> QED BY <2>1, <2>2, <2>3, ProfileSet
<1>3. ASSUME NEW s \in Sess, RemoveSession(s)
      PROVE  Old
  BY <1>3, RemovePtr DEF RemoveSession, TypeOK, Live
<1>4. ASSUME NEW s \in Sess, GPStatusUpdate(s)
      PROVE  Old
  BY <1>4, RemovePtr DEF GPStatusUpdate, TypeOK, Live
<1>5. ASSUME GPResvOK
      PROVE  Old \/ Reported
  <2>1. gp.from \in Sess /\ gp.to \in Sess BY <1>5, ReportNames DEF GPResvOK
  <2>2. x \in {gp.from, gp.to} \/ groupPtr'[x] = groupPtr[x]
    BY <1>5, <2>1, ResvOKMoves DEF GPResvOK
  <2>3. gp' = NoReport /\ gp.next = "join" /\ Live' = Live
    BY <1>5 DEF GPResvOK, Live
  <2> QED BY <2>2, <2>3
<1>6. ASSUME NEW t \in Messages, NEW s \in Sess, AckTimeout(t, s)
      PROVE  Old
  BY <1>6 DEF AckTimeout, HasLogin, TypeOK, Live
<1>7. ASSUME NEW t \in Messages, MsgResvOK(t)
      PROVE  Old \/ Late
  <2>1. msg[t].sender \in Sess /\ msg[t].receiver \in Sess
    BY <1>7 DEF MsgResvOK, MsgReady, Pointers, TypeOK
  <2>2. msg'[t] = NoMsg /\ Live' = Live BY <1>7 DEF MsgResvOK, TypeOK, Live
  <2>3. x \in {msg[t].sender, msg[t].receiver} \/ groupPtr'[x] = groupPtr[x]
    BY <1>7, <2>1, ResvOKMoves DEF MsgResvOK
  <2> QED BY <2>2, <2>3
<1>8. ASSUME Reload
      PROVE  Old
  <2>1. x \in Live BY <1>8 DEF Reload, LoadedGroup
  <2>2. x \in Live' BY <1>8, <2>1 DEF Reload, LoadedStatus, Live
  <2> QED BY <2>2
<1>9. ASSUME status' = status, groupPtr' = groupPtr
      PROVE  Old
  BY <1>9 DEF Live
<1> HIDE DEF Old, Late, Reported
<1>10. Old \/ Late \/ Reported
  <2>1. ASSUME NEW t \in Heartbeats, HeartbeatGroup(t)
        PROVE  status' = status /\ groupPtr' = groupPtr
    BY <2>1 DEF HeartbeatGroup, sessVars
  <2> QED BY <1>1, <1>2, <1>3, <1>4, <1>5, <1>6, <1>7, <1>8, <1>9, <2>1, StepKinds
<1> QED BY <1>10 DEF Old, Late, Reported

\* removeSession never leaves its session behind in a room; only a handler that
\* holds a stale pointer, of a client message or of a report that sets profile
\* IDs before it joins the two players, puts an offline session into one
\* (qr2/group.go:153-184, message.go:81-110, session.go:52-74).
THEOREM GhostsExplained == Spec => GhostsOnlyFromHandlers
<1>1. RoomInv /\ [Next]_vars =>
          [\A s \in Sess :
              (s \notin Live' /\ groupPtr'[s] # NoGroup) =>
                 \/ s \notin Live /\ groupPtr[s] = groupPtr'[s]
                 \/ \E t \in Messages : s \in {msg[t].sender, msg[t].receiver}
                                      /\ msg'[t] = NoMsg
                 \/ s \in {gp.from, gp.to} /\ gp.next = "join" /\ gp' = NoReport]_vars
  BY GhostStep, GroupAssumption
<1> QED BY <1>1, RoomsConsistent, PTL DEF Spec, GhostsOnlyFromHandlers

-----------------------------------------------------------------------------
(* Who hosts a room. *)

\* Among players of one room, findNewServer's choice is the hosting player that
\* joined first: every player has a join index, so none is passed over.
LEMMA ElectedJoinedFirst ==
    ASSUME TypeOK, RoomsAgree, NEW g \in Group, NEW P \in SUBSET players[g],
           NEW srv, srv # NoSess, IsNewServer(srv, P)
    PROVE  /\ srv \in P
           /\ data[srv].host
           /\ \A x \in P : data[x].host => joinIndex[srv] <= joinIndex[x]
<1>1. \A x \in P : joinIndex[x] >= 0
  BY DEF RoomsAgree, JoinIndexUnique, TypeOK
<1> QED BY <1>1 DEF IsNewServer, Hosts

\* When a player's leaving changes the server of its room h, that player was the
\* server, and its successor is the first of the hosting players left.
LEMMA LeaveSuccession ==
    ASSUME TypeOK, RoomsAgree, NEW h \in Group, NEW s \in players[h], NEW srv,
           ServerAfterLeave(h, s, srv), srv # server[h]
    PROVE  /\ server[h] = s
           /\ srv # NoSess =>
                 /\ srv \in players[h] \ {s}
                 /\ data[srv].host
                 /\ \A x \in players[h] \ {s} :
                       data[x].host => joinIndex[srv] <= joinIndex[x]
<1>1. server[h] = s /\ IsNewServer(srv, players[h] \ {s})
  BY DEF ServerAfterLeave
<1> QED BY <1>1, ElectedJoinedFirst

\* removeFromGroup changes the server of a registered room only as it should.
LEMMA RemoveSuccession ==
    ASSUME TypeOK, RoomsAgree, NEW s \in Sess, removeFromGroup(s),
           joinIndex' = joinIndex, data' = data,
           NEW g \in groups, server'[g] # server[g]
    PROVE  /\ server[g] \notin players'[g]
           /\ server'[g] # NoSess =>
                 /\ data'[server'[g]].host
                 /\ \A x \in players'[g] :
                       data'[x].host => joinIndex'[server'[g]] <= joinIndex'[x]
<1> DEFINE h == groupPtr[s]
<1>1. h # NoGroup BY DEF removeFromGroup, roomVars
<1>2. h \in Group /\ g \in Group BY <1>1 DEF TypeOK
<1>3. PICK srv \in Sess \cup {NoSess} :
          /\ ServerAfterLeave(h, s, srv)
          /\ players' = [players EXCEPT ![h] = @ \ {s}]
          /\ server'  = [server EXCEPT ![h] = srv]
  BY <1>1 DEF removeFromGroup
<1>4. s \in players[h] BY <1>2 DEF RoomsAgree, PointersAgree
<1>5. g = h /\ server'[g] = srv BY <1>2, <1>3 DEF TypeOK
<1>6. players'[g] = players[h] \ {s} BY <1>2, <1>3, <1>5 DEF TypeOK
<1> QED BY <1>2, <1>3, <1>4, <1>5, <1>6, LeaveSuccession

\* Opening a room leaves the host of every registered room alone, except that of
\* the room its second player leaves.
LEMMA NewGroupSuccession ==
    ASSUME TypeOK, RoomsAgree, NEW s \in Sess, NEW d \in Sess, NEW f \in Group,
           ResvOKNewGroup(s, d, f), data' = data,
           NEW g \in groups, server'[g] # server[g]
    PROVE  /\ server[g] \notin players'[g]
           /\ server'[g] # NoSess =>
                 /\ data'[server'[g]].host
                 /\ \A x \in players'[g] :
                       data'[x].host => joinIndex'[server'[g]] <= joinIndex'[x]
<1> DEFINE h == groupPtr[d]
<1>1. f # g /\ g \in Group BY DEF ResvOKNewGroup, FreeGroup, TypeOK
<1>2. d # s /\ h # NoGroup BY <1>1 DEF ResvOKNewGroup, TypeOK
<1>3. h \in Group BY <1>2 DEF TypeOK
<1>4. h # f BY FreeGroupIsNobodys DEF ResvOKNewGroup
<1>5. PICK srv \in Sess \cup {NoSess} :
          /\ ServerAfterLeave(h, d, srv)
          /\ players' = [players EXCEPT ![f] = {s, d}, ![h] = @ \ {d}]
          /\ server'  = [server EXCEPT ![f] = s, ![h] = srv]
  BY <1>2 DEF ResvOKNewGroup
<1>6. joinIndex' = [joinIndex EXCEPT ![s] = 0, ![d] = 1]
  BY <1>2 DEF ResvOKNewGroup
<1>7. d \in players[h] BY <1>3 DEF RoomsAgree, PointersAgree
<1>8. s \notin players[h]
  BY <1>2, <1>3 DEF ResvOKNewGroup, RoomsAgree, PointersAgree
<1>9. g = h /\ server'[g] = srv BY <1>1, <1>3, <1>4, <1>5 DEF TypeOK
<1>10. players'[g] = players[h] \ {d}
  BY <1>3, <1>4, <1>5, <1>9 DEF TypeOK
<1>11. \A x \in players[h] \ {d} : joinIndex'[x] = joinIndex[x]
  BY <1>3, <1>6, <1>8 DEF TypeOK
<1>12. /\ server[h] = d
       /\ srv # NoSess =>
             /\ srv \in players[h] \ {d}
             /\ data[srv].host
             /\ \A x \in players[h] \ {d} :
                   data[x].host => joinIndex[srv] <= joinIndex[x]
  BY <1>3, <1>5, <1>7, <1>9, LeaveSuccession
<1> QED BY <1>9, <1>10, <1>11, <1>12

\* Joining a room leaves its host alone; the room the player comes from gets the
\* successor it should.
LEMMA JoinSuccession ==
    ASSUME TypeOK, RoomsAgree, NEW s \in Sess, NEW d \in Sess, ResvOKJoin(s, d),
           data' = data, NEW g \in groups, server'[g] # server[g]
    PROVE  /\ server[g] \notin players'[g]
           /\ server'[g] # NoSess =>
                 /\ data'[server'[g]].host
                 /\ \A x \in players'[g] :
                       data'[x].host => joinIndex'[server'[g]] <= joinIndex'[x]
<1> DEFINE f == groupPtr[s]
           h == groupPtr[d]
<1>1. f \in Group /\ g \in Group BY DEF ResvOKJoin, TypeOK
<1>2. d \notin players[f] BY DEF ResvOKJoin, roomVars
<1>3. h # NoGroup BY <1>2 DEF ResvOKJoin
<1>4. h \in Group BY <1>3 DEF TypeOK
<1>5. d \in players[h] /\ h # f BY <1>1, <1>2, <1>4 DEF RoomsAgree, PointersAgree
<1>6. PICK srv \in Sess \cup {NoSess} :
          /\ ServerAfterLeave(h, d, srv)
          /\ players' = [players EXCEPT ![f] = @ \cup {d}, ![h] = @ \ {d}]
          /\ server'  = [server EXCEPT ![h] = srv]
  BY <1>2, <1>3 DEF ResvOKJoin
<1>7. joinIndex' = [joinIndex EXCEPT ![d] = lastJoin[f] + 1]
  BY <1>2 DEF ResvOKJoin
<1>8. g = h /\ server'[g] = srv BY <1>1, <1>4, <1>6 DEF TypeOK
<1>9. players'[g] = players[h] \ {d} BY <1>4, <1>5, <1>6, <1>8 DEF TypeOK
<1>10. \A x \in players[h] \ {d} : joinIndex'[x] = joinIndex[x]
  BY <1>4, <1>7 DEF TypeOK
<1>11. /\ server[h] = d
       /\ srv # NoSess =>
             /\ srv \in players[h] \ {d}
             /\ data[srv].host
             /\ \A x \in players[h] \ {d} :
                   data[x].host => joinIndex[srv] <= joinIndex[x]
  BY <1>4, <1>5, <1>6, <1>8, LeaveSuccession
<1> QED BY <1>8, <1>9, <1>10, <1>11

\* One step changes the host of a registered room only as it should.
LEMMA HostStep ==
    ASSUME RoomInv, GroupAssumption, [Next]_vars,
           NEW g \in groups, g \in groups', server'[g] # server[g]
    PROVE  /\ \/ server[g] = NoSess
              \/ server[g] \notin players'[g]
              \/ Reload
           /\ server'[g] # NoSess =>
                 /\ data'[server'[g]].host
                 /\ \A x \in players'[g] :
                       data'[x].host => joinIndex'[server'[g]] <= joinIndex'[x]
<1> USE DEF RoomInv
<1> DEFINE Left == server[g] = NoSess \/ server[g] \notin players'[g]
           First == server'[g] # NoSess =>
                       /\ data'[server'[g]].host
                       /\ \A x \in players'[g] : data'[x].host =>
                             joinIndex'[server'[g]] <= joinIndex'[x]
<1>g. g \in Group BY DEF TypeOK
<1>1. ASSUME NEW t \in Heartbeats, HeartbeatGroup(t)
      PROVE  Left /\ First
  <2> DEFINE f == beat[t].group
  <2>1. f # NoGroup /\ server[f] = NoSess /\ findNewServer(f)
    BY <1>1 DEF HeartbeatGroup
  <2>2. f \in Group BY <2>1 DEF TypeOK
  <2>3. PICK srv \in players[f] \cup {NoSess} :
            IsNewServer(srv, players[f]) /\ server' = [server EXCEPT ![f] = srv]
    BY <2>1 DEF findNewServer
  <2>4. f = g /\ server'[g] = srv BY <1>g, <2>2, <2>3 DEF TypeOK
  <2>5. data' = data /\ joinIndex' = joinIndex /\ players' = players
    BY <1>1 DEF HeartbeatGroup, sessVars
  <2> QED BY <1>g, <2>1, <2>3, <2>4, <2>5, ElectedJoinedFirst
<1>2. ASSUME NEW s \in Sess, removeFromGroup(s), joinIndex' = joinIndex,
             data' = data
      PROVE  Left /\ First
  BY <1>2, RemoveSuccession
<1>3. ASSUME NEW s \in Sess, NEW d \in Sess, processResvOK(s, d), data' = data
      PROVE  Left /\ First
  <2>1. CASE UNCHANGED <<joinIndex, groupPtr, groupName, roomVars>>
    BY <2>1 DEF roomVars
  <2>2. ASSUME NEW f \in Group, ResvOKNewGroup(s, d, f)
        PROVE  Left /\ First
    BY <1>3, <2>2, NewGroupSuccession
  <2>3. CASE ResvOKJoin(s, d)
    BY <1>3, <2>3, JoinSuccession
  <2> QED BY <1>3, <2>1, <2>2, <2>3 DEF processResvOK
<1>4. ASSUME NEW t \in Messages, MsgResvOK(t)
      PROVE  Left /\ First
  <2>1. msg[t].sender \in Sess /\ msg[t].receiver \in Sess /\ data' = data
    BY <1>4 DEF MsgResvOK, MsgReady, Pointers, TypeOK
  <2>2. CASE UNCHANGED <<joinIndex, groupPtr, groupName, roomVars>>
    BY <2>2 DEF roomVars
  <2> QED BY <1>4, <2>1, <2>2, <1>3 DEF MsgResvOK
<1>5. ASSUME Reload
      PROVE  First
  <2>1. PICK srv \in [Group -> Sess \cup {NoSess}] :
            /\ \A f \in Group : f \in groups
                                  => IsNewServer(srv[f], LoadedPlayers(f))
            /\ server' = srv
    BY <1>5 DEF Reload
  <2>2. LoadedPlayers(g) \in SUBSET players[g] /\ LoadedPlayers(g) \subseteq Live
    BY <1>g DEF LoadedPlayers, LoadedGroup, RoomsAgree, PointersAgree,
                GroupAssumption
  <2>3. players'[g] = LoadedPlayers(g) BY <1>5, <1>g DEF Reload
  <2>4. \A x \in Live : data'[x] = data[x] /\ joinIndex'[x] = joinIndex[x]
    BY <1>5 DEF Reload, Live
  <2>5. server'[g] # NoSess =>
           /\ server'[g] \in LoadedPlayers(g)
           /\ data[server'[g]].host
           /\ \A x \in LoadedPlayers(g) :
                 data[x].host => joinIndex[server'[g]] <= joinIndex[x]
    BY <1>g, <2>1, <2>2, ElectedJoinedFirst
  <2> QED BY <2>2, <2>3, <2>4, <2>5
<1>6. server' # server OBVIOUS
<1>7. ASSUME NEW old \in Sess \cup {NoSess}, ProfileStep(old)
      PROVE  Left /\ First
  <2>0. PICK s \in Sess : setProfileID(s, old)
    BY <1>7, ProfileSteps
  <2>1. CASE UNCHANGED <<groupPtr, groupName, roomVars>> BY <2>1 DEF roomVars
  <2>2. CASE old \in Live /\ removeFromGroup(old)
    <3>1. old \in Sess /\ joinIndex' = joinIndex /\ data' = data
      BY <1>7, <2>2, ProfileSteps DEF Live
    <3> QED BY <1>2, <2>2, <3>1
  <2> QED BY <2>0, <2>1, <2>2, ProfileSet
<1>8. ASSUME NEW s \in Sess, RemoveSession(s) \/ GPStatusUpdate(s)
      PROVE  Left /\ First
  BY <1>8, <1>2 DEF RemoveSession, GPStatusUpdate
<1>9. ASSUME GPResvOK
      PROVE  Left /\ First
  BY <1>9, <1>3, ReportNames DEF GPResvOK
<1> HIDE DEF Left, First
<1>10. (Left \/ Reload) /\ First
  <2>1. ASSUME NEW t \in Heartbeats, NEW s \in Sess, NEW p \in Payloads,
               HeartbeatNew(t, s, p)
        PROVE  server' = server
    BY <2>1 DEF HeartbeatNew, roomVars
  <2>2. ASSUME NEW t \in Messages, NEW s \in Sess, AckTimeout(t, s)
        PROVE  server' = server
    BY <2>2 DEF AckTimeout, roomVars
  <2> QED BY <1>1, <1>4, <1>5, <1>6, <1>7, <1>8, <1>9, <2>1, <2>2, StepKinds
<1> QED BY <1>10 DEF Left, First

\* The host of a room changes only when it left, when there was none, or when the
\* server restarted, and the successor is the hosting player that joined first.
THEOREM HostsSucceed == Spec => HostSuccession
<1>1. RoomInv /\ [Next]_vars =>
          [\A g \in groups \cap groups' :
              server'[g] # server[g] =>
                 /\ \/ server[g] = NoSess
                    \/ server[g] \notin players'[g]
                    \/ Reload
                 /\ server'[g] # NoSess =>
                       /\ data'[server'[g]].host
                       /\ \A s \in players'[g] :
                            data'[s].host => joinIndex'[server'[g]] <= joinIndex'[s]
          ]_vars
  BY HostStep, GroupAssumption
<1> QED BY <1>1, RoomsConsistent, PTL DEF Spec, HostSuccession

-----------------------------------------------------------------------------
(* Rooms without players. *)

\* The last player that leaves a room unregisters it.
LEMMA RemoveEmpties ==
    ASSUME TypeOK, NEW s \in Sess, removeFromGroup(s),
           NEW g \in groups', players'[g] = {}
    PROVE  g \in groups /\ players[g] = {}
<1>1. CASE groupPtr[s] = NoGroup BY <1>1 DEF removeFromGroup, roomVars
<1>2. CASE groupPtr[s] # NoGroup
  <2> DEFINE h == groupPtr[s]
  <2>1. /\ players' = [players EXCEPT ![h] = @ \ {s}]
        /\ groups' = GroupsAfterLeave(h, s)
    BY <1>2 DEF removeFromGroup
  <2>2. g \in groups /\ g \in Group BY <2>1 DEF GroupsAfterLeave, TypeOK
  <2>3. g # h BY <2>1, <2>2 DEF GroupsAfterLeave, TypeOK
  <2> QED BY <2>1, <2>2, <2>3 DEF TypeOK
<1> QED BY <1>1, <1>2

\* processResvOK leaves no room without player: the room it fills has one, and
\* the room the destination leaves is unregistered by its last player.
LEMMA ResvOKEmpties ==
    ASSUME RoomInv, NEW s \in Sess, NEW d \in Sess, processResvOK(s, d),
           NEW g \in groups', players'[g] = {}
    PROVE  g \in groups /\ players[g] = {}
<1> USE DEF RoomInv
<1> DEFINE h == groupPtr[d]
<1>1. CASE UNCHANGED <<joinIndex, groupPtr, groupName, roomVars>>
  BY <1>1 DEF roomVars
<1>2. ASSUME NEW f \in Group, ResvOKNewGroup(s, d, f)
      PROVE  g \in groups /\ players[g] = {}
  <2>1. CASE d = s \/ h = NoGroup
    <3>1. groups' = groups \cup {f} BY <1>2, <2>1 DEF ResvOKNewGroup
    <3>2. PICK P \in SUBSET Sess : P # {} /\ players' = [players EXCEPT ![f] = P]
      <4>1. CASE d = s
        BY <1>2, <4>1 DEF ResvOKNewGroup
      <4>2. CASE d # s
        BY <1>2, <2>1, <4>2 DEF ResvOKNewGroup
      <4> QED BY <4>1, <4>2
    <3>3. g \in Group BY <3>1 DEF TypeOK
    <3>4. g # f BY <3>2, <3>3 DEF TypeOK
    <3> QED BY <3>1, <3>2, <3>3, <3>4 DEF TypeOK
  <2>2. CASE d # s /\ h # NoGroup
    <3>1. /\ players' = [players EXCEPT ![f] = {s, d}, ![h] = @ \ {d}]
          /\ groups' = GroupsAfterLeave(h, d) \cup {f}
      BY <1>2, <2>2 DEF ResvOKNewGroup
    <3>2. h # f /\ h \in Group
      BY <1>2, <2>2, FreeGroupIsNobodys DEF ResvOKNewGroup, TypeOK
    <3>3. g \in Group BY <3>1 DEF GroupsAfterLeave, TypeOK
    <3>4. \A k \in Group : players'[k] = IF k = h THEN players[h] \ {d}
                                         ELSE IF k = f THEN {s, d}
                                         ELSE players[k]
      BY <3>1, <3>2 DEF TypeOK
    <3>5. g # f BY <3>2, <3>4
    <3>6. g \in groups /\ g # h
      BY <3>1, <3>3, <3>4, <3>5 DEF GroupsAfterLeave
    <3> QED BY <3>3, <3>4, <3>5, <3>6
  <2> QED BY <2>1, <2>2
<1>3. CASE ResvOKJoin(s, d)
  <2> DEFINE f == groupPtr[s]
  <2>1. CASE d \in players[f] BY <1>3, <2>1 DEF ResvOKJoin, roomVars
  <2>2. CASE d \notin players[f] /\ h = NoGroup
    <3>1. players' = [players EXCEPT ![f] = @ \cup {d}] /\ groups' = groups
      BY <1>3, <2>2 DEF ResvOKJoin
    <3> QED BY <3>1 DEF TypeOK
  <2>3. CASE d \notin players[f] /\ h # NoGroup
    <3>1. /\ players' = [players EXCEPT ![f] = @ \cup {d}, ![h] = @ \ {d}]
          /\ groups' = GroupsAfterLeave(h, d)
      BY <1>3, <2>3 DEF ResvOKJoin
    <3>2. f \in Group /\ h \in Group /\ h # f
      BY <1>3, <2>3 DEF ResvOKJoin, TypeOK, RoomsAgree, PointersAgree
    <3>3. g \in groups /\ g \in Group BY <3>1 DEF GroupsAfterLeave, TypeOK
    <3>4. \A k \in Group : players'[k] = IF k = h THEN players[h] \ {d}
                                         ELSE IF k = f THEN players[f] \cup {d}
                                         ELSE players[k]
      BY <3>1, <3>2 DEF TypeOK
    <3>5. g # h BY <3>1, <3>2, <3>3, <3>4 DEF GroupsAfterLeave
    <3> QED BY <3>3, <3>4, <3>5
  <2> QED BY <2>1, <2>2, <2>3
<1> QED BY <1>1, <1>2, <1>3 DEF processResvOK

\* One step leaves a registered room empty only if none of its players was online.
LEMMA EmptyStep ==
    ASSUME RoomInv, GroupAssumption, [Next]_vars, NEW g \in groups', players'[g] = {}
    PROVE  players[g] \cap Live = {} /\ g \in groups
<1> USE DEF RoomInv
<1>1. ASSUME NEW s \in Sess, removeFromGroup(s)
      PROVE  players[g] \cap Live = {} /\ g \in groups
  BY <1>1, RemoveEmpties
<1>2. ASSUME NEW s \in Sess, NEW d \in Sess, processResvOK(s, d)
      PROVE  players[g] \cap Live = {} /\ g \in groups
  BY <1>2, ResvOKEmpties
<1>3. CASE groups' = groups /\ players' = players BY <1>3
<1>4. ASSUME NEW t \in Messages, MsgResvOK(t)
      PROVE  players[g] \cap Live = {} /\ g \in groups
  <2>1. msg[t].sender \in Sess /\ msg[t].receiver \in Sess
    BY <1>4 DEF MsgResvOK, MsgReady, Pointers, TypeOK
  <2> QED BY <1>4, <2>1, <1>2, <1>3 DEF MsgResvOK, roomVars
<1>5. CASE Reload
  <2>1. g \in groups /\ g \in Group BY <1>5 DEF Reload, TypeOK
  <2>2. LoadedPlayers(g) = {} BY <1>5, <2>1 DEF Reload
  <2> QED BY <2>1, <2>2 DEF LoadedPlayers, LoadedGroup, Live, RoomsAgree,
                           PointersAgree, TypeOK
<1>6. ASSUME NEW old \in Sess \cup {NoSess}, ProfileStep(old)
      PROVE  players[g] \cap Live = {} /\ g \in groups
  <2>1. PICK s \in Sess : setProfileID(s, old)
    BY <1>6, ProfileSteps
  <2>2. CASE UNCHANGED roomVars
    BY <1>3, <2>2 DEF roomVars
  <2>3. CASE old \in Live /\ removeFromGroup(old)
    BY <1>1, <2>3 DEF Live
  <2> QED BY <2>1, <2>2, <2>3, ProfileSet
<1>7. ASSUME NEW s \in Sess, RemoveSession(s) \/ GPStatusUpdate(s)
      PROVE  players[g] \cap Live = {} /\ g \in groups
  BY <1>7, <1>1 DEF RemoveSession, GPStatusUpdate
<1>8. ASSUME GPResvOK
      PROVE  players[g] \cap Live = {} /\ g \in groups
  BY <1>8, <1>2, ReportNames DEF GPResvOK
<1> QED
  BY <1>3, <1>4, <1>5, <1>6, <1>7, <1>8
  DEF Next, GPReport, ProfileStep, vars, roomVars, HeartbeatNew, HeartbeatData,
      HeartbeatUnknowns, HeartbeatGroup, GPReportEnds, MsgReceiver, MsgFind, AckTimeout,
      MsgReservation, MsgResvDeny, MsgDrop

\* A registered room has a player unless all it had were leftovers at a restart:
\* removeFromGroup and processResvOK unregister a room with its last player.
THEOREM EmptyRoomsExplained == Spec => EmptyRoomsOnlyFromGhosts
<1>1. RoomInv /\ [Next]_vars =>
          [\A g \in groups' :
              players'[g] = {} => players[g] \cap Live = {} /\ g \in groups]_vars
  BY EmptyStep, GroupAssumption
<1> QED BY <1>1, RoomsConsistent, PTL DEF Spec, EmptyRoomsOnlyFromGhosts

-----------------------------------------------------------------------------
(* qr2 implements Rooms. *)

\* Two relations with the same pairs are equal.
LEMMA SamePairs ==
    ASSUME NEW S, NEW A, NEW B, A \subseteq S \X S, B \subseteq S \X S,
           \A x, y \in S : <<x, y>> \in A <=> <<x, y>> \in B
    PROVE  A = B
OBVIOUS

\* The members of a room are its players, before and after a step.
LEMMA MembersPlay ==
    ASSUME RoomInv, NEW g \in Group
    PROVE  R!Members(g) = players[g]
BY DEF RoomInv, RoomsAgree, PointersAgree, R!Members, TypeOK

LEMMA MembersPlayNext ==
    ASSUME RoomInv', NEW g \in Group
    PROVE  R!Members(g)' = players'[g]
BY DEF RoomInv, RoomsAgree, PointersAgree, R!Members, TypeOK

\* Whoever findNewServer chose among the players came first.
LEMMA ElectedIsFirst ==
    ASSUME RoomInv', NEW g \in Group, g \in groups', IsNewServer(server[g], players[g])'
    PROVE  R!FirstHosts(g)'
<1>1. PICK srv : srv = server'[g]
  OBVIOUS
<1>2. PICK P : P = players'[g]
  OBVIOUS
<1>3. /\ P \in SUBSET Sess
      /\ \A x \in P : /\ joinIndex'[x] \in Int /\ joinIndex'[x] >= 0 /\ groupPtr'[x] = g
                      /\ \A y \in P : joinIndex'[x] = joinIndex'[y] => x = y
  BY <1>2 DEF RoomInv, TypeOK, RoomsAgree, JoinIndexUnique, PointersAgree
<1>4. R!Members(g)' = P /\ HostOf'[g] = srv
  BY <1>1, <1>2, MembersPlayNext DEF HostOf
<1>5. R!Members(g)' \cap CanHost' = {x \in P : data'[x].host}
  BY <1>3, <1>4 DEF CanHost
<1>6. CASE {x \in P : data'[x].host} = {} /\ srv = NoSess
  BY <1>4, <1>5, <1>6 DEF R!FirstHosts
<1>7. CASE /\ srv \in P /\ data'[srv].host
           /\ \A x \in P : data'[x].host => joinIndex'[srv] <= joinIndex'[x]
  <2>1. \A x \in P : data'[x].host /\ x # srv => <<srv, x>> \in JoinedBefore'
    <3> SUFFICES ASSUME NEW x \in P, data'[x].host, x # srv
                 PROVE  <<srv, x>> \in JoinedBefore'
      OBVIOUS
    <3>1. joinIndex'[srv] < joinIndex'[x]
      BY <1>3, <1>7
    <3>2. srv \in Sess /\ x \in Sess /\ groupPtr'[srv] = g /\ groupPtr'[x] = g /\ g # NoGroup
      BY <1>3, <1>7, GroupAssumption
    <3> QED BY <3>1, <3>2 DEF JoinedBefore
  <2> QED BY <1>4, <1>5, <1>7, <2>1 DEF R!FirstHosts
<1> QED BY <1>1, <1>2, <1>3, <1>6, <1>7 DEF IsNewServer, Hosts

\* The host of a room after a step is as Rooms wants it when the server is.
ServerSucceeds(g) ==
    \/ g \notin groups /\ g \notin groups'
    \/ g \in groups /\ g \notin groups'
    \/ g \in groups /\ g \in groups' /\ server'[g] = server[g]
    \/ /\ g \in groups /\ g \in groups'
       /\ server[g] \notin players'[g] \cup {NoSess}
       /\ IsNewServer(server[g], players[g])'

LEMMA HostSucceeds ==
    ASSUME RoomInv, RoomInv', NEW g \in Group, ServerSucceeds(g)
    PROVE  R!Succeeds(g)
<1>1. R!Members(g)' = players'[g]
  BY MembersPlayNext
<1>2. CASE g \notin groups /\ g \notin groups'
  BY <1>2 DEF R!Succeeds, HostOf
<1>3. CASE g \in groups /\ g \notin groups'
  <2>1. players'[g] = {} /\ HostOf[g] = server[g] /\ HostOf'[g] = NoSess
    BY <1>3 DEF HostOf, RoomInv, RoomsAgree, OccupiedRegistered
  <2>2. R!FirstHosts(g)'
    BY <1>1, <2>1 DEF R!FirstHosts
  <2> QED BY <1>1, <2>1, <2>2 DEF R!Succeeds
<1>4. CASE g \in groups /\ g \in groups' /\ server'[g] = server[g]
  <2>1. server'[g] \in players'[g] \cup {NoSess}
    BY <1>4 DEF RoomInv, RoomsAgree, ServerInGroup
  <2> QED BY <1>1, <1>4, <2>1 DEF R!Succeeds, HostOf
<1>5. CASE /\ g \in groups /\ g \in groups'
           /\ server[g] \notin players'[g] \cup {NoSess}
           /\ IsNewServer(server[g], players[g])'
  <2>1. R!FirstHosts(g)'
    BY <1>5, ElectedIsFirst
  <2>2. HostOf[g] = server[g]
    BY <1>5 DEF HostOf
  <2> QED BY <1>1, <1>5, <2>1, <2>2 DEF R!Succeeds
<1> QED BY <1>2, <1>3, <1>4, <1>5 DEF ServerSucceeds

\* The room that s leaves is closed or gets its next host.
LEMMA LeftRoom ==
    ASSUME RoomInv, RoomInv', NEW s \in Sess, NEW h \in Group, s \in players[h], NEW srv,
           ServerAfterLeave(h, s, srv), server'[h] = srv,
           players'[h] = players[h] \ {s},
           h \in groups' <=> players[h] \ {s} # {},
           data' = data, \A x \in players[h] \ {s} : joinIndex'[x] = joinIndex[x]
    PROVE  ServerSucceeds(h)
<1>1. h \in groups
  BY DEF RoomInv, RoomsAgree, OccupiedRegistered
<1>2. CASE players[h] \ {s} = {}
  BY <1>1, <1>2 DEF ServerSucceeds
<1>3. CASE players[h] \ {s} # {} /\ server[h] # s
  BY <1>1, <1>3 DEF ServerSucceeds, ServerAfterLeave
<1>4. CASE players[h] \ {s} # {} /\ server[h] = s
  <2>1. IsNewServer(srv, players[h] \ {s})
    BY <1>4 DEF ServerAfterLeave
  <2>2. IsNewServer(server[h], players[h])'
    BY <2>1 DEF IsNewServer, Hosts
  <2>3. s # NoSess
    BY GroupAssumption DEF GroupAssumption
  <2> QED BY <1>1, <1>4, <2>2, <2>3 DEF ServerSucceeds
<1> QED BY <1>2, <1>3, <1>4

\* HostOf has its type.
LEMMA HostOfType ==
    ASSUME RoomInv'
    PROVE  HostOf' \in [Group -> Sess \cup {NoSess}]
BY DEF HostOf, RoomInv, TypeOK

\* A room is closed by a step exactly if that emptied it.
LEMMA RoomsRemain ==
    ASSUME RoomInv, RoomInv', NEW G \in SUBSET groups,
           \A g \in groups : g \in G <=> (players[g] # {} => players'[g] # {})
    PROVE  G = R!Remaining
<1>1. \A g \in groups : R!Members(g) = players[g] /\ R!Members(g)' = players'[g]
  BY MembersPlay, MembersPlayNext DEF RoomInv, TypeOK
<1> QED BY <1>1 DEF R!Remaining

\* removeFromGroup is GoOut.
LEMMA RemoveGoesOut ==
    ASSUME RoomInv, RoomInv', NEW s \in Sess, removeFromGroup(s), joinIndex' = joinIndex, data' = data
    PROVE  R!GoOut(s)
<1> DEFINE h == groupPtr[s]
<1>1. groupPtr' = [groupPtr EXCEPT ![s] = NoGroup]
  BY RemovePtr DEF RoomInv
<1>2. JoinedBefore' = R!Without({s})
  <2>1. \A x, y \in Sess : <<x, y>> \in JoinedBefore' <=>
                              <<x, y>> \in JoinedBefore /\ x # s /\ y # s
    BY <1>1 DEF JoinedBefore, RoomInv, TypeOK
  <2> QED BY <2>1 DEF R!Without, JoinedBefore
<1>3. CASE h = NoGroup
  <2>1. groups' = groups /\ players' = players /\ server' = server
    BY <1>3 DEF removeFromGroup, roomVars
  <2>2. \A g \in Group : ServerSucceeds(g)
    BY <2>1 DEF ServerSucceeds
  <2>3. groups' = R!Remaining
    BY <2>1, RoomsRemain
  <2> QED BY <1>1, <1>2, <2>2, <2>3, HostSucceeds, HostOfType DEF R!GoOut, R!Succession, CanHost
<1>4. CASE h # NoGroup
  <2>1. h \in Group /\ s \in players[h]
    BY <1>4 DEF RoomInv, TypeOK, RoomsAgree, PointersAgree
  <2>2. PICK srv \in Sess \cup {NoSess} :
            /\ ServerAfterLeave(h, s, srv)
            /\ players' = [players EXCEPT ![h] = @ \ {s}]
            /\ groups'  = GroupsAfterLeave(h, s)
            /\ server'  = [server EXCEPT ![h] = srv]
    BY <1>4 DEF removeFromGroup
  <2>3. /\ players'[h] = players[h] \ {s} /\ server'[h] = srv
        /\ \A g \in Group \ {h} : players'[g] = players[g] /\ server'[g] = server[g]
    BY <2>1, <2>2 DEF RoomInv, TypeOK
  <2>4. h \in groups /\ groups' \subseteq groups /\ (h \in groups' <=> players[h] \ {s} # {})
        /\ \A g \in groups \ {h} : g \in groups'
    BY <2>1, <2>2 DEF GroupsAfterLeave, RoomInv, RoomsAgree, OccupiedRegistered
  <2>5. ServerSucceeds(h)
    BY <2>1, <2>2, <2>3, <2>4, LeftRoom
  <2>6. \A g \in Group \ {h} : ServerSucceeds(g)
    BY <2>3, <2>4 DEF ServerSucceeds
  <2>7. groups' = R!Remaining
    <3>1. \A g \in groups : g \in groups' <=> (players[g] # {} => players'[g] # {})
      BY <2>1, <2>3, <2>4 DEF RoomInv, TypeOK
    <3> QED BY <2>4, <3>1, RoomsRemain
  <2> QED BY <1>1, <1>2, <2>5, <2>6, <2>7, HostSucceeds, HostOfType
          DEF R!GoOut, R!Succession, CanHost
<1> QED BY <1>3, <1>4

\* What moving d to the room f does to the rooms, whichever way it came about:
\* f has d, the room that d was in has lost it, the others are as they were.
Moves(d, f) ==
    /\ \A g \in Group \ {f, groupPtr[d]} :
          players'[g] = players[g] /\ server'[g] = server[g] /\ (g \in groups' <=> g \in groups)
    /\ groupPtr[d] # NoGroup =>
          /\ players'[groupPtr[d]] = players[groupPtr[d]] \ {d}
          /\ groupPtr[d] \in groups' <=> players[groupPtr[d]] \ {d} # {}
          /\ ServerAfterLeave(groupPtr[d], d, server'[groupPtr[d]])

\* The rooms other than f then have the hosts that Rooms wants, and are open as
\* it wants.
LEMMA OtherRooms ==
    ASSUME RoomInv, RoomInv', NEW d \in Sess, NEW f \in Group, groupPtr[d] # f, Moves(d, f), data' = data,
           \A g \in Group \ {f} : \A x \in players[g] \ {d} : joinIndex'[x] = joinIndex[x]
    PROVE  \A g \in Group \ {f} : /\ ServerSucceeds(g)
                                  /\ g \in groups' <=> g \in groups /\ (players[g] # {} => players'[g] # {})
<1> SUFFICES ASSUME NEW g \in Group \ {f}
             PROVE  /\ ServerSucceeds(g)
                    /\ g \in groups' <=> g \in groups /\ (players[g] # {} => players'[g] # {})
  OBVIOUS
<1>1. CASE g # groupPtr[d]
  <2>1. players'[g] = players[g] /\ server'[g] = server[g] /\ (g \in groups' <=> g \in groups)
    BY <1>1 DEF Moves
  <2> QED BY <2>1 DEF ServerSucceeds
<1>2. CASE g = groupPtr[d]
  <2>1. d \in players[g] /\ groupPtr[d] # NoGroup
    BY <1>2, GroupAssumption DEF RoomInv, RoomsAgree, PointersAgree
  <2>2. /\ players'[g] = players[g] \ {d}
        /\ g \in groups' <=> players[g] \ {d} # {}
        /\ ServerAfterLeave(g, d, server'[g])
    BY <1>2, <2>1 DEF Moves
  <2>3. g \in groups
    BY <2>1 DEF RoomInv, RoomsAgree, OccupiedRegistered
  <2>4. ServerSucceeds(g)
    BY <2>1, <2>2, LeftRoom
  <2> QED BY <2>1, <2>2, <2>3, <2>4
<1> QED BY <1>1, <1>2

\* Joining a room is Join.
LEMMA ResvOKJoins ==
    ASSUME RoomInv, RoomInv', NEW s \in Sess, NEW d \in Sess, ResvOKJoin(s, d), data' = data, status' = status
    PROVE  R!Next \/ UNCHANGED R!vars
<1> DEFINE f == groupPtr[s]
           h == groupPtr[d]
<1>1. f \in Group /\ s \in players[f]
  BY DEF ResvOKJoin, RoomInv, TypeOK, RoomsAgree, PointersAgree
<1>2. CASE d \in players[f]
  BY <1>2 DEF ResvOKJoin, roomVars, R!vars, Live, CanHost, JoinedBefore, HostOf
<1>3. CASE d \notin players[f]
  <2>1. /\ joinIndex' = [joinIndex EXCEPT ![d] = lastJoin[f] + 1]
        /\ groupPtr'  = [groupPtr EXCEPT ![d] = f]
    BY <1>3 DEF ResvOKJoin
  <2>2. h # f
    BY <1>1, <1>3 DEF RoomInv, RoomsAgree, PointersAgree
  <2>3. Moves(d, f) /\ f \in groups /\ f \in groups' /\ server'[f] = server[f]
    <3>1. f \in groups
      BY <1>1 DEF RoomInv, RoomsAgree, OccupiedRegistered
    <3>2. CASE h = NoGroup
      <4>1. players' = [players EXCEPT ![f] = @ \cup {d}] /\ groups' = groups /\ server' = server
        BY <1>3, <3>2 DEF ResvOKJoin
      <4> QED BY <1>1, <3>1, <3>2, <4>1 DEF Moves, RoomInv, TypeOK
    <3>3. CASE h # NoGroup
      <4>1. h \in Group /\ d \in players[h]
        BY <3>3 DEF RoomInv, TypeOK, RoomsAgree, PointersAgree
      <4>2. PICK srv \in Sess \cup {NoSess} :
                /\ ServerAfterLeave(h, d, srv)
                /\ players' = [players EXCEPT ![f] = @ \cup {d}, ![h] = @ \ {d}]
                /\ groups'  = GroupsAfterLeave(h, d)
                /\ server'  = [server EXCEPT ![h] = srv]
        BY <1>3, <3>3 DEF ResvOKJoin
      <4>3. /\ players'[h] = players[h] \ {d} /\ server'[h] = srv /\ server'[f] = server[f]
            /\ \A g \in Group \ {f, h} : players'[g] = players[g] /\ server'[g] = server[g]
        BY <1>1, <2>2, <4>1, <4>2 DEF RoomInv, TypeOK
      <4>4. h \in groups /\ (h \in groups' <=> players[h] \ {d} # {})
            /\ \A g \in Group \ {h} : g \in groups' <=> g \in groups
        BY <4>1, <4>2 DEF GroupsAfterLeave, RoomInv, RoomsAgree, OccupiedRegistered
      <4> QED BY <1>1, <2>2, <3>1, <4>2, <4>3, <4>4 DEF Moves
    <3> QED BY <3>2, <3>3
  <2>4. \A g \in Group \ {f} : /\ ServerSucceeds(g)
                               /\ g \in groups' <=> g \in groups /\ (players[g] # {} => players'[g] # {})
    <3>1. \A x \in Sess \ {d} : joinIndex'[x] = joinIndex[x]
      BY <2>1 DEF RoomInv, TypeOK
    <3>2. \A g \in Group \ {f} : \A x \in players[g] \ {d} : joinIndex'[x] = joinIndex[x]
      BY <3>1 DEF RoomInv, TypeOK
    <3> QED BY <1>1, <2>2, <2>3, <3>2, OtherRooms
  <2>5. R!Succession(Group)
    <3>1. ServerSucceeds(f)
      BY <2>3 DEF ServerSucceeds
    <3> QED BY <1>1, <2>4, <3>1, HostSucceeds, HostOfType DEF R!Succession
  <2>6. groups' = R!Remaining
    <3>1. d \in players'[f] /\ groups' \subseteq groups
      BY <1>1, <2>1, <2>3, <2>4 DEF RoomInv, TypeOK, RoomsAgree, PointersAgree
    <3>2. \A g \in groups : g \in groups' <=> (players[g] # {} => players'[g] # {})
      BY <1>1, <2>3, <2>4, <3>1 DEF RoomInv, TypeOK
    <3> QED BY <3>1, <3>2, RoomsRemain
  <2>7. JoinedBefore' = R!Without({d}) \cup (R!Members(f) \X {d})
    <3>1. \A x \in players[f] : x # d /\ joinIndex[x] < lastJoin[f] + 1
      BY <1>1, <1>3 DEF RoomInv, TypeOK, RoomsAgree, JoinIndexUnique
    <3>2. R!Members(f) = players[f] /\ \A x \in Sess : x \in players[f] <=> groupPtr[x] = f
      BY <1>1, MembersPlay DEF RoomInv, RoomsAgree, PointersAgree
    <3>3. f # NoGroup
      BY <1>1, GroupAssumption
    <3>4. ASSUME NEW x \in Sess, NEW y \in Sess
          PROVE  <<x, y>> \in JoinedBefore' <=>
                    \/ <<x, y>> \in JoinedBefore /\ x # d /\ y # d
                    \/ x \in players[f] /\ y = d
      <4>1. CASE x # d /\ y # d
        BY <2>1, <4>1 DEF JoinedBefore, RoomInv, TypeOK
      <4>2. CASE x = d
        <5>1. joinIndex'[d] = lastJoin[f] + 1 /\ groupPtr'[d] = f
          BY <2>1 DEF RoomInv, TypeOK
        <5>2. groupPtr'[y] = f => joinIndex'[y] <= lastJoin[f] + 1
          BY <1>1, <2>1, <3>1, <3>2 DEF RoomInv, TypeOK
        <5>3. joinIndex'[y] \in Int /\ lastJoin[f] + 1 \in Int
          BY <1>1 DEF RoomInv, TypeOK
        <5>4. <<x, y>> \notin JoinedBefore'
          BY <4>2, <5>1, <5>2, <5>3 DEF JoinedBefore
        <5> QED BY <1>3, <4>2, <5>4
      <4>3. CASE x # d /\ y = d
        <5>1. /\ joinIndex'[d] = lastJoin[f] + 1 /\ groupPtr'[d] = f
              /\ joinIndex'[x] = joinIndex[x] /\ groupPtr'[x] = groupPtr[x]
          BY <2>1, <4>3 DEF RoomInv, TypeOK
        <5> QED BY <3>1, <3>2, <3>3, <4>3, <5>1 DEF JoinedBefore
      <4> QED BY <4>1, <4>2, <4>3
    <3>5. /\ JoinedBefore' \subseteq Sess \X Sess /\ JoinedBefore \subseteq Sess \X Sess
          /\ players[f] \subseteq Sess
      BY <1>1 DEF JoinedBefore, RoomInv, TypeOK
    <3>6. R!Without({d}) \cup (players[f] \X {d}) \subseteq Sess \X Sess
      BY <3>5 DEF R!Without
    <3>7. ASSUME NEW x \in Sess, NEW y \in Sess
          PROVE  <<x, y>> \in JoinedBefore' <=> <<x, y>> \in R!Without({d}) \cup (players[f] \X {d})
      BY <3>4, <3>7 DEF R!Without
    <3>8. PICK A : A = JoinedBefore' OBVIOUS
    <3>9. PICK B : B = R!Without({d}) \cup (players[f] \X {d}) OBVIOUS
    <3>10. A \subseteq Sess \X Sess /\ B \subseteq Sess \X Sess
      BY <3>5, <3>6, <3>8, <3>9
    <3>11. \A x, y \in Sess : <<x, y>> \in A <=> <<x, y>> \in B
      BY <3>7, <3>8, <3>9
    <3>12. A = B BY <3>10, <3>11, SamePairs
    <3> QED BY <3>2, <3>8, <3>9, <3>12
  <2>8. R!Join(d, f)
    <3>1. R!Members(f) # {}
      BY <1>1, MembersPlay
    <3>2. CanHost' = CanHost /\ Live' = Live
      BY DEF CanHost, Live
    <3> QED BY <2>1, <2>2, <2>5, <2>6, <2>7, <3>1, <3>2 DEF R!Join
  <2> QED BY <1>1, <2>8 DEF R!Next
<1> QED BY <1>2, <1>3

\* Opening a room is Open.
LEMMA ResvOKOpens ==
    ASSUME RoomInv, RoomInv', NEW s \in Sess, NEW d \in Sess, NEW f \in Group, ResvOKNewGroup(s, d, f),
           data' = data, status' = status
    PROVE  R!Next
<1> DEFINE h == groupPtr[d]
<1>1. /\ groupPtr[s] = NoGroup /\ f \notin groups /\ players[f] = {} /\ h # f
      /\ groupPtr' = [groupPtr EXCEPT ![s] = f, ![d] = f]
  BY DEF ResvOKNewGroup, FreeGroup
<1>2. \A g \in Group : s \notin players[g]
  BY <1>1, GroupAssumption DEF RoomInv, RoomsAgree, PointersAgree
<1>3. Moves(d, f) /\ f \in groups' /\ server'[f] = s
  <2>1. CASE h = NoGroup
    <3>1. /\ players' = [players EXCEPT ![f] = {s, d}] /\ groups' = groups \cup {f}
          /\ server'  = [server EXCEPT ![f] = s]
      <4>1. CASE d = s
        BY <4>1 DEF ResvOKNewGroup
      <4>2. CASE d # s
        BY <2>1, <4>2 DEF ResvOKNewGroup
      <4> QED BY <4>1, <4>2
    <3> QED BY <2>1, <3>1 DEF Moves, RoomInv, TypeOK
  <2>2. CASE h # NoGroup
    <3>1. h \in Group /\ d \in players[h]
      BY <2>2 DEF RoomInv, TypeOK, RoomsAgree, PointersAgree
    <3>2. PICK srv \in Sess \cup {NoSess} :
              /\ ServerAfterLeave(h, d, srv)
              /\ players' = [players EXCEPT ![f] = {s, d}, ![h] = @ \ {d}]
              /\ groups'  = GroupsAfterLeave(h, d) \cup {f}
              /\ server'  = [server EXCEPT ![f] = s, ![h] = srv]
      BY <1>1, <2>2 DEF ResvOKNewGroup
    <3>3. /\ players'[h] = players[h] \ {d} /\ server'[h] = srv /\ server'[f] = s
          /\ \A g \in Group \ {f, h} : players'[g] = players[g] /\ server'[g] = server[g]
      BY <1>1, <3>1, <3>2 DEF RoomInv, TypeOK
    <3>4. /\ h \in groups /\ (h \in groups' <=> players[h] \ {d} # {}) /\ f \in groups'
          /\ \A g \in Group \ {f, h} : g \in groups' <=> g \in groups
      BY <1>1, <3>1, <3>2 DEF GroupsAfterLeave, RoomInv, RoomsAgree, OccupiedRegistered
    <3> QED BY <3>2, <3>3, <3>4 DEF Moves
  <2> QED BY <2>1, <2>2
<1>4. joinIndex'[s] = 0 /\ (d # s => joinIndex'[d] = 1)
      /\ \A x \in Sess \ {s, d} : joinIndex'[x] = joinIndex[x]
  <2>1. CASE d = s
    BY <2>1 DEF ResvOKNewGroup, RoomInv, TypeOK
  <2>2. CASE d # s
    BY <2>2 DEF ResvOKNewGroup, RoomInv, TypeOK
  <2> QED BY <2>1, <2>2
<1>5. \A g \in Group \ {f} : /\ ServerSucceeds(g)
                             /\ g \in groups' <=> g \in groups /\ (players[g] # {} => players'[g] # {})
  <2>1. \A g \in Group \ {f} : \A x \in players[g] \ {d} : joinIndex'[x] = joinIndex[x]
    BY <1>2, <1>4 DEF RoomInv, TypeOK
  <2> QED BY <1>1, <1>3, <2>1, OtherRooms
<1>6. R!Succession(Group \ {f})
  BY <1>5, HostSucceeds, HostOfType DEF R!Succession
<1>7. groups' = R!Remaining \cup {f}
  <2>1. groups' \subseteq Group /\ groups \subseteq Group
    BY DEF RoomInv, TypeOK
  <2>2. \A g \in groups : g \in groups' \ {f} <=> (players[g] # {} => players'[g] # {})
    BY <1>1, <1>5, <2>1
  <2>3. groups' \ {f} \subseteq groups
    BY <1>5, <2>1
  <2>4. groups' \ {f} = R!Remaining
    BY <2>2, <2>3, RoomsRemain
  <2> QED BY <1>3, <2>4
<1>8. JoinedBefore' = R!Without({s, d}) \cup ({s} \X ({d} \ {s}))
  <2>0. f # NoGroup
    BY GroupAssumption
  <2>1. /\ groupPtr'[s] = f /\ groupPtr'[d] = f
        /\ \A x \in Sess \ {s, d} : groupPtr'[x] = groupPtr[x] /\ groupPtr[x] # f
    BY <1>1 DEF RoomInv, TypeOK, RoomsAgree, PointersAgree
  <2>2. JoinedBefore' \subseteq Sess \X Sess /\ JoinedBefore \subseteq Sess \X Sess
    BY DEF JoinedBefore
  <2>3. R!Without({s, d}) \cup ({s} \X ({d} \ {s})) \subseteq Sess \X Sess
    BY <2>2 DEF R!Without
  <2>4. ASSUME NEW x \in Sess, NEW y \in Sess
        PROVE  <<x, y>> \in JoinedBefore' <=>
                  \/ <<x, y>> \in JoinedBefore /\ x \notin {s, d} /\ y \notin {s, d}
                  \/ x = s /\ y = d /\ d # s
    <3>1. CASE x \notin {s, d} /\ y \notin {s, d}
      BY <1>4, <2>1, <3>1 DEF JoinedBefore
    <3>2. CASE (x \in {s, d}) # (y \in {s, d})
      BY <2>1, <3>2 DEF JoinedBefore
    <3>3. CASE x \in {s, d} /\ y \in {s, d}
      <4>1. joinIndex'[x] < joinIndex'[y] <=> x = s /\ y = d /\ d # s
        BY <1>4, <3>3
      <4> QED BY <2>0, <2>1, <3>3, <4>1 DEF JoinedBefore
    <3> QED BY <3>1, <3>2, <3>3
  <2>5. ASSUME NEW x \in Sess, NEW y \in Sess
        PROVE  <<x, y>> \in JoinedBefore' <=>
                  <<x, y>> \in R!Without({s, d}) \cup ({s} \X ({d} \ {s}))
    BY <2>4, <2>5 DEF R!Without
  <2>6. PICK A : A = JoinedBefore' OBVIOUS
  <2>7. PICK B : B = R!Without({s, d}) \cup ({s} \X ({d} \ {s})) OBVIOUS
  <2>8. A \subseteq Sess \X Sess /\ B \subseteq Sess \X Sess
    BY <2>2, <2>3, <2>6, <2>7
  <2>9. \A x, y \in Sess : <<x, y>> \in A <=> <<x, y>> \in B
    BY <2>5, <2>6, <2>7
  <2>10. A = B BY <2>8, <2>9, SamePairs
  <2> QED BY <2>6, <2>7, <2>10
<1>9. R!Open(s, d, f)
  <2>1. R!Members(f) = {}
    BY <1>1, MembersPlay
  <2>2. HostOf'[f] = s
    BY <1>3 DEF HostOf
  <2>3. CanHost' = CanHost /\ Live' = Live
    BY DEF CanHost, Live
  <2> QED BY <1>1, <1>6, <1>7, <1>8, <2>1, <2>2, <2>3 DEF R!Open
<1> QED BY <1>9 DEF R!Next

\* processResvOK opens a room, joins one, or does nothing.
LEMMA ResvOKImplements ==
    ASSUME RoomInv, RoomInv', NEW s \in Sess, NEW d \in Sess, processResvOK(s, d), data' = data, status' = status
    PROVE  R!Next \/ UNCHANGED R!vars
<1>1. CASE UNCHANGED <<joinIndex, groupPtr, groupName, roomVars>>
  BY <1>1 DEF roomVars, R!vars, Live, CanHost, JoinedBefore, HostOf
<1> QED BY <1>1, ResvOKOpens, ResvOKJoins DEF processResvOK

\* A heartbeat that finds a room without a host is Elect, if the room is still there.
LEMMA HeartbeatElects ==
    ASSUME RoomInv, RoomInv', NEW t \in Heartbeats, HeartbeatGroup(t)
    PROVE  R!Next \/ UNCHANGED R!vars
<1>1. UNCHANGED <<Live, CanHost, groupPtr, JoinedBefore, groups>> /\ data' = data
      /\ joinIndex' = joinIndex /\ players' = players
  BY DEF HeartbeatGroup, sessVars, Live, CanHost, JoinedBefore
<1>2. CASE server' = server
  BY <1>1, <1>2 DEF R!vars, HostOf
<1>3. ASSUME NEW g \in Group, g = beat[t].group, server[g] = NoSess, findNewServer(g)
      PROVE  R!Next \/ UNCHANGED R!vars
  <2>1. g \in Group
    OBVIOUS
  <2>2. PICK srv \in players[g] \cup {NoSess} :
            IsNewServer(srv, players[g]) /\ server' = [server EXCEPT ![g] = srv]
    BY <1>3 DEF findNewServer
  <2>3. server'[g] = srv /\ \A x \in Group \ {g} : server'[x] = server[x]
    BY <2>1, <2>2 DEF RoomInv, TypeOK
  <2>4. CASE g \notin groups
    <3>1. HostOf' = HostOf
      BY <1>1, <2>3, <2>4 DEF HostOf
    <3> QED BY <1>1, <3>1 DEF R!vars
  <2>5. CASE g \in groups
    <3>1. IsNewServer(server[g], players[g])'
      BY <1>1, <2>2, <2>3 DEF IsNewServer, Hosts
    <3>2. R!FirstHosts(g)'
      BY <1>1, <2>1, <2>5, <3>1, ElectedIsFirst
    <3>3. srv \in Sess \cup {NoSess} /\ HostOf[g] = NoSess
      BY <1>3, <2>1, <2>5 DEF RoomInv, TypeOK, HostOf
    <3>4. HostOf' = [HostOf EXCEPT ![g] = srv]
      BY <1>1, <2>1, <2>3, <2>5 DEF HostOf
    <3>5. R!Elect(g)
      BY <1>1, <2>5, <3>2, <3>3, <3>4 DEF R!Elect
    <3> QED BY <2>1, <3>5 DEF R!Next
  <2> QED BY <2>4, <2>5
<1>4. beat[t].group \in Group \cup {NoGroup}
  BY DEF RoomInv, TypeOK
<1> QED BY <1>2, <1>3, <1>4 DEF HeartbeatGroup

\* A restart is Restart.
LEMMA ReloadRestarts ==
    ASSUME RoomInv, RoomInv', Reload
    PROVE  R!Next
<1>1. \A s \in Sess : s \in Live' <=> s \in Live
  BY DEF Reload, LoadedStatus, Live
<1>2. Live' = Live
  BY <1>1 DEF Live
<1>3. groupPtr' = [s \in Sess |-> IF s \in Live THEN groupPtr[s] ELSE NoGroup]
  <2>1. \A s \in Sess : LoadedGroup(s) = IF s \in Live THEN groupPtr[s] ELSE NoGroup
    <3> SUFFICES ASSUME NEW s \in Sess, s \in Live PROVE LoadedGroup(s) = groupPtr[s]
      BY DEF LoadedGroup
    <3>1. groupName[s] = groupPtr[s] /\ groupPtr[s] \in Group \cup {NoGroup}
      BY DEF RoomInv, TypeOK, RoomsAgree, PointersAgree
    <3>2. groupPtr[s] \in Group => groupPtr[s] \in groups
      BY DEF RoomInv, RoomsAgree, PointersAgree, OccupiedRegistered
    <3>3. NoGroup \notin groups
      BY GroupAssumption DEF RoomInv, TypeOK
    <3> QED BY <3>1, <3>2, <3>3 DEF LoadedGroup
  <2> QED BY <2>1 DEF Reload
<1>4. JoinedBefore' = R!Without(Sess \ Live)
  <2>1. joinIndex' = [s \in Sess |-> IF s \in Live THEN joinIndex[s] ELSE -1]
    BY DEF Reload
  <2>2. \A x, y \in Sess : <<x, y>> \in JoinedBefore' <=>
                              <<x, y>> \in JoinedBefore /\ x \in Live /\ y \in Live
    BY <1>3, <2>1 DEF JoinedBefore
  <2>3. \A x, y \in Sess : <<x, y>> \in JoinedBefore' <=> <<x, y>> \in R!Without(Sess \ Live)
    BY <2>2 DEF R!Without
  <2>4. JoinedBefore' \subseteq Sess \X Sess /\ R!Without(Sess \ Live) \subseteq Sess \X Sess
    BY DEF JoinedBefore, R!Without
  <2>5. PICK A, B : A = JoinedBefore' /\ B = R!Without(Sess \ Live)
    OBVIOUS
  <2>6. A = B
    <3>1. A \subseteq Sess \X Sess /\ B \subseteq Sess \X Sess
      BY <2>4, <2>5
    <3>2. \A x, y \in Sess : <<x, y>> \in A <=> <<x, y>> \in B
      BY <2>3, <2>5
    <3> QED BY <3>1, <3>2, SamePairs
  <2> QED BY <2>5, <2>6
<1>5. CanHost' = CanHost \cap Live
  BY DEF Reload, CanHost, NoPayload, Live
<1>6. groups' = groups /\ players' = [g \in Group |-> LoadedPlayers(g)]
  BY DEF Reload
<1>7. ASSUME NEW g \in Group
      PROVE  IF g \in groups THEN R!FirstHosts(g)' ELSE HostOf'[g] = NoSess
  <2>1. CASE g \notin groups
    BY <1>6, <2>1 DEF HostOf
  <2>2. CASE g \in groups
    <3>1. IsNewServer(server'[g], players'[g])
      BY <1>6, <2>2 DEF Reload
    <3>2. \A x \in players'[g] : x \in Sess /\ data'[x] = data[x] /\ joinIndex'[x] = joinIndex[x]
      <4>1. players'[g] = LoadedPlayers(g) /\ g # NoGroup
        BY <1>6, GroupAssumption
      <4>2. \A x \in players'[g] : x \in Sess /\ x \in Live
        BY <4>1 DEF LoadedPlayers, LoadedGroup
      <4> QED BY <4>2 DEF Reload
    <3>3. IsNewServer(server[g], players[g])'
      BY <3>1, <3>2 DEF IsNewServer, Hosts
    <3> QED BY <1>6, <2>2, <3>3, ElectedIsFirst
  <2> QED BY <2>1, <2>2
<1>8. R!Restart
  BY <1>2, <1>3, <1>4, <1>5, <1>6, <1>7, HostOfType DEF R!Restart
<1> QED BY <1>8 DEF R!Next

\* Every step is one of Rooms or is not seen there.
LEMMA RoomsStep ==
    ASSUME RoomInv, RoomInv', [Next]_vars
    PROVE  R!Next \/ UNCHANGED R!vars
<1> DEFINE Goal == R!Next \/ UNCHANGED R!vars
<1>1. ASSUME UNCHANGED <<Live, data, joinIndex, groupPtr, roomVars>>
      PROVE  Goal
  BY <1>1 DEF R!vars, roomVars, CanHost, JoinedBefore, HostOf
<1>2. ASSUME NEW t \in Heartbeats, NEW s \in Sess, NEW p \in Payloads, HeartbeatNew(t, s, p)
      PROVE  R!Next
  <2>1. /\ status' = [status EXCEPT ![s] = "new"] /\ s \notin Live
        /\ data' = [data EXCEPT ![s] = p]
        /\ joinIndex' = [joinIndex EXCEPT ![s] = -1]
        /\ groupPtr' = [groupPtr EXCEPT ![s] = NoGroup]
        /\ groups' = groups /\ server' = server
    BY <1>2 DEF HeartbeatNew, Unreferenced, roomVars
  <2>2. groupPtr[s] = NoGroup
    <3>1. \A g \in Group : s \notin players[g]
      BY <1>2 DEF HeartbeatNew, Unreferenced
    <3> QED BY <3>1 DEF RoomInv, TypeOK, RoomsAgree, PointersAgree
  <2>3. s \notin Live /\ Live' = Live \cup {s}
    BY <2>1 DEF Live, RoomInv, TypeOK
  <2>4. CanHost' \in {CanHost \cup {s}, CanHost \ {s}}
    BY <2>1 DEF CanHost, RoomInv, TypeOK
  <2>5. groupPtr' = groupPtr
    BY <2>1, <2>2 DEF RoomInv, TypeOK
  <2>6. JoinedBefore' = JoinedBefore
    BY <2>1, <2>2, <2>5 DEF JoinedBefore, RoomInv, TypeOK
  <2>7. HostOf' = HostOf
    BY <2>1 DEF HostOf
  <2>8. R!Arrive(s)
    BY <2>1, <2>2, <2>3, <2>4, <2>5, <2>6, <2>7 DEF R!Arrive
  <2> QED BY <2>8 DEF R!Next
<1>3. ASSUME NEW t \in Heartbeats, NEW s \in Sess, NEW p \in Payloads, HeartbeatData(t, s, p)
      PROVE  R!Next
  <2>1. /\ s \in Live /\ data' = [data EXCEPT ![s] = p]
        /\ UNCHANGED <<status, joinIndex, groupPtr, groups, server>>
    BY <1>3 DEF HeartbeatData, roomVars
  <2>2. CanHost' \in {CanHost \cup {s}, CanHost \ {s}}
    BY <2>1 DEF CanHost, RoomInv, TypeOK
  <2>3. UNCHANGED <<Live, JoinedBefore, HostOf>>
    BY <2>1 DEF Live, JoinedBefore, HostOf
  <2>4. R!ChangeMind(s)
    BY <2>1, <2>2, <2>3 DEF R!ChangeMind
  <2> QED BY <2>4 DEF R!Next
<1>4. ASSUME NEW s \in Sess, s \in Live, removeFromGroup(s), joinIndex' = joinIndex, data' = data,
             Live' = Live \ {s}
      PROVE  R!Next
  BY <1>4, RemoveGoesOut DEF R!Next, R!Depart
<1>5. ASSUME NEW old \in Sess \cup {NoSess}, ProfileStep(old)
      PROVE  Goal
  <2>1. TypeOK
    BY DEF RoomInv
  <2>2. PICK s \in Sess : setProfileID(s, old)
    BY <1>5, <2>1, ProfileSteps
  <2>3. data' = data /\ joinIndex' = joinIndex
    BY <1>5, <2>1, ProfileSteps
  <2>4. CASE UNCHANGED <<groupPtr, groupName, roomVars>> /\ Live' = Live
    BY <1>1, <2>3, <2>4
  <2>5. CASE old \in Live /\ removeFromGroup(old) /\ Live' = Live \ {old}
    <3>1. old \in Sess
      BY <2>5 DEF Live
    <3> QED BY <1>4, <2>3, <2>5, <3>1
  <2> QED BY <2>1, <2>2, <2>4, <2>5, ProfileSet
<1>6. ASSUME NEW s \in Sess, RemoveSession(s)
      PROVE  R!Next
  <2>1. Live' = Live \ {s}
    BY <1>6 DEF RemoveSession, Removed, Live, RoomInv, TypeOK
  <2> QED BY <1>4, <1>6, <2>1 DEF RemoveSession
<1>7. ASSUME NEW s \in Sess, GPStatusUpdate(s)
      PROVE  R!Next
  <2>1. R!GoOut(s)
    BY <1>7, RemoveGoesOut DEF GPStatusUpdate
  <2>2. Live' = Live
    BY <1>7 DEF GPStatusUpdate, Live
  <2> QED BY <2>1, <2>2 DEF R!Next, R!Leave
<1>8. ASSUME GPResvOK
      PROVE  Goal
  <2>1. gp.from \in Sess /\ gp.to \in Sess
    BY <1>8, ReportNames DEF GPResvOK, RoomInv
  <2> QED BY <1>8, <2>1, ResvOKImplements DEF GPResvOK
<1>9. ASSUME NEW t \in Messages, MsgResvOK(t)
      PROVE  Goal
  <2>1. msg[t].sender \in Sess /\ msg[t].receiver \in Sess /\ data' = data /\ status' = status
    BY <1>9 DEF MsgResvOK, MsgReady, Pointers, RoomInv, TypeOK
  <2>2. CASE processResvOK(msg[t].sender, msg[t].receiver)
    BY <2>1, <2>2, ResvOKImplements
  <2>3. CASE UNCHANGED <<joinIndex, groupPtr, groupName, roomVars>>
    BY <1>1, <2>1, <2>3 DEF Live
  <2> QED BY <1>9, <2>2, <2>3 DEF MsgResvOK
<1>10. ASSUME NEW t \in Messages, NEW s \in Sess, AckTimeout(t, s)
       PROVE  Goal
  <2>1. Live' = Live
    BY <1>10 DEF AckTimeout, HasLogin, Live, RoomInv, TypeOK
  <2> QED BY <1>1, <1>10, <2>1 DEF AckTimeout
<1>11. ASSUME UNCHANGED <<status, data, joinIndex, groupPtr, roomVars>>
       PROVE  Goal
  BY <1>1, <1>11 DEF Live
<1> HIDE DEF Goal
<1>12. ASSUME Reload
       PROVE  Goal
  BY <1>12, ReloadRestarts DEF Goal
<1>13. ASSUME NEW t \in Heartbeats, HeartbeatUnknowns(t) \/ HeartbeatGroup(t)
       PROVE  Goal
  <2>1. CASE HeartbeatUnknowns(t)
    BY <1>11, <2>1 DEF HeartbeatUnknowns, sessVars
  <2>2. CASE HeartbeatGroup(t)
    BY <2>2, HeartbeatElects DEF Goal
  <2> QED BY <1>13, <2>1, <2>2
<1>14. ASSUME NEW t \in Messages, NEW s \in Sess, MsgReceiver(t, s) \/ MsgFind(t, s)
       PROVE  Goal
  BY <1>11, <1>14 DEF MsgReceiver, MsgFind, sessVars
<1>15. ASSUME NEW t \in Messages, NEW b \in BOOLEAN, MsgReservation(t, b)
       PROVE  Goal
  BY <1>11, <1>15 DEF MsgReservation
<1>16. ASSUME NEW t \in Messages, MsgResvDeny(t) \/ MsgDrop(t)
       PROVE  Goal
  BY <1>11, <1>16 DEF MsgResvDeny, MsgDrop, sessVars
<1>18. ASSUME GPReportEnds
       PROVE  Goal
  BY <1>11, <1>18 DEF GPReportEnds, sessVars
<1>17. ASSUME UNCHANGED vars
       PROVE  Goal
  <2>1. UNCHANGED <<status, data, joinIndex, groupPtr, roomVars>>
    BY <1>17 DEF vars, sessVars
  <2> QED BY <1>11, <2>1
<1> QED
  <2>1. ASSUME R!Next PROVE Goal
    BY <2>1 DEF Goal
  <2>2. ASSUME NEW t \in Heartbeats, NEW s \in Sess, NEW p \in Payloads,
               HeartbeatNew(t, s, p) \/ HeartbeatData(t, s, p)
        PROVE  Goal
    BY <1>2, <1>3, <2>1, <2>2
  <2>3. ASSUME NEW s \in Sess, RemoveSession(s) \/ GPStatusUpdate(s)
        PROVE  Goal
    BY <1>6, <1>7, <2>1, <2>3
  <2>4. ASSUME NEW t \in Messages, NEW s \in Sess,
               MsgReceiver(t, s) \/ MsgFind(t, s) \/ AckTimeout(t, s)
        PROVE  Goal
    BY <1>10, <1>14, <2>4
  <2>5. ASSUME NEW t \in Messages, MsgResvOK(t) \/ MsgResvDeny(t) \/ MsgDrop(t)
        PROVE  Goal
    BY <1>9, <1>16, <2>5
  <2>6. ASSUME Next PROVE Goal
    BY <1>5, <1>8, <1>12, <1>13, <1>15, <1>18, <2>2, <2>3, <2>4, <2>5, <2>6
       DEF Next, GPReport, ProfileStep
  <2> QED BY <1>17, <2>6 DEF Goal

\* Package qr2 implements Rooms, for any number of sessions, rooms, heartbeats
\* and messages: what the handlers do to join indices, pointers, the groups map
\* and Group.server is always one arrival, departure, opening, joining, leaving,
\* election or restart of rooms whose players keep the order in which they came
\* (qr2/group.go:68-144, 457-480, 872-915, session.go:77-118).
THEOREM QR2ImplementsRooms == Spec => ImplementsRooms
<1>1. Init => R!Init
  <2> SUFFICES ASSUME Init PROVE R!Init
    OBVIOUS
  <2>1. Live = {} /\ CanHost = {}
    BY DEF Init, Live, CanHost, NoPayload
  <2>2. JoinedBefore = {}
    BY DEF Init, JoinedBefore
  <2>3. HostOf = [g \in Group |-> NoSess]
    BY DEF Init, HostOf
  <2> QED BY <2>1, <2>2, <2>3 DEF Init, R!Init
<1>2. RoomInv /\ RoomInv' /\ [Next]_vars => [R!Next]_(R!vars)
  BY RoomsStep
<1> QED BY <1>1, <1>2, RoomsConsistent, PTL DEF Spec, R!Spec, ImplementsRooms
=============================================================================
