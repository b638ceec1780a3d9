------------------------- MODULE AdminSession_proofs -------------------------
(* What sessions keep to, for any number of browsers, requests and runs of   *)
(* the command line tool, and any limits.                                    *)
EXTENDS AdminSession, TLAPS

(* What has been read of the row is the row, or has an earlier version.      *)
Older(v, p) == v <= row.version /\ (v = row.version => p = row.password)

(* Nobody knows a later password than the row's, and the row's only with its *)
(* version.                                                                  *)
Known(v, p) == p <= row.password /\ (p = row.password => v = row.version)

SessionOK(s, b) ==
    s # None => /\ s.auth = s.born
                /\ s.seen <= active[b]
                /\ Known(s.version, s.proved)
                /\ apart => Older(s.version, s.proved)

(* Until a change has committed, `mine` is nothing; then the session waits   *)
(* for its new version, and then it is of the password that was set.         *)
ChangeOK(c) ==
    /\ c.mine <= row.password
    /\ c.at \in {"sent", "login", "change", "cli"} => c.mine = 0
    /\ c.at \in {"change", "stamp"} => c.sess # None
    /\ c.at = "stamp" /\ apart => c.mine = row.password
    /\ c.at = "reply" /\ c.mine # 0
          => c.sess # None /\ c.sess.proved = c.mine

(* A request ends with a session of no earlier password than the one it was  *)
(* sent with.                                                                *)
AskedOK(c) ==
    /\ c.at = "sent" => c.asked = c.sess
    /\ c.at = "login" => Known(c.loaded.version, c.loaded.password)
    /\ c.asked # None =>
          /\ c.asked.proved <= row.password
          /\ c.at = "login" => c.asked.proved <= c.loaded.password
          /\ c.at = "stamp" => c.asked.proved <= c.mine
          /\ c.at \in {"change", "reply"} /\ c.sess # None
                => c.asked.proved <= c.sess.proved

CallOK(c) ==
    /\ c.sess # None => c.browser \in Browser
    /\ SessionOK(c.sess, c.browser)
    /\ apart => Older(c.loaded.version, c.loaded.password)
    /\ ChangeOK(c)
    /\ AskedOK(c)

PlaceOK(c) == c.at \in {"sent", "reply", "login", "change", "stamp"} => c.browser \in Browser

NoPasswordWithoutRow == row.version = 0 => row.password = 0

SessionInv ==
    /\ TypeOK
    /\ NoPasswordWithoutRow
    /\ \A b \in Browser : active[b] <= clock /\ SessionOK(browser[b], b)
    /\ \A q \in Request : CallOK(req[q])

(* A call that is free is in order.                                          *)
LEMMA FreeIsOK ==
    ASSUME TypeOK, NoPasswordWithoutRow
    PROVE  Free \in Call /\ PlaceOK(Free) /\ CallOK(Free)
<1>1. Free \in Call /\ PlaceOK(Free)
  BY DEF Free, NoRow, Row, Call, PlaceOK
<1>2. Older(0, 0) /\ 0 <= row.password
  BY DEF TypeOK, Row, Older, Known, NoPasswordWithoutRow
<1>3. CallOK(Free)
  BY <1>2 DEF Free, NoRow, CallOK, SessionOK, ChangeOK, AskedOK
<1>. QED BY <1>1, <1>3

(* A step that changes one call, to one that is in order.                    *)
LEMMA LocalKeeps ==
    ASSUME SessionInv, NEW q \in Request, NEW r \in Call, PlaceOK(r), CallOK(r), Local(q, r)
    PROVE  SessionInv'
<1>1. TypeOK'
  BY DEF SessionInv, TypeOK, Local, PlaceOK
<1>2. NoPasswordWithoutRow' /\ \A b \in Browser : (active[b] <= clock /\ SessionOK(browser[b], b))'
  BY DEF SessionInv, Local, SessionOK, Older, Known, NoPasswordWithoutRow
<1>3. ASSUME NEW p \in Request
      PROVE  CallOK(req[p])'
  <2>1. CallOK(req'[p])
    BY DEF SessionInv, TypeOK, Local
  <2>. QED BY <2>1 DEF Local, CallOK, SessionOK, ChangeOK, AskedOK, Older, Known
<1>. QED BY <1>1, <1>2, <1>3 DEF SessionInv

(* The moment of a request's admission.                                      *)
LEMMA AdmittedSession ==
    ASSUME SessionInv, NEW q \in Request, Admitted(q)
    PROVE  /\ req[q] \in Call /\ req[q].sess \in Session /\ req[q].browser \in Browser
           /\ req[q].mine = 0
           /\ Touched(req[q].sess) \in Session
           /\ req[q].asked = req[q].sess
           /\ req[q].sess.proved <= row.password
           /\ Touched(req[q].sess).proved = req[q].sess.proved
           /\ \A t, b : t = Touched(req[q].sess) /\ b = req[q].browser => SessionOK(t, b)'
<1>1. req[q] \in Call /\ req[q].sess \in Session /\ req[q].browser \in Browser
  BY DEF SessionInv, TypeOK, Admitted, At, Valid, Call
<1>2. req[q].mine = 0 /\ SessionOK(req[q].sess, req[q].browser)
  BY DEF SessionInv, Admitted, At, CallOK, ChangeOK, AskedOK
<1>3. clock \in Nat /\ active'[req[q].browser] = clock /\ UNCHANGED <<row, apart>>
  BY <1>1 DEF SessionInv, TypeOK, Admitted
<1>4. Touched(req[q].sess) \in Session
  BY <1>1, <1>3 DEF Touched, Session
<1>5. ASSUME NEW t, NEW b, t = Touched(req[q].sess), b = req[q].browser
      PROVE  SessionOK(t, b)'
  <2>1. /\ t.auth = req[q].sess.auth /\ t.born = req[q].sess.born
        /\ t.seen = clock
        /\ t.version = req[q].sess.version /\ t.proved = req[q].sess.proved
    BY <1>1, <1>5 DEF Touched, Session
  <2>2. req[q].sess # None
    BY DEF Admitted, Valid
  <2>. QED BY <1>1, <1>2, <1>3, <1>5, <2>1, <2>2 DEF SessionOK, Older, Known
<1>6. req[q].asked = req[q].sess /\ req[q].sess.proved <= row.password
  BY DEF SessionInv, Admitted, At, Valid, CallOK, AskedOK, SessionOK, Known
<1>7. Touched(req[q].sess).proved = req[q].sess.proved
  BY <1>1 DEF Touched, Session
<1>. QED BY <1>1, <1>2, <1>4, <1>5, <1>6, <1>7

(* A step of a call at which its browser is active.                          *)
LEMMA ActiveKeeps ==
    ASSUME SessionInv, NEW q \in Request, NEW r \in Call, PlaceOK(r), CallOK(r)',
           req' = [req EXCEPT ![q] = r],
           req[q].browser \in Browser,
           active' = [active EXCEPT ![req[q].browser] = clock],
           UNCHANGED <<clock, row, browser, apart>>
    PROVE  SessionInv'
<1>1. TypeOK'
  BY DEF SessionInv, TypeOK, PlaceOK
<1>2. \A b \in Browser : active[b] <= active'[b] /\ active'[b] <= clock /\ active'[b] \in Nat
  BY DEF SessionInv, TypeOK
<1>3. \A s \in Session \cup {None}, b \in Browser : SessionOK(s, b) => SessionOK(s, b)'
  <2>. SUFFICES ASSUME NEW s \in Session, NEW b \in Browser, SessionOK(s, b), s # None
                PROVE  SessionOK(s, b)'
    BY DEF SessionOK
  <2>1. s.seen \in Nat /\ active[b] \in Nat
    BY DEF Session, SessionInv, TypeOK
  <2>. QED BY <1>2, <2>1 DEF SessionOK, Older, Known
<1>4. NoPasswordWithoutRow' /\ \A b \in Browser : (active[b] <= clock /\ SessionOK(browser[b], b))'
  BY <1>2, <1>3 DEF SessionInv, TypeOK, NoPasswordWithoutRow
<1>5. ASSUME NEW p \in Request
      PROVE  CallOK(req[p])'
  <2>1. CASE p = q
    <3>1. req'[p] = r
      BY <2>1 DEF SessionInv, TypeOK
    <3>. QED BY <3>1
  <2>2. CASE p # q
    <3>1. req'[p] = req[p] /\ CallOK(req[p]) /\ req[p] \in Call
      BY <2>2 DEF SessionInv, TypeOK
    <3>2. SessionOK(req[p].sess, req[p].browser)'
      <4>1. CASE req[p].sess = None
        BY <3>1, <4>1 DEF SessionOK
      <4>2. CASE req[p].sess # None
        BY <3>1, <4>2, <1>3 DEF Call, CallOK
      <4>. QED BY <4>1, <4>2
    <3>. QED BY <3>1, <3>2 DEF CallOK, ChangeOK, AskedOK, Older, Known
  <2>. QED BY <2>1, <2>2
<1>. QED BY <1>1, <1>4, <1>5 DEF SessionInv

(* The steps of a call that change the row.                                  *)
LEMMA ChangeKeeps ==
    ASSUME SessionInv, NEW q \in Request, NEW r \in Call, PlaceOK(r), Change(q, r),
           \/ r.sess = req[q].sess /\ r.browser = req[q].browser
           \/ r.sess = None,
           r.asked = req[q].asked \/ r.asked = None,
           r.loaded = NoRow,
           r.at \in {"stamp", "free"},
           r.at = "stamp" => r.mine = row.password + 1 /\ r.sess # None,
           r.at = "free" => r.mine = 0
    PROVE  SessionInv'
<1>1. /\ row \in Row /\ req[q] \in Call /\ CallOK(req[q])
      /\ apart' = (apart /\ req[q].loaded = row /\ \A p \in Request : ~At(p, "stamp"))
      /\ row' = [password |-> row.password + 1, version |-> req[q].loaded.version + 1]
  BY DEF SessionInv, TypeOK, Change, NextVersion, Undisturbed
<1>2. /\ row'.password = row.password + 1
      /\ row'.version = req[q].loaded.version + 1
      /\ row' \in Row
  BY <1>1 DEF Row, Call
<1>3. apart \in BOOLEAN
  BY DEF SessionInv, TypeOK
<1>4. /\ apart' \in BOOLEAN
      /\ apart' => apart /\ req[q].loaded = row /\ \A p \in Request : ~At(p, "stamp")
  BY <1>1, <1>3, Zenon
<1>5. /\ row \in Row /\ req[q] \in Call /\ CallOK(req[q])
      /\ row'.password = row.password + 1
      /\ row'.version = req[q].loaded.version + 1
      /\ row' \in Row
      /\ apart' => apart /\ row'.version = row.version + 1 /\ \A p \in Request : ~At(p, "stamp")
      /\ apart' \in BOOLEAN
  BY <1>1, <1>2, <1>4
<1>6. TypeOK' /\ NoPasswordWithoutRow'
  BY <1>5 DEF SessionInv, TypeOK, Change, PlaceOK, NoPasswordWithoutRow, Row, Call
<1>7. \A v, p \in Nat : apart' /\ Older(v, p) => Older(v, p)'
  BY <1>5 DEF Older, Row
<1>7a. \A v, p \in Nat : Known(v, p) => Known(v, p)'
  BY <1>5 DEF Known, Row
<1>8. \A s \in Session \cup {None}, b \in Browser : SessionOK(s, b) => SessionOK(s, b)'
  BY <1>5, <1>7, <1>7a DEF SessionOK, Change, Session
<1>9. \A b \in Browser : (active[b] <= clock /\ SessionOK(browser[b], b))'
  <2>1. \A b \in Browser : browser[b] \in Session \cup {None}
    BY DEF SessionInv, TypeOK
  <2>. QED BY <1>8, <2>1 DEF SessionInv, Change
<1>10. ASSUME NEW c \in Call, CallOK(c), c.at # "stamp" \/ ~apart'
      PROVE  CallOK(c)'
  <2>1. SessionOK(c.sess, c.browser)'
    <3>1. CASE c.sess = None
      BY <3>1 DEF SessionOK
    <3>2. CASE c.sess # None
      BY <3>2, <1>8, <1>10 DEF CallOK, Call
    <3>. QED BY <3>1, <3>2
  <2>2. (apart => Older(c.loaded.version, c.loaded.password))'
    BY <1>5, <1>7, <1>10 DEF CallOK, Call, Row
  <2>3. ChangeOK(c)'
    <3>1. c.mine \in Nat /\ row.password \in Nat
      BY <1>5, <1>10 DEF Call, Row
    <3>. QED BY <1>5, <1>10, <3>1 DEF CallOK, ChangeOK
  <2>4. AskedOK(c)'
    <3>1. row.password \in Nat /\ (c.asked # None => c.asked.proved \in Nat)
      BY <1>5, <1>10 DEF Call, Row, Session
    <3>2. c.at = "login" => Known(c.loaded.version, c.loaded.password)'
      BY <1>7a, <1>10 DEF CallOK, AskedOK, Call, Row
    <3>. QED BY <1>5, <1>10, <3>1, <3>2 DEF CallOK, AskedOK
  <2>. QED BY <1>10, <2>1, <2>2, <2>3, <2>4 DEF CallOK
<1>11. CallOK(r)'
  <2>1. SessionOK(r.sess, r.browser)' /\ (r.sess # None => r.browser \in Browser)
    <3>1. CASE r.sess = None
      BY <3>1 DEF SessionOK
    <3>2. CASE r.sess # None
      <4>1. r.sess \in Session /\ r.browser \in Browser /\ SessionOK(r.sess, r.browser)
        BY <1>5, <3>2 DEF Call, CallOK
      <4>. QED BY <4>1, <1>8
    <3>. QED BY <3>1, <3>2
  <2>2. (apart => Older(r.loaded.version, r.loaded.password))'
    BY <1>5 DEF Older, Known, NoRow, Row
  <2>3. ChangeOK(r)'
    BY <1>5 DEF ChangeOK, Row
  <2>4. AskedOK(r)'
    <3>1. row.password \in Nat /\ (r.asked # None => r.asked.proved \in Nat)
      BY <1>5 DEF Call, Row, Session
    <3>2. r.asked # None => r.asked.proved <= row.password
      BY <1>5 DEF CallOK, AskedOK
    <3>. QED BY <1>5, <3>1, <3>2 DEF AskedOK
  <2>. QED BY <2>1, <2>2, <2>3, <2>4 DEF CallOK
<1>12. ASSUME NEW p \in Request
      PROVE  CallOK(req[p])'
  <2>1. CASE p = q
    <3>1. req'[p] = r
      BY <2>1 DEF SessionInv, TypeOK, Change
    <3>. QED BY <3>1, <1>11
  <2>2. CASE p # q
    <3>1. PICK c \in Call : c = req[p]
      BY DEF SessionInv, TypeOK
    <3>2. req'[p] = c /\ CallOK(c)
      BY <2>2, <3>1 DEF SessionInv, TypeOK, Change
    <3>3. c.at # "stamp" \/ ~apart'
      BY <1>5, <3>1 DEF At
    <3>4. CallOK(c)'
      BY <3>2, <3>3, <1>10
    <3>. QED BY <3>2, <3>4
  <2>. QED BY <2>1, <2>2
<1>. QED BY <1>6, <1>9, <1>12 DEF SessionInv

(* A request that has been sent, with its session.                           *)
LEMMA SentCall ==
    ASSUME SessionInv, NEW q \in Request
    PROVE  /\ req[q] \in Call /\ CallOK(req[q]) /\ PlaceOK(req[q])
           /\ row \in Row /\ clock \in Nat
BY DEF SessionInv, TypeOK, PlaceOK

(* The steps of a call.                                                      *)
LEMMA StepKeeps ==
    ASSUME SessionInv, NEW q \in Request, Step(q)
    PROVE  SessionInv'
<1>. /\ req[q] \in Call /\ CallOK(req[q]) /\ PlaceOK(req[q])
     /\ row \in Row /\ clock \in Nat
  BY SentCall
<1>1. CASE \E b \in Browser : Send(q, b)
  <2>1. PICK b \in Browser : Send(q, b)
    BY <1>1
  <2>2. PICK r : r = [Free EXCEPT !.at = "sent", !.browser = b, !.sess = browser[b],
                          !.asked = browser[b]]
    OBVIOUS
  <2>3. browser[b] \in Session \cup {None} /\ SessionOK(browser[b], b)
    BY DEF SessionInv, TypeOK
  <2>4. r \in Call /\ PlaceOK(r)
    BY <2>2, <2>3 DEF Free, NoRow, Call, Row, PlaceOK
  <2>5. CallOK(Free)
    BY FreeIsOK DEF SessionInv
  <2>6. CallOK(r)
    <3>1. ChangeOK(r)
      BY <2>2, <2>3, <2>5 DEF CallOK, ChangeOK, Free
    <3>2. AskedOK(r)
      BY <2>2, <2>3 DEF AskedOK, SessionOK, Known, Free
    <3>. QED BY <2>2, <2>3, <2>5, <3>1, <3>2 DEF CallOK, Free
  <2>. QED BY <2>1, <2>2, <2>4, <2>6, LocalKeeps DEF Send
<1>2. CASE Page(q)
  <2>1. Admitted(q) /\ At(q, "sent")
    BY <1>2 DEF Page, Admitted
  <2>2. PICK r : r = Reply(q, Touched(req[q].sess))
    OBVIOUS
  <2>3. /\ req[q].sess \in Session /\ req[q].browser \in Browser
        /\ req[q].mine = 0
        /\ Touched(req[q].sess) \in Session
        /\ req[q].asked = req[q].sess /\ req[q].sess.proved <= row.password
        /\ Touched(req[q].sess).proved = req[q].sess.proved
        /\ \A t, b : t = Touched(req[q].sess) /\ b = req[q].browser => SessionOK(t, b)'
    BY <2>1, AdmittedSession
  <2>4. r \in Call /\ PlaceOK(r)
    BY <2>2, <2>3 DEF Reply, Call, NoRow, Row, PlaceOK
  <2>5. /\ r.browser = req[q].browser /\ r.sess = Touched(req[q].sess) /\ r.at = "reply"
        /\ r.mine = 0 /\ r.loaded = NoRow /\ r.asked = req[q].asked
    BY <2>2, <2>3 DEF Reply, Call
  <2>6. Older(0, 0)' /\ UNCHANGED row
    BY <2>1 DEF Admitted, Older, Known, SessionInv, NoPasswordWithoutRow, Row
  <2>7. AskedOK(r)'
    <3>1. req[q].sess.proved \in Nat
      BY <2>3 DEF Session
    <3>. QED BY <2>3, <2>5, <2>6, <3>1 DEF AskedOK
  <2>8. CallOK(r)'
    BY <2>3, <2>5, <2>6, <2>7 DEF CallOK, ChangeOK, NoRow, Row
  <2>. QED BY <1>2, <2>2, <2>3, <2>4, <2>8, ActiveKeeps DEF Page, Admitted
<1>3. CASE Refused(q) \/ Logout(q)
  <2>1. PICK r : r = Reply(q, None)
    OBVIOUS
  <2>2. r \in Call /\ PlaceOK(r) /\ r.mine = 0
    BY <1>3, <2>1 DEF Refused, Logout, At, Reply, Call, NoRow, Row, PlaceOK, CallOK, ChangeOK
  <2>3. CallOK(r)
    BY <1>3, <2>1, <2>2, FreeIsOK
    DEF SessionInv, Reply, Call, Free, CallOK, ChangeOK, AskedOK, SessionOK
  <2>. QED BY <1>3, <2>1, <2>2, <2>3, LocalKeeps DEF Refused, Logout
<1>4. CASE LoginReads(q)
  <2>1. PICK r : r = [req[q] EXCEPT !.at = "login", !.loaded = row]
    OBVIOUS
  <2>2. r \in Call /\ PlaceOK(r)
    BY <1>4, <2>1 DEF LoginReads, At, Call, PlaceOK
  <2>3. CallOK(r)
    BY <1>4, <2>1 DEF LoginReads, At, Call, CallOK, ChangeOK, AskedOK, Older, Known, Row
  <2>. QED BY <1>4, <2>1, <2>2, <2>3, LocalKeeps DEF LoginReads
<1>5. CASE LoginOk(q)
  <2>1. PICK t : t = [auth |-> clock, seen |-> clock, version |-> req[q].loaded.version,
                      proved |-> req[q].loaded.password, born |-> clock]
    OBVIOUS
  <2>2. PICK r : r = Reply(q, t)
    OBVIOUS
  <2>3. t \in Session /\ req[q].browser \in Browser
    BY <1>5, <2>1 DEF LoginOk, At, PlaceOK, Call, Row, Session
  <2>4. r \in Call /\ PlaceOK(r) /\ r.browser = req[q].browser /\ r.sess = t /\ r.mine = 0
        /\ r.loaded = NoRow /\ r.at = "reply"
    BY <1>5, <2>2, <2>3 DEF LoginOk, At, Reply, Call, NoRow, Row, PlaceOK, CallOK, ChangeOK
  <2>5. Older(0, 0)' /\ UNCHANGED <<row, apart>> /\ active'[r.browser] = clock
    BY <1>5, <2>3, <2>4 DEF LoginOk, Older, Known, SessionInv, TypeOK, NoPasswordWithoutRow, Row
  <2>6. SessionOK(t, r.browser)'
    <3>1. (apart => Older(t.version, t.proved))'
      BY <2>1, <2>5 DEF CallOK, Older, Known
    <3>2. t.auth = t.born /\ t.seen <= active'[r.browser]
      BY <2>1, <2>5
    <3>3. Known(t.version, t.proved)'
      BY <1>5, <2>1, <2>5 DEF LoginOk, At, CallOK, AskedOK, Known
    <3>. QED BY <3>1, <3>2, <3>3 DEF SessionOK
  <2>7. CallOK(r)'
    <3>1. r.asked = req[q].asked
      BY <2>2, <2>3 DEF Reply, Call
    <3>2. AskedOK(r)'
      BY <1>5, <2>1, <2>4, <2>5, <3>1 DEF LoginOk, At, CallOK, AskedOK
    <3>. QED BY <2>3, <2>4, <2>5, <2>6, <3>2 DEF CallOK, ChangeOK, NoRow, Row
  <2>8. req' = [req EXCEPT ![q] = r]
    BY <1>5, <2>1, <2>2 DEF LoginOk
  <2>. QED BY <1>5, <2>3, <2>4, <2>7, <2>8, ActiveKeeps DEF LoginOk
<1>6. CASE ChangeLoads(q)
  <2>1. Admitted(q) /\ At(q, "sent")
    BY <1>6 DEF ChangeLoads, Admitted
  <2>2. PICK r : r = [req[q] EXCEPT !.at = "change", !.sess = Touched(req[q].sess), !.loaded = row]
    OBVIOUS
  <2>3. /\ req[q].sess \in Session /\ req[q].browser \in Browser
        /\ req[q].mine = 0
        /\ Touched(req[q].sess) \in Session
        /\ req[q].asked = req[q].sess /\ req[q].sess.proved <= row.password
        /\ Touched(req[q].sess).proved = req[q].sess.proved
        /\ \A t, b : t = Touched(req[q].sess) /\ b = req[q].browser => SessionOK(t, b)'
    BY <2>1, AdmittedSession
  <2>4. r \in Call /\ PlaceOK(r) /\ r.sess # None
    BY <2>2, <2>3, SessionAssumption DEF Call, Row, PlaceOK
  <2>5. /\ r.browser = req[q].browser /\ r.sess = Touched(req[q].sess) /\ r.at = "change"
        /\ r.mine = 0 /\ r.loaded = row /\ r.asked = req[q].asked
    BY <2>2, <2>3 DEF Call
  <2>6. Older(r.loaded.version, r.loaded.password)' /\ UNCHANGED row
    BY <2>1, <2>5 DEF Admitted, Older, Known, Row
  <2>7. CallOK(r)'
    <3>1. AskedOK(r)'
      <4>1. req[q].sess.proved \in Nat
        BY <2>3 DEF Session
      <4>. QED BY <2>3, <2>5, <2>6, <4>1 DEF AskedOK
    <3>. QED BY <2>3, <2>4, <2>5, <2>6, <3>1 DEF CallOK, ChangeOK, Row
  <2>8. req' = [req EXCEPT ![q] = r]
    BY <1>6, <2>2 DEF ChangeLoads
  <2>. QED BY <2>1, <2>3, <2>4, <2>7, <2>8, ActiveKeeps DEF Admitted
<1>7. CASE ChangeRejected(q)
  <2>1. PICK r : r = Reply(q, req[q].sess)
    OBVIOUS
  <2>2. r \in Call /\ PlaceOK(r) /\ r.mine = 0
    BY <1>7, <2>1 DEF ChangeRejected, At, Reply, Call, NoRow, Row, PlaceOK, CallOK, ChangeOK
  <2>3. CallOK(r)
    <3>1. AskedOK(r)
      BY <1>7, <2>1 DEF ChangeRejected, At, Reply, Call, CallOK, AskedOK
    <3>. QED BY <1>7, <2>1, <2>2, <3>1, FreeIsOK DEF SessionInv, Reply, Call, Free, CallOK, ChangeOK
  <2>. QED BY <1>7, <2>1, <2>2, <2>3, LocalKeeps DEF ChangeRejected
<1>8. CASE ChangeCommits(q)
  <2>1. PICK r : r = [req[q] EXCEPT !.at = "stamp", !.loaded = NoRow, !.mine = row.password + 1]
    OBVIOUS
  <2>2. row.password + 1 \in Nat /\ NoRow \in Row
    BY DEF Row, NoRow
  <2>3. r \in Call
    BY <2>1, <2>2 DEF Call
  <2>4. r \in Call /\ PlaceOK(r)
    BY <1>8, <2>1, <2>3 DEF ChangeCommits, At, Call, PlaceOK
  <2>5. r.sess = req[q].sess /\ r.browser = req[q].browser /\ r.loaded = NoRow /\ r.at = "stamp"
        /\ r.mine = row.password + 1 /\ r.sess # None /\ r.asked = req[q].asked
    BY <1>8, <2>1 DEF ChangeCommits, At, Call, CallOK, ChangeOK, AskedOK
  <2>. QED BY <1>8, <2>1, <2>4, <2>5, ChangeKeeps DEF ChangeCommits
<1>9. CASE Restamp(q)
  <2>1. PICK t : t = [req[q].sess EXCEPT !.version = row.version, !.proved = req[q].mine]
    OBVIOUS
  <2>2. PICK r : r = Reply(q, t)
    OBVIOUS
  <2>3. req[q].sess \in Session /\ req[q].sess # None /\ req[q].at = "stamp"
    BY <1>9 DEF Restamp, At, Call, CallOK, ChangeOK, AskedOK
  <2>4. /\ t \in Session /\ t.version = row.version /\ t.proved = req[q].mine
        /\ t.auth = req[q].sess.auth /\ t.born = req[q].sess.born /\ t.seen = req[q].sess.seen
    BY <2>1, <2>3 DEF Call, Row, Session
  <2>5. r \in Call /\ PlaceOK(r) /\ r.browser = req[q].browser /\ r.sess = t
        /\ r.at = "reply" /\ r.mine = req[q].mine /\ r.loaded = NoRow /\ r.asked = req[q].asked
    BY <2>2, <2>3, <2>4 DEF Reply, Call, NoRow, Row, PlaceOK
  <2>6. SessionOK(t, r.browser)
    <3>1. apart => Older(t.version, t.proved)
      BY <2>3, <2>4 DEF CallOK, ChangeOK, AskedOK, Older, Known, Row
    <3>2. Known(t.version, t.proved)
      BY <2>4 DEF CallOK, ChangeOK, Known
    <3>. QED BY <2>3, <2>4, <2>5, <3>1, <3>2 DEF SessionOK, CallOK
  <2>7. Older(0, 0)
    BY DEF Older, Known, SessionInv, NoPasswordWithoutRow, Row
  <2>8. t # None
    BY <2>4, SessionAssumption
  <2>9. CallOK(r)
    <3>1. AskedOK(r)
      BY <2>3, <2>4, <2>5 DEF CallOK, AskedOK
    <3>. QED BY <2>3, <2>4, <2>5, <2>6, <2>7, <2>8, <3>1 DEF CallOK, ChangeOK, NoRow
  <2>. QED BY <1>9, <2>1, <2>2, <2>5, <2>9, LocalKeeps DEF Restamp
<1>10. CASE CliReads(q)
  <2>1. PICK r : r = [Free EXCEPT !.at = "cli", !.loaded = row]
    OBVIOUS
  <2>2. r \in Call /\ PlaceOK(r)
    BY <2>1 DEF Free, NoRow, Call, Row, PlaceOK
  <2>3. CallOK(Free)
    BY FreeIsOK DEF SessionInv
  <2>4. CallOK(r)
    BY <2>1, <2>3 DEF CallOK, SessionOK, ChangeOK, AskedOK, Older, Known, Free, Row
  <2>. QED BY <1>10, <2>1, <2>2, <2>4, LocalKeeps DEF CliReads
<1>11. CASE CliCommits(q)
  <2>1. PICK r : r = Free
    OBVIOUS
  <2>2. r \in Call /\ PlaceOK(r)
    BY <2>1, FreeIsOK DEF SessionInv
  <2>3. r.sess = None /\ r.loaded = NoRow /\ r.at = "free" /\ r.mine = 0 /\ r.asked = None
    BY <2>1 DEF Free
  <2>. QED BY <1>11, <2>1, <2>2, <2>3, ChangeKeeps DEF CliCommits
<1>12. CASE Arrive(q)
  <2>1. /\ req[q].browser \in Browser /\ req[q].sess \in Session \cup {None}
        /\ SessionOK(req[q].sess, req[q].browser)
    BY <1>12 DEF Arrive, At, PlaceOK, Call, CallOK
  <2>2. Free \in Call /\ PlaceOK(Free) /\ CallOK(Free)
    BY FreeIsOK DEF SessionInv
  <2>3. TypeOK'
    BY <1>12, <2>1, <2>2 DEF Arrive, SessionInv, TypeOK, PlaceOK
  <2>4. \A b \in Browser : active[b] <= clock /\ SessionOK(browser'[b], b)
    BY <1>12, <2>1 DEF Arrive, SessionInv, TypeOK
  <2>5. \A p \in Request : CallOK(req'[p])
    BY <1>12, <2>2 DEF Arrive, SessionInv, TypeOK
  <2>6. UNCHANGED <<clock, row, apart, active>>
    BY <1>12 DEF Arrive
  <2>7. (\A b \in Browser : active[b] <= clock /\ SessionOK(browser[b], b))'
    BY <2>4, <2>6 DEF SessionOK, Older, Known
  <2>8. (\A p \in Request : CallOK(req[p]))'
    BY <2>5, <2>6 DEF CallOK, SessionOK, ChangeOK, AskedOK, Older, Known
  <2>. QED BY <2>3, <2>6, <2>7, <2>8 DEF SessionInv, NoPasswordWithoutRow
<1>13. CASE EndWithoutCookie(q)
  <2>1. PICK r : r = Free
    OBVIOUS
  <2>. QED BY <1>13, <2>1, FreeIsOK, LocalKeeps DEF SessionInv, EndWithoutCookie
<1>. QED
  BY <1>1, <1>2, <1>3, <1>4, <1>5, <1>6, <1>7, <1>8, <1>9, <1>10, <1>11, <1>12, <1>13 DEF Step

(* The invariant is inductive.                                               *)
LEMMA NextKeeps ==
    ASSUME SessionInv, [Next]_vars
    PROVE  SessionInv'
<1>1. CASE Tick
  <2>1. clock \in Nat /\ clock' = clock + 1 /\ UNCHANGED <<row, browser, req, apart, active>>
    BY <1>1 DEF Tick, SessionInv, TypeOK
  <2>2. TypeOK' /\ NoPasswordWithoutRow'
    BY <2>1 DEF SessionInv, TypeOK, NoPasswordWithoutRow, PlaceOK
  <2>3. \A b \in Browser : active[b] <= clock' /\ SessionOK(browser[b], b)
    BY <2>1 DEF SessionInv, TypeOK
  <2>. QED BY <2>1, <2>2, <2>3 DEF SessionInv, CallOK, SessionOK, ChangeOK, AskedOK, Older, Known
<1>2. CASE \E q \in Request : Step(q)
  BY <1>2, StepKeeps
<1>3. CASE UNCHANGED vars
  BY <1>3 DEF vars, SessionInv, TypeOK, PlaceOK, NoPasswordWithoutRow, CallOK, SessionOK,
              ChangeOK, AskedOK, Older, Known
<1>. QED BY <1>1, <1>2, <1>3 DEF Next

(* It holds in the beginning.                                                *)
LEMMA InitKeeps ==
    ASSUME Init
    PROVE  SessionInv
<1>1. row \in Row /\ NoPasswordWithoutRow /\ row.password = 0
  BY DEF Init, Row, NoRow, NoPasswordWithoutRow
<1>2. Free \in Call /\ Free.at = "free"
  BY DEF Free, NoRow, Call, Row
<1>3. TypeOK
  BY <1>1, <1>2 DEF Init, TypeOK
<1>4. CallOK(Free)
  BY <1>1, <1>3, FreeIsOK
<1>. QED BY <1>1, <1>3, <1>4 DEF Init, SessionInv, SessionOK

(* The invariant behind the theorems below: what cookies, requests and late  *)
(* responses can hold of versions, passwords and times (auth.py:42-89,       *)
(* routes.py:1392-1396, admin_cli.py:12-21).                                 *)
THEOREM SessionInvariant == Spec => []SessionInv
<1>. QED BY InitKeeps, NextKeeps, PTL DEF Spec

(* What the variables hold, always.                                          *)
THEOREM TypeCorrect == Spec => []TypeOK
<1>1. SessionInv => TypeOK
  BY DEF SessionInv
<1>. QED BY <1>1, SessionInvariant, PTL

(* As long as no two changes overlap, a change ends every earlier session.   *)
THEOREM ChangesRevoke == Spec => []OldSessionsEnd
<1>1. ASSUME SessionInv, apart, NEW s \in Sessions
      PROVE  s.version = row.version => s.proved = row.password
  <2>1. CASE \E b \in Browser : s = browser[b]
    BY <1>1, <2>1 DEF Sessions, SessionInv, SessionOK, Older, Known
  <2>2. CASE \E q \in Request : s = req[q].sess
    BY <1>1, <2>2 DEF Sessions, SessionInv, CallOK, SessionOK, Older, Known
  <2>. QED BY <2>1, <2>2 DEF Sessions
<1>2. SessionInv => OldSessionsEnd
  BY <1>1 DEF OldSessionsEnd, OldSessionsAlwaysEnd
<1>. QED BY <1>2, SessionInvariant, PTL

(* Who changes the password stays logged in while it is the password, for    *)
(* any number of requests and changes under way, overlapping or not: only    *)
(* responses to earlier requests can take the session away (routes.py:1396,  *)
(* auth.py:79-88).                                                           *)
THEOREM OwnSessionStays == Spec => ChangeKeepsOwnSession
<1>. DEFINE Got(q) == browser'[req[q].browser]
<1>1. ASSUME SessionInv, NEW q \in Request, Arrive(q),
             \/ req[q].mine # 0 /\ req[q].mine = row.password
             \/ InForce(req[q].asked)
      PROVE  /\ req[q].mine # 0 /\ req[q].mine = row.password => InForce(Got(q))
             /\ Got(q) = None \/ InForce(Got(q))
  <2>1. CallOK(req[q]) /\ req[q] \in Call /\ req[q].browser \in Browser /\ req[q].at = "reply"
        /\ row.password \in Nat
    BY <1>1 DEF SessionInv, TypeOK, Arrive, At, Row
  <2>2. Got(q) = req[q].sess
    BY <1>1, <2>1 DEF SessionInv, TypeOK, Arrive
  <2>3. req[q].mine # 0 /\ req[q].mine = row.password => InForce(req[q].sess)
    BY <2>1 DEF CallOK, ChangeOK, InForce
  <2>4. ASSUME InForce(req[q].asked), req[q].sess # None
        PROVE  InForce(req[q].sess)
    <3>1. req[q].asked.proved = row.password /\ req[q].asked.proved <= req[q].sess.proved
      BY <2>1, <2>4 DEF CallOK, AskedOK, InForce
    <3>2. req[q].sess.proved \in Nat /\ req[q].sess.proved <= row.password
      BY <2>1, <2>4 DEF CallOK, SessionOK, Known, Call, Session
    <3>. QED BY <2>1, <2>4, <3>1, <3>2 DEF InForce
  <2>. HIDE DEF Got
  <2>. QED BY <1>1, <2>2, <2>3, <2>4
<1>2. ASSUME SessionInv, NEW q \in Request, Refused(q), InForce(req[q].sess)
      PROVE  Expired(req[q].sess)
  BY <1>2 DEF SessionInv, CallOK, SessionOK, Known, Refused, Valid, InForce
<1>3. SessionInv /\ [Next]_vars =>
        [\A q \in Request :
           LET got == browser'[req[q].browser]
           IN  /\ Arrive(q) /\ req[q].mine # 0 /\ req[q].mine = row.password => InForce(got)
               /\ Refused(q) /\ InForce(req[q].sess) => Expired(req[q].sess)
               /\ Arrive(q) /\ InForce(req[q].asked) => got = None \/ InForce(got)]_vars
  BY <1>1, <1>2
<1>. QED BY <1>3, SessionInvariant, PTL DEF Spec, ChangeKeepsOwnSession

(* What an admitted session is: younger than MaxAge and lately used.         *)
LEMMA AdmissionLimits ==
    ASSUME SessionInv, NEW q \in Request, Page(q) \/ ChangeLoads(q)
    PROVE  /\ clock - req[q].sess.born < MaxAge
           /\ clock - active[req[q].browser] < IdleTimeout
<1>1. Admitted(q)
  BY DEF Page, ChangeLoads
<1>2. /\ req[q].sess \in Session /\ req[q].browser \in Browser /\ clock \in Nat
      /\ active[req[q].browser] \in Nat /\ SessionOK(req[q].sess, req[q].browser)
  BY <1>1, AdmittedSession DEF SessionInv, TypeOK, CallOK
<1>3. req[q].sess # None /\ ~Expired(req[q].sess)
  BY <1>1 DEF Admitted, Valid
<1>4. req[q].sess.auth \in Nat /\ req[q].sess.seen \in Nat
  BY <1>2 DEF Session
<1>. QED BY <1>2, <1>3, <1>4, SessionAssumption DEF Expired, SessionOK

(* A session ends at its maximum age, whatever renews or restores it.        *)
THEOREM SessionsEndByAge == Spec => SessionsAge
<1>1. SessionInv /\ [Next]_vars =>
        [\A q \in Request : Page(q) \/ ChangeLoads(q)
            => clock - req[q].sess.born < MaxAge]_vars
  BY AdmissionLimits
<1>. QED BY <1>1, SessionInvariant, PTL DEF Spec, SessionsAge

(* A session ends when its browser has been idle.                            *)
THEOREM SessionsEndIdle == Spec => IdleSessionsEnd
<1>1. SessionInv /\ [Next]_vars =>
        [\A q \in Request : Page(q) \/ ChangeLoads(q)
            => clock - active[req[q].browser] < IdleTimeout]_vars
  BY AdmissionLimits
<1>. QED BY <1>1, SessionInvariant, PTL DEF Spec, IdleSessionsEnd
===============================================================================
