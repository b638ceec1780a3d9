----------------------------- MODULE AdminSession -----------------------------
(* The sessions of one administrator: login, logout and the check of every   *)
(* request (app/auth.py), the change of the password on the settings page    *)
(* (app/routes.py) and on the command line (app/admin_cli.py).  A session    *)
(* lives in the browser's cookie only, with the session_version of the       *)
(* AdminUser row at its time; the row's version is what revokes it.          *)
(*                                                                           *)
(* A request works on the cookie it was sent with, and its response sets the *)
(* browser's cookie when it arrives; the responses to the requests of one    *)
(* browser arrive in any order.  Rows are read outside a transaction: a      *)
(* change writes back the version it read, plus one, long after its read,    *)
(* because a bcrypt hash lies in between.                                    *)
EXTENDS Naturals

CONSTANTS
    Browser,
    Request,     \* requests and runs of the command line tool under way
    None,        \* no session, no browser
    MaxAge,      \* session_max_age_seconds
    IdleTimeout, \* session_idle_timeout_seconds
    MaxChanges,  \* bound of the model: passwords after the first
    MaxClock     \* bound of the model: where the clock stops

(* What a cookie holds.  Two fields are histories: the password the session  *)
(* has proved to know, and the time of its login.                            *)
Session == [auth : Nat, seen : Nat, version : Nat, proved : Nat, born : Nat]

ASSUME SessionAssumption ==
    /\ None \notin Browser /\ None \notin Session
    /\ MaxAge \in Nat \ {0} /\ IdleTimeout \in Nat \ {0}
    /\ MaxChanges \in Nat /\ MaxClock \in Nat

VARIABLES
    clock,   \* the host's time
    row,     \* the AdminUser row; passwords are numbered as they are set
    browser, \* browser[b]: the session in b's cookie, or None
    req,     \* req[q]: the local variables of q
    apart,   \* history: no two changes have overlapped so far
    active   \* history: when a request of b was last admitted

vars == <<clock, row, browser, req, apart, active>>

(* No id is 0, no version either: a row that is not there.                   *)
NoRow == [password |-> 0, version |-> 0]

(* `sess` is the session a request works on, `loaded` the row as it read it, *)
(* `mine` the password it has set.  A history: `asked`, the session it was   *)
(* sent with.                                                                *)
Free == [at |-> "free", browser |-> None, sess |-> None, loaded |-> NoRow, mine |-> 0,
         asked |-> None]

Init ==
    /\ clock = 0
    /\ row \in {NoRow, [password |-> 0, version |-> 1]}
    /\ browser = [b \in Browser |-> None]
    /\ req = [q \in Request |-> Free]
    /\ apart = TRUE
    /\ active = [b \in Browser |-> 0]

-------------------------------------------------------------------------------
Tick == /\ clock < MaxClock
        /\ clock' = clock + 1
        /\ UNCHANGED <<row, browser, req, apart, active>>

At(q, place) == req[q].at = place

(* A step that changes only the local variables of q.                        *)
Local(q, r) ==
    /\ req' = [req EXCEPT ![q] = r]
    /\ UNCHANGED <<clock, row, browser, apart, active>>

Send(q, b) ==
    /\ At(q, "free")
    /\ Local(q, [Free EXCEPT !.at = "sent", !.browser = b, !.sess = browser[b],
                         !.asked = browser[b]])

(* The answer carries the session the request ends with.                     *)
Reply(q, sess) == [req[q] EXCEPT !.at = "reply", !.sess = sess, !.loaded = NoRow]

(* Mutant: the idle limit is forgotten.                                      *)
ExpiredByAge(s) == clock - s.auth >= MaxAge

Expired(s) == clock - s.auth >= MaxAge \/ clock - s.seen >= IdleTimeout

(* require_admin: the session is of this user, of this version and not old.  *)
Valid(s) == /\ s # None
            /\ s.version = row.version
            /\ ~Expired(s)

(* Mutant: activity counts as a login.                                       *)
Renewed(s) == [s EXCEPT !.seen = clock, !.auth = clock]

Touched(s) == [s EXCEPT !.seen = clock]

Admitted(q) ==
    /\ At(q, "sent")
    /\ Valid(req[q].sess)
    /\ active' = [active EXCEPT ![req[q].browser] = clock]
    /\ UNCHANGED <<clock, row, browser, apart>>

(* Any page: what it does beside is for other modules.                       *)
Page(q) ==
    /\ Admitted(q)
    /\ req' = [req EXCEPT ![q] = Reply(q, Touched(req[q].sess))]

Refused(q) ==
    /\ At(q, "sent")
    /\ ~Valid(req[q].sess)
    /\ Local(q, Reply(q, None))

Logout(q) ==
    /\ At(q, "sent")
    /\ Local(q, Reply(q, None))

(* The row is read before the password is verified.                          *)
LoginReads(q) ==
    /\ At(q, "sent")
    /\ Local(q, [req[q] EXCEPT !.at = "login", !.loaded = row])

(* establish_admin_session, after the password has matched the loaded hash.  *)
LoginOk(q) ==
    /\ At(q, "login")
    /\ req[q].loaded # NoRow
    /\ req' = [req EXCEPT ![q] = Reply(q, [auth |-> clock, seen |-> clock,
                                           version |-> req[q].loaded.version,
                                           proved |-> req[q].loaded.password,
                                           born |-> clock])]
    /\ active' = [active EXCEPT ![req[q].browser] = clock]
    /\ UNCHANGED <<clock, row, browser, apart>>

(* change_admin_password has its user from require_admin.                    *)
ChangeLoads(q) ==
    /\ Admitted(q)
    /\ LET sess == Touched(req[q].sess)
       IN  req' = [req EXCEPT ![q] = [@ EXCEPT !.at = "change", !.sess = sess,
                                               !.loaded = row]]

(* The form is in error: fields empty, wrong, too short or different.        *)
ChangeRejected(q) ==
    /\ At(q, "change")
    /\ Local(q, Reply(q, req[q].sess))

(* Mutant: the version stays.                                                *)
SameVersion(loaded) == IF loaded = NoRow THEN 1 ELSE loaded.version

NextVersion(loaded) == loaded.version + 1

(* Nobody has committed a change since q read the row, and none is between   *)
(* its commit and its restamping.                                            *)
Undisturbed(q) == req[q].loaded = row /\ \A p \in Request : ~At(p, "stamp")

(* The UPDATE, or the INSERT of the first row.                               *)
Change(q, next) ==
    /\ row.password < MaxChanges
    /\ row' = [password |-> row.password + 1, version |-> NextVersion(req[q].loaded)]
    /\ apart' = (apart /\ Undisturbed(q))
    /\ req' = [req EXCEPT ![q] = next]
    /\ UNCHANGED <<clock, browser, active>>

ChangeCommits(q) ==
    /\ At(q, "change")
    /\ Change(q, [req[q] EXCEPT !.at = "stamp", !.loaded = NoRow,
                               !.mine = row.password + 1])

(* Mutant: the version is not restamped.                                     *)
NoRestamp(q) ==
    /\ At(q, "stamp")
    /\ Local(q, Reply(q, [req[q].sess EXCEPT !.proved = req[q].mine]))

(* After the commit user.session_version is read from the database again.    *)
Restamp(q) ==
    /\ At(q, "stamp")
    /\ Local(q, Reply(q, [req[q].sess EXCEPT !.version = row.version,
                                             !.proved = req[q].mine]))

(* upsert_admin_user reads the row, hashes the password and commits; the     *)
(* unique name refuses a second first row.                                   *)
CliReads(q) ==
    /\ At(q, "free")
    /\ Local(q, [Free EXCEPT !.at = "cli", !.loaded = row])

CliCommits(q) ==
    /\ At(q, "cli")
    /\ req[q].loaded = NoRow => row = NoRow
    /\ Change(q, Free)

(* The response arrives at the browser with its cookie.                      *)
Arrive(q) ==
    /\ At(q, "reply")
    /\ browser' = [browser EXCEPT ![req[q].browser] = req[q].sess]
    /\ req' = [req EXCEPT ![q] = Free]
    /\ UNCHANGED <<clock, row, apart, active>>

(* An answer that sets no cookie: a wrong or limited login, a form token     *)
(* refused, an exception at any place; or the connection or the process is   *)
(* lost.                                                                     *)
EndWithoutCookie(q) ==
    /\ ~At(q, "free")
    /\ Local(q, Free)

Step(q) ==
    \/ \E b \in Browser : Send(q, b)
    \/ Page(q) \/ Refused(q) \/ Logout(q)
    \/ LoginReads(q) \/ LoginOk(q)
    \/ ChangeLoads(q) \/ ChangeRejected(q) \/ ChangeCommits(q) \/ Restamp(q)
    \/ CliReads(q) \/ CliCommits(q)
    \/ Arrive(q) \/ EndWithoutCookie(q)

Next == Tick \/ \E q \in Request : Step(q)

Spec == Init /\ [][Next]_vars

-------------------------------------------------------------------------------
Row == [password : Nat, version : Nat]
Call == [at : {"free", "sent", "reply", "login", "change", "stamp", "cli"},
         browser : Browser \cup {None}, sess : Session \cup {None},
         loaded : Row, mine : Nat, asked : Session \cup {None}]

(* What each variable holds; only the command line tool has no browser.      *)
TypeOK ==
    /\ clock \in Nat
    /\ row \in Row
    /\ browser \in [Browser -> Session \cup {None}]
    /\ req \in [Request -> Call]
    /\ \A q \in Request : req[q].at \in {"sent", "reply", "login", "change", "stamp"}
            => req[q].browser \in Browser
    /\ apart \in BOOLEAN
    /\ active \in [Browser -> Nat]

(* Wherever a session is: in a cookie, or in a request or response.          *)
Sessions == ({browser[b] : b \in Browser} \cup {req[q].sess : q \in Request}) \ {None}

(* docs/operations.md:338: a change of the password, on the page or by the   *)
(* command line, ends every session of an earlier password: it has another   *)
(* version than the row and is refused at its next request (routes.py:1393,  *)
(* admin_cli.py:19, auth.py:79).                                             *)
OldSessionsAlwaysEnd ==
    \A s \in Sessions : s.version = row.version => s.proved = row.password

(* So it is as long as no two changes have overlapped, also for the sessions *)
(* of logins under way and of responses that arrive later.  Where changes do *)
(* overlap an increment is lost, or the version goes back and an earlier one *)
(* comes by again.                                                           *)
OldSessionsEnd == apart => OldSessionsAlwaysEnd

(* A session of the password as it is now: of who has set it, or logged in   *)
(* with it.                                                                  *)
InForce(s) == s # None /\ s.proved = row.password

(* Who changes the password stays logged in while it is the password, with   *)
(* one exception.  The response to the change brings a session in force      *)
(* (routes.py:1396); a request sent with one is refused only when too old    *)
(* or idle (auth.py:79); and the response to such a request leaves the       *)
(* browser a session in force, unless it logs out or refuses.  The exception *)
(* is a response to a request sent before, which arrives late: each admitted *)
(* request sets the cookie again (auth.py:88), a refused one deletes it, so  *)
(* the author of the change must log in again.                               *)
ChangeKeepsOwnSession ==
    [][\A q \in Request :
         LET got == browser'[req[q].browser]
         IN  /\ Arrive(q) /\ req[q].mine # 0 /\ req[q].mine = row.password => InForce(got)
             /\ Refused(q) /\ InForce(req[q].sess) => Expired(req[q].sess)
             /\ Arrive(q) /\ InForce(req[q].asked) => got = None \/ InForce(got)]_vars

(* A request is admitted less than MaxAge after its session's login, however *)
(* often the session was used, restamped or restored by a late response      *)
(* (auth.py:83).                                                             *)
SessionsAge ==
    [][\A q \in Request : Page(q) \/ ChangeLoads(q)
         => clock - req[q].sess.born < MaxAge]_vars

(* A browser of which nothing was admitted for IdleTimeout is refused, even  *)
(* if responses overtake each other and set last_activity_at back            *)
(* (auth.py:84).                                                             *)
IdleSessionsEnd ==
    [][\A q \in Request : Page(q) \/ ChangeLoads(q)
         => clock - active[req[q].browser] < IdleTimeout]_vars
===============================================================================
