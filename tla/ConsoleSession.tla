--------------------------- MODULE ConsoleSession ---------------------------
(***************************************************************************)
(* The login of the console: one token in localStorage, shared by every    *)
(* tab of the browser (api/client.ts), the router's guard, LoginView, and  *)
(* what App.vue does on every page: a poll each 30 seconds and the change  *)
(* of the password.  The server answers 401 to a token it does not accept, *)
(* and to a wrong password as well.                                        *)
(***************************************************************************)
EXTENDS Console

CONSTANTS Tabs, MaxTokens  \* BOUND: logins that succeed

VARIABLE session

SessionInit ==
    session = [token |-> 0,                     \* localStorage; 0 is none
               issued |-> 0, valid |-> {},      \* the server's side
               page |-> [t \in Tabs |-> "login"],
               asked |-> {}]                    \* requests under way, each with the token it carries

Authed == session.token # 0

(* request reads the token before it fetches.                               *)
Ask(t, kind) ==
    /\ \A r \in session.asked : r.tab # t \/ r.kind # kind
    /\ session' = [session EXCEPT !.asked = @ \cup {[tab |-> t, kind |-> kind, token |-> session.token]}]

(* beforeEach: no token, no page; and no login page for who has one.        *)
Navigate(t) ==
    /\ session.page[t] # IF Authed THEN "app" ELSE "login"
    /\ session' = [session EXCEPT !.page[t] = IF Authed THEN "app" ELSE "login"]

Submit(t) == session.page[t] = "login" /\ Ask(t, "login")

(* refreshRelayState asks only with a token.  The answer is no success, for *)
(* it carries no code, and no 401 either if the token is good.              *)
Poll(t) == session.page[t] = "app" /\ Authed /\ Ask(t, "poll")

ChangePassword(t) == session.page[t] = "app" /\ Ask(t, "password")

\* Fault: every answer that is no success is taken for a 401.
NoSuccess(r, right) ==
    ~right \/ r.kind = "poll" \/ (r.kind = "password" /\ r.token \notin session.valid)
Refused(r, right) ==
    CASE r.kind = "login" -> ~right
      [] r.kind = "password" -> ~right \/ r.token \notin session.valid
      [] r.kind = "poll" -> r.token \notin session.valid

(* A 401 removes the token, whichever is stored by then, and the tab goes   *)
(* to the login page, which ends its other requests; a login that succeeds  *)
(* stores the new token, and the guard lets the tab in.                     *)
Answered(r, right) ==
    /\ r.kind = "login" /\ right => session.issued < MaxTokens
    /\ session' =
         LET s == [session EXCEPT !.asked = @ \ {r}] IN
         IF Refused(r, right)
         THEN [s EXCEPT !.token = 0, !.page[r.tab] = "login",
                        !.asked = {q \in @ : q.tab # r.tab \/ session.page[r.tab] = "login"}]
         ELSE IF r.kind = "login"
         THEN [s EXCEPT !.issued = @ + 1, !.valid = @ \cup {s.issued + 1}, !.token = s.issued + 1]
         ELSE s

Expire == \E k \in session.valid : session' = [session EXCEPT !.valid = @ \ {k}]

SessionNext ==
    \/ \E t \in Tabs : Navigate(t) \/ Submit(t) \/ Poll(t) \/ ChangePassword(t)
    \/ \E r \in session.asked, right \in BOOLEAN : Answered(r, right)
    \/ Expire

(* A token the server accepts is removed only by a wrong password, at login *)
(* or at the change of the password, or by the late answer to a request     *)
(* that carried another token, or none.                                     *)
TokenIsKept ==
    [][session.token \in session.valid /\ session'.token = 0 =>
         \E r \in session.asked \ session'.asked :
            r.kind \in {"login", "password"} \/ r.token # session.token]_session

(* A page is on the screen with a token that the server refuses.            *)
SessionIsDead == Authed /\ session.token \notin session.valid /\ \E t \in Tabs : session.page[t] = "app"
=============================================================================
