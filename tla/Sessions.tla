------------------------------ MODULE Sessions ------------------------------
(* Sessions of one user: logging in, the two cookies, the refresh after a    *)
(* 401, and creating a workspace and switching to it (bff/src/auth,          *)
(* frontend/src/lib/api/client.ts, use-auth-session.ts, use-workspaces.ts).  *)
(* Cookies belong to the browser, the stores to a tab.  A cookie is set when *)
(* the answer arrives, with what the server found before.  Memberships other *)
(* people add or remove are left out, and signatures and challenges are      *)
(* right: a login with a wrong one changes nothing.                          *)
EXTENDS Integers, FiniteSets, Sequences

CONSTANTS
  Tab,
  Slot,          \* requests a tab may have under way at one time
  Passkeys,      \* whether the user has registered a passkey
  MaxWorkspaces, \* bound: workspaces there have been when one more is made
  MaxExpiries,   \* bound: ends of an access token
  MaxLost        \* bound: ends of the refresh token, lost or failed calls

ASSUME SessionAssumption ==
  /\ IsFiniteSet(Tab) /\ Passkeys \in BOOLEAN
  /\ MaxWorkspaces \in Nat /\ MaxExpiries \in Nat /\ MaxLost \in Nat

VARIABLES
  joined,    \* the memberships of the user, oldest first
  made,      \* workspaces there have been; the number of the last
  founded,   \* how many of them a login has made
  overlaps,  \* history: logins that found no membership while another made one
  access,    \* the cookie access_token: its workspace (0: no cookie), and whether it is live
  refresh,   \* the cookie refresh_token is there and valid
  tab,       \* per tab: isAuthenticated, activeWorkspace (0: null)
  login,     \* per tab: what its login does next
  call,      \* per tab and slot: what a request does next
  renew,     \* per tab: refreshPromise
  expiries, lost

sessionVars == <<joined, made, founded, overlaps, access, refresh, tab, login, call, renew, expiries, lost>>

Workspace == Nat \ {0}
Here(at)  == [at |-> at]
NoCookie  == [workspace |-> 0, live |-> FALSE]

SessionTypeOK ==
  /\ joined \in Seq(Workspace) /\ made \in {0} \cup Workspace
  /\ founded \in Nat /\ overlaps \in Nat
  /\ access \in [workspace : {0} \cup Workspace, live : BOOLEAN] /\ refresh \in BOOLEAN
  /\ tab \in [Tab -> [in : BOOLEAN, active : {0} \cup Workspace]]
  /\ login \in [Tab -> {Here("idle"), Here("asked"), Here("founding")}
                       \cup [at : {"granted"}, workspace : Workspace]]
  /\ call \in [Tab \X Slot -> {Here("idle")}
       \cup [at : {"sent"}, kind : {"data", "create"}, live : BOOLEAN, again : BOOLEAN]
       \cup [at : {"waiting"}, kind : {"data", "create"}]
       \cup [at : {"switching"}, workspace : Workspace, live : BOOLEAN]]
  /\ renew \in [Tab -> {Here("none")} \cup [at : {"sent"}, valid : BOOLEAN]
                       \cup [at : {"granted"}, workspace : Workspace]]

SessionInit ==
  /\ joined = <<>> /\ made = 0 /\ founded = 0 /\ overlaps = 0
  /\ access = NoCookie /\ refresh = FALSE
  /\ tab = [t \in Tab |-> [in |-> FALSE, active |-> 0]]
  /\ login = [t \in Tab |-> Here("idle")]
  /\ call = [c \in Tab \X Slot |-> Here("idle")]
  /\ renew = [t \in Tab |-> Here("none")]
  /\ expiries = 0 /\ lost = 0

Lose == lost < MaxLost /\ lost' = lost + 1

-----------------------------------------------------------------------------
(* The server: a membership is the oldest one, or a new workspace's.  To     *)
(* read and to create are two statements; the transaction does not lock.     *)

Oldest == joined[1]

Join == /\ made' = made + 1 /\ joined' = Append(joined, made + 1)

(* Slip: the workspace is created without its member.                        *)
JoinNobody == made' = made + 1 /\ UNCHANGED joined

AskLogin(t) ==
  /\ ~tab[t].in /\ login[t].at = "idle"
  /\ login' = [login EXCEPT ![t] = Here("asked")]
  /\ UNCHANGED <<joined, made, founded, overlaps, access, refresh, tab, call, renew, expiries, lost>>

ResolveMembership(t) ==
  /\ login[t].at = "asked"
  /\ \/ /\ joined # <<>>
        /\ login' = [login EXCEPT ![t] = [at |-> "granted", workspace |-> Oldest]]
        /\ UNCHANGED overlaps
     \/ /\ joined = <<>>
        /\ login' = [login EXCEPT ![t] = Here("founding")]
        /\ overlaps' = overlaps + (IF \E o \in Tab : login[o].at = "founding" THEN 1 ELSE 0)
  /\ UNCHANGED <<joined, made, founded, access, refresh, tab, call, renew, expiries, lost>>

(* Slip: see JoinNobody.                                                      *)
FoundWithoutMember(t) ==
  /\ login[t].at = "founding"
  /\ JoinNobody /\ founded' = founded + 1
  /\ login' = [login EXCEPT ![t] = [at |-> "granted", workspace |-> made + 1]]
  /\ UNCHANGED <<overlaps, access, refresh, tab, call, renew, expiries, lost>>

FoundWorkspace(t) ==
  /\ login[t].at = "founding"
  /\ Join /\ founded' = founded + 1
  /\ login' = [login EXCEPT ![t] = [at |-> "granted", workspace |-> made + 1]]
  /\ UNCHANGED <<overlaps, access, refresh, tab, call, renew, expiries, lost>>

SetCookies(w) == access' = [workspace |-> w, live |-> TRUE] /\ refresh' = TRUE

(* A wallet login stores the workspace of the answer, a passkey login only   *)
(* the address.                                                              *)
LoggedIn(t) ==
  /\ login[t].at = "granted"
  /\ SetCookies(login[t].workspace)
  /\ \/ tab' = [tab EXCEPT ![t].in = TRUE, ![t].active = login[t].workspace]
     \/ Passkeys /\ tab' = [tab EXCEPT ![t].in = TRUE]
  /\ login' = [login EXCEPT ![t] = Here("idle")]
  /\ UNCHANGED <<joined, made, founded, overlaps, call, renew, expiries, lost>>

LoginFails(t) ==
  /\ login[t].at # "idle" /\ Lose
  /\ login' = [login EXCEPT ![t] = Here("idle")]
  /\ UNCHANGED <<joined, made, founded, overlaps, access, refresh, tab, call, renew, expiries>>

-----------------------------------------------------------------------------
(* The client.  A request carries the cookies of the moment it is sent.      *)

Send(t, s) ==
  /\ tab[t].in /\ call[t, s].at = "idle"
  /\ \E kind \in {"data", "create"} :
       /\ kind = "create" => made < MaxWorkspaces
       /\ call' = [call EXCEPT ![<<t, s>>] =
                    [at |-> "sent", kind |-> kind, live |-> access.live, again |-> FALSE]]
  /\ UNCHANGED <<joined, made, founded, overlaps, access, refresh, tab, login, renew, expiries, lost>>

(* A workspace that has been created is switched to.  It is created in two   *)
(* writes, and without the second one nobody is its member.                  *)
Served(t, s) ==
  /\ call[t, s].at = "sent" /\ call[t, s].live
  /\ \/ /\ call[t, s].kind = "data"
        /\ call' = [call EXCEPT ![<<t, s>>] = Here("idle")] /\ UNCHANGED <<joined, made, lost>>
     \/ /\ call[t, s].kind = "create" /\ Join /\ UNCHANGED lost
        /\ call' = [call EXCEPT ![<<t, s>>] =
                     [at |-> "switching", workspace |-> made + 1, live |-> access.live]]
     \/ /\ call[t, s].kind = "create" /\ JoinNobody /\ Lose
        /\ call' = [call EXCEPT ![<<t, s>>] = Here("idle")]
  /\ UNCHANGED <<founded, overlaps, access, refresh, tab, login, renew, expiries>>

(* The first 401 of a request joins the refresh of its tab, or begins one.   *)
Refused(t, s) ==
  /\ call[t, s].at = "sent" /\ ~call[t, s].live
  /\ \/ /\ call[t, s].again
        /\ call' = [call EXCEPT ![<<t, s>>] = Here("idle")] /\ UNCHANGED renew
     \/ /\ ~call[t, s].again
        /\ call' = [call EXCEPT ![<<t, s>>] = [at |-> "waiting", kind |-> call[t, s].kind]]
        /\ renew' = IF renew[t].at # "none" THEN renew
                    ELSE [renew EXCEPT ![t] = [at |-> "sent", valid |-> refresh]]
  /\ UNCHANGED <<joined, made, founded, overlaps, access, refresh, tab, login, expiries, lost>>

(* A switch is a request under /auth/, which is not tried again.             *)
Switched(t, s) ==
  /\ call[t, s].at = "switching"
  /\ call' = [call EXCEPT ![<<t, s>>] = Here("idle")]
  /\ IF call[t, s].live
     THEN /\ SetCookies(call[t, s].workspace)
          /\ tab' = [tab EXCEPT ![t].active = call[t, s].workspace]
     ELSE UNCHANGED <<access, refresh, tab>>
  /\ UNCHANGED <<joined, made, founded, overlaps, login, renew, expiries, lost>>

(* The refresh token names the user, not the workspace.                      *)
Refresh(t) ==
  /\ renew[t].at = "sent" /\ renew[t].valid
  /\ renew' = [renew EXCEPT ![t] = [at |-> "granted", workspace |-> Oldest]]
  /\ UNCHANGED <<joined, made, founded, overlaps, access, refresh, tab, login, call, expiries, lost>>

Refreshed(t) ==
  /\ renew[t].at = "granted"
  /\ SetCookies(renew[t].workspace)
  /\ renew' = [renew EXCEPT ![t] = Here("none")]
  /\ call' = [c \in Tab \X Slot |->
       IF c[1] = t /\ call[c].at = "waiting"
       THEN [at |-> "sent", kind |-> call[c].kind, live |-> TRUE, again |-> TRUE]
       ELSE call[c]]
  /\ UNCHANGED <<joined, made, founded, overlaps, tab, login, expiries, lost>>

(* Without a refresh the tab forgets the user, not the workspace, and loads  *)
(* the login page, which ends what it had under way.                         *)
ToLogin(t) ==
  /\ tab' = [tab EXCEPT ![t].in = FALSE]
  /\ renew' = [renew EXCEPT ![t] = Here("none")]
  /\ login' = [login EXCEPT ![t] = Here("idle")]
  /\ call' = [c \in Tab \X Slot |-> IF c[1] = t THEN Here("idle") ELSE call[c]]

(* Slip: any 401 that is not followed by a refresh ends the session.         *)
RefreshFailsOrRefusedAgain(t) ==
  /\ ToLogin(t)
  /\ \/ renew[t].at = "sent" /\ ~renew[t].valid /\ UNCHANGED lost
     \/ renew[t].at # "none" /\ Lose
     \/ \E s \in Slot : call[t, s].at = "switching" /\ ~call[t, s].live /\ UNCHANGED lost
  /\ UNCHANGED <<joined, made, founded, overlaps, access, refresh, expiries>>

RefreshFails(t) ==
  /\ renew[t].at # "none" /\ ToLogin(t)
  /\ \/ renew[t].at = "sent" /\ ~renew[t].valid /\ UNCHANGED lost
     \/ Lose
  /\ UNCHANGED <<joined, made, founded, overlaps, access, refresh, expiries>>

(* The stores are cleared whether or not the server was reached.             *)
LogOut(t) ==
  /\ tab[t].in
  /\ \/ access' = NoCookie /\ refresh' = FALSE /\ UNCHANGED lost
     \/ UNCHANGED <<access, refresh>> /\ Lose
  /\ tab' = [tab EXCEPT ![t] = [in |-> FALSE, active |-> 0]]
  /\ UNCHANGED <<joined, made, founded, overlaps, login, call, renew, expiries>>

AccessEnds ==
  /\ access.live /\ expiries < MaxExpiries /\ expiries' = expiries + 1
  /\ access' = [access EXCEPT !.live = FALSE]
  /\ UNCHANGED <<joined, made, founded, overlaps, refresh, tab, login, call, renew, lost>>

RefreshEnds ==
  /\ refresh /\ ~access.live /\ Lose
  /\ refresh' = FALSE
  /\ UNCHANGED <<joined, made, founded, overlaps, access, tab, login, call, renew, expiries>>

SessionNext ==
  \/ AccessEnds \/ RefreshEnds
  \/ \E t \in Tab :
       \/ AskLogin(t) \/ ResolveMembership(t) \/ FoundWorkspace(t)
       \/ LoggedIn(t) \/ LoginFails(t) \/ LogOut(t)
       \/ Refresh(t) \/ Refreshed(t) \/ RefreshFails(t)
       \/ \E s \in Slot : Send(t, s) \/ Served(t, s) \/ Refused(t, s) \/ Switched(t, s)

SessionSpec == SessionInit /\ [][SessionNext]_sessionVars

-----------------------------------------------------------------------------
(* Properties.                                                               *)

(* A user has one workspace of his own from logging in, however often and in *)
(* however many tabs; a further one needs two first logins at one time.      *)
OneFirstWorkspace == founded <= 1 + overlaps

(* A tab is logged out by its user, or because the refresh it waited for was *)
(* refused or lost, and for no other 401.                                    *)
SessionsEndForCause ==
  [][\A t \in Tab : tab[t].in /\ ~tab'[t].in =>
       \/ tab'[t].active = 0 /\ call' = call
       \/ renew[t].at # "none" /\ (lost' # lost \/ ~refresh \/ ~renew[t].valid)]_sessionVars

(* auth.service.ts:386, of a switch: "re-issues tokens scoped to the target  *)
(* workspace".  With one tab that is logged in and has no request under way, *)
(* the workspace it shows is the one its requests will read.                 *)
ShownIsRead ==
  \A t \in Tab :
    /\ tab[t].in /\ tab[t].active # 0 /\ access.live
    /\ \A s \in Slot : call[t, s].at = "idle"
    => access.workspace = tab[t].active

\* Logging in founds one workspace, and sessions end for a cause.
SessionSafety == []OneFirstWorkspace /\ SessionsEndForCause
=============================================================================
