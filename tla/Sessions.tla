------------------------------ MODULE Sessions ------------------------------
(***************************************************************************)
(* The administrator of the CCTV map (internal/cctv): its row of the table *)
(* users, the sessions of those who have logged in, and the handlers that  *)
(* log in, log out, ask who they are and change name or password.          *)
(*                                                                         *)
(* Handlers run concurrently: a statement of the database and a section    *)
(* under sessionsMu are one step each.  The program creates one user, with *)
(* what the configuration names, when it finds none.                       *)
(***************************************************************************)
CONSTANTS
  Names, Passwords, (* what may be stored                                  *)
  AdminUsername,    (* the first user, by the configuration                *)
  AdminPassword,
  Tokens,           (* the random tokens: as many logins as there are      *)
  Tabs,             (* handlers that run at the same time                  *)
  None              (* no session; nothing given                           *)

VARIABLES
  row,       (* the user: name and password                                *)
  name,      (* sessions: the name in the session of each token, or None   *)
  used,      (* the tokens given out                                       *)
  expired,   (* those whose 24 hours are over                              *)
  at,        (* where each handler is                                      *)
  body,      (* what it was given                                          *)
  cookie     (* the token it came with                                     *)

user == <<row, name, used, expired, at, body, cookie>>

Body == [username : Names \cup {None}, password : Passwords \cup {None}]
Nothing == [username |-> None, password |-> None]

(* ensureAdminUser *)
Init ==
  /\ row = [username |-> AdminUsername, password |-> AdminPassword]
  /\ name = [t \in Tokens |-> None] /\ used = {} /\ expired = {}
  /\ at = [h \in Tabs |-> "idle"] /\ body = [h \in Tabs |-> Nothing]
  /\ cookie = [h \in Tabs |-> None]

Goto(h, from, to) ==
  /\ at[h] = from /\ at' = [at EXCEPT ![h] = to]

Ends(h) ==
  /\ at' = [at EXCEPT ![h] = "idle"]
  /\ body' = [body EXCEPT ![h] = Nothing] /\ cookie' = [cookie EXCEPT ![h] = None]
-----------------------------------------------------------------------------
(* handleLogin: another name or password is answered with 401. *)
Authenticate(h) ==
  /\ Goto(h, "idle", "login")
  /\ body' = [body EXCEPT ![h] = row]
  /\ UNCHANGED <<row, name, used, expired, cookie>>

CreateSession(h) ==
  /\ at[h] = "login" /\ Ends(h)
  /\ \E t \in Tokens \ used :
       /\ name' = [name EXCEPT ![t] = body[h].username]
       /\ used' = used \cup {t}
  /\ UNCHANGED <<row, expired>>

(* handleLogout *)
DeleteSession(t) ==
  /\ t \in used /\ name' = [name EXCEPT ![t] = None]
  /\ UNCHANGED <<row, used, expired, at, body, cookie>>

(* getSession, of any handler *)
GetSession(t) == name[t] # None /\ t \notin expired

Forget(t) ==
  /\ name[t] # None /\ t \in expired
  /\ name' = [name EXCEPT ![t] = None]
  /\ UNCHANGED <<row, used, expired, at, body, cookie>>
-----------------------------------------------------------------------------
(* handleUser *)
Put(h, t) ==
  /\ GetSession(t) /\ Goto(h, "idle", "username")
  /\ \E b \in Body \ {Nothing} : body' = [body EXCEPT ![h] = b]
  /\ cookie' = [cookie EXCEPT ![h] = t]
  /\ UNCHANGED <<row, name, used, expired>>

(* updateUser: the name is stored, or read. *)
UpdateName(h) ==
  /\ Goto(h, "username", "password")
  /\ IF body[h].username = None
     THEN body' = [body EXCEPT ![h].username = row.username] /\ UNCHANGED row
     ELSE row' = [row EXCEPT !.username = body[h].username] /\ UNCHANGED body
  /\ UNCHANGED <<name, used, expired, cookie>>

UpdatePassword(h) ==
  /\ Goto(h, "password", "rename")
  /\ row' = [row EXCEPT !.password = IF body[h].password = None THEN @ ELSE body[h].password]
  /\ UNCHANGED <<name, used, expired, body, cookie>>

(* A statement fails, or the password cannot be hashed. *)
UpdateFails(h) ==
  /\ at[h] \in {"username", "password"} /\ Ends(h)
  /\ at[h] = "password" => body[h].password # None
  /\ UNCHANGED <<row, name, used, expired>>

(* Mutant of Rename: the session that was found at the beginning is stored *)
(* with its new name.                                                      *)
RenameFound(h) ==
  /\ at[h] = "rename" /\ Ends(h)
  /\ name' = [name EXCEPT ![cookie[h]] = body[h].username]
  /\ UNCHANGED <<row, used, expired>>

Rename(h) ==
  /\ at[h] = "rename" /\ Ends(h)
  /\ name' = [name EXCEPT ![cookie[h]] = IF @ = None THEN None ELSE body[h].username]
  /\ UNCHANGED <<row, used, expired>>
-----------------------------------------------------------------------------
Expire(t) ==
  /\ t \in used \ expired /\ expired' = expired \cup {t}
  /\ UNCHANGED <<row, name, used, at, body, cookie>>

(* The sessions are in memory only; the handlers go with the process. *)
Restart ==
  /\ name' = [t \in Tokens |-> None]
  /\ at' = [h \in Tabs |-> "idle"] /\ body' = [h \in Tabs |-> Nothing]
  /\ cookie' = [h \in Tabs |-> None]
  /\ UNCHANGED <<row, used, expired>>

Next ==
  \/ \E h \in Tabs :
       \/ Authenticate(h) \/ CreateSession(h) \/ (\E t \in Tokens : Put(h, t))
       \/ UpdateName(h) \/ UpdatePassword(h) \/ UpdateFails(h) \/ Rename(h)
  \/ \E t \in Tokens : DeleteSession(t) \/ Forget(t) \/ Expire(t)
  \/ Restart
-----------------------------------------------------------------------------
(* A session that was logged out, that has expired or was lost in a        *)
(* restart is over: no handler that found it earlier brings it back.       *)
LoggedOut ==
  [][\A t \in used : name[t] = None => name'[t] = None]_user
=============================================================================
