------------------------------- MODULE RingApi -------------------------------
(***************************************************************************)
(* The REST client of Ring (pkg/ring/api.go): one RingApi is cached for    *)
(* an account, and every stream, snapshot and API request of the account   *)
(* calls its Request.  A token is got under authMutex, a session under     *)
(* sessionMutex and a token with it; an answer 401 or 404 drops them, each *)
(* under its own mutex, and tries again.                                   *)
(*                                                                         *)
(* Every HTTP call ends in defaultTimeout with any answer.  The token is   *)
(* read for a header without authMutex: a nil token is a panic.            *)
(***************************************************************************)
EXTENDS Naturals

CONSTANTS Callers, MaxRetries, Nobody

VARIABLES
  token, tokenFresh,       (* authToken # nil; tokenExpiry is to come       *)
  session, sessionFresh,
  authMutex, sessionMutex, (* who holds them                                *)
  at,                      (* where each caller is in its Request           *)
  attempt,
  refused,                 (* why it calls ensureSession again              *)
  unchanged,               (* of what its last refused try was sent with,   *)
                           (* what would be sent again                      *)
  panic

apiState == <<token, tokenFresh, session, sessionFresh, unchanged>>
apiMutexes == <<authMutex, sessionMutex>>
apiVars == <<apiState, apiMutexes, at, attempt, refused, panic>>

Init ==
  /\ token = FALSE /\ tokenFresh = FALSE
  /\ session = FALSE /\ sessionFresh = FALSE
  /\ authMutex = Nobody /\ sessionMutex = Nobody
  /\ at = [c \in Callers |-> "idle"]
  /\ attempt = [c \in Callers |-> 0]
  /\ refused = [c \in Callers |-> "no"]
  /\ unchanged = [c \in Callers |-> {}]
  /\ panic = FALSE

At(c, here) == at[c] = here /\ ~ panic
Goto(c, there) == at' = [at EXCEPT ![c] = there]

(* Return, with or without an error. *)
Returns(c) ==
  /\ Goto(c, "idle")
  /\ attempt' = [attempt EXCEPT ![c] = 0]
  /\ refused' = [refused EXCEPT ![c] = "no"]

Request(c) ==
  /\ At(c, "idle")
  /\ Goto(c, "ensure")
  /\ unchanged' = [unchanged EXCEPT ![c] = {}]
  /\ UNCHANGED <<token, tokenFresh, session, sessionFresh, apiMutexes, attempt, refused, panic>>

Renewed(what) == unchanged' = [c \in Callers |-> unchanged[c] \ {what}]

Crash == panic' = TRUE /\ UNCHANGED <<apiState, apiMutexes, at, attempt, refused>>
-----------------------------------------------------------------------------
(* ensureSession, ensureAuth *)

(* After a 404 the request is sent as it was, otherwise its header is made.*)
EnsureSession(c) ==
  /\ At(c, "ensure") /\ sessionMutex = Nobody
  /\ \/ /\ session /\ sessionFresh
        /\ Goto(c, IF refused[c] = "404" THEN "send" ELSE "header")
        /\ UNCHANGED sessionMutex
     \/ /\ ~ (session /\ sessionFresh)
        /\ Goto(c, "auth")
        /\ sessionMutex' = c
  /\ UNCHANGED <<apiState, authMutex, attempt, refused, panic>>

EnsureAuth(c) ==
  /\ At(c, "auth") /\ authMutex = Nobody
  /\ \/ token /\ tokenFresh /\ Goto(c, "post") /\ UNCHANGED authMutex
     \/ ~ (token /\ tokenFresh) /\ Goto(c, "refresh") /\ authMutex' = c
  /\ UNCHANGED <<apiState, sessionMutex, attempt, refused, panic>>

Refresh(c) ==
  /\ At(c, "refresh")
  /\ authMutex' = Nobody
  /\ \/ /\ token' = TRUE /\ tokenFresh' = TRUE /\ Renewed("token")
        /\ Goto(c, "post")
        /\ UNCHANGED <<sessionMutex, attempt, refused>>
     \/ /\ Returns(c)
        /\ sessionMutex' = Nobody
        /\ UNCHANGED <<token, tokenFresh, unchanged>>
  /\ UNCHANGED <<session, sessionFresh, panic>>

PostSession(c) ==
  /\ At(c, "post")
  /\ \/ ~ token /\ Crash
     \/ /\ token /\ sessionMutex' = Nobody
        /\ \/ /\ session' = TRUE /\ sessionFresh' = TRUE /\ Renewed("session")
              /\ Goto(c, IF refused[c] = "404" THEN "send" ELSE "header")
              /\ UNCHANGED <<attempt, refused>>
           \/ /\ Returns(c)
              /\ UNCHANGED <<session, sessionFresh, unchanged>>
        /\ UNCHANGED <<token, tokenFresh, authMutex, panic>>
-----------------------------------------------------------------------------
(* Request *)

Header(c) ==
  /\ At(c, "header")
  /\ \/ ~ token /\ Crash
     \/ /\ token /\ Goto(c, "send")
        /\ UNCHANGED <<apiState, apiMutexes, attempt, refused, panic>>

(* The answer is taken, or is none and the caller tries again. *)
Answered(c) ==
  /\ At(c, "send")
  /\ \/ Returns(c)
     \/ /\ attempt[c] < MaxRetries
        /\ attempt' = [attempt EXCEPT ![c] = @ + 1]
        /\ UNCHANGED <<at, refused>>
  /\ UNCHANGED <<apiState, apiMutexes, panic>>

(* 401 *)
Unauthorized(c) ==
  /\ At(c, "send")
  /\ Goto(c, "unauthorized")
  /\ refused' = [refused EXCEPT ![c] = "401"]
  /\ unchanged' = [unchanged EXCEPT ![c] = {"token", "session"}]
  /\ UNCHANGED <<token, tokenFresh, session, sessionFresh, apiMutexes, attempt, panic>>

ResetToken(c) ==
  /\ At(c, "unauthorized") /\ authMutex = Nobody
  /\ token' = FALSE /\ tokenFresh' = FALSE
  /\ \/ attempt[c] = MaxRetries /\ Returns(c)
     \/ attempt[c] < MaxRetries /\ Goto(c, "reset") /\ UNCHANGED <<attempt, refused>>
  /\ UNCHANGED <<session, sessionFresh, unchanged, apiMutexes, panic>>

(* Mutant of NotFound: the session is not dropped. *)
NotFoundOnly(c) ==
  /\ At(c, "send") /\ attempt[c] < MaxRetries
  /\ Goto(c, "ensure")
  /\ attempt' = [attempt EXCEPT ![c] = @ + 1]
  /\ refused' = [refused EXCEPT ![c] = "404"]
  /\ unchanged' = [unchanged EXCEPT ![c] = {"session"}]
  /\ UNCHANGED <<token, tokenFresh, session, sessionFresh, apiMutexes, panic>>

(* 404 with the hardware_id: the session is not known. *)
NotFound(c) ==
  /\ At(c, "send")
  /\ Goto(c, "reset")
  /\ refused' = [refused EXCEPT ![c] = "404"]
  /\ unchanged' = [unchanged EXCEPT ![c] = {"session"}]
  /\ UNCHANGED <<token, tokenFresh, session, sessionFresh, apiMutexes, attempt, panic>>

(* Mutant of ResetSession: the mutex is kept for ensureSession. *)
ResetSessionLocked(c) ==
  /\ At(c, "reset") /\ sessionMutex = Nobody
  /\ session' = FALSE /\ sessionFresh' = FALSE
  /\ sessionMutex' = c
  /\ Goto(c, "ensure")
  /\ UNCHANGED <<token, tokenFresh, unchanged, authMutex, attempt, refused, panic>>

ResetSession(c) ==
  /\ At(c, "reset") /\ sessionMutex = Nobody
  /\ session' = FALSE /\ sessionFresh' = FALSE
  /\ \/ attempt[c] = MaxRetries /\ Returns(c)
     \/ /\ attempt[c] < MaxRetries /\ Goto(c, "ensure")
        /\ attempt' = [attempt EXCEPT ![c] = @ + 1]
        /\ UNCHANGED refused
  /\ UNCHANGED <<token, tokenFresh, unchanged, apiMutexes, panic>>

(* Time goes by. *)
Expire ==
  /\ ~ panic
  /\ \/ tokenFresh /\ tokenFresh' = FALSE /\ UNCHANGED sessionFresh
     \/ sessionFresh /\ sessionFresh' = FALSE /\ UNCHANGED tokenFresh
  /\ UNCHANGED <<token, session, unchanged, apiMutexes, at, attempt, refused, panic>>

Next ==
  \/ Expire
  \/ \E c \in Callers :
       \/ Request(c) \/ Header(c) \/ Answered(c) \/ Unauthorized(c) \/ NotFound(c)
       \/ EnsureSession(c) \/ EnsureAuth(c) \/ Refresh(c) \/ PostSession(c)
       \/ ResetToken(c) \/ ResetSession(c)

(* The calls that end: HTTP in its timeout, and locks that others release. *)
HttpEnds(c) == Refresh(c) \/ PostSession(c) \/ Header(c) \/ Answered(c)
Locks(c) == EnsureSession(c) \/ EnsureAuth(c) \/ ResetToken(c) \/ ResetSession(c)
-----------------------------------------------------------------------------
(* A try that follows a refused one goes out with a session, and after a   *)
(* 401 a token, that were made since: whatever other callers dropped or    *)
(* made in between.                                                        *)
RetryRenewed == \A c \in Callers : at[c] = "send" => unchanged[c] = {}

(* Every Request returns: the mutexes are never waited for in a circle,    *)
(* and the tries are bounded across all the reasons for another one.       *)
RequestsReturn == \A c \in Callers : []<>(at[c] = "idle" \/ panic)
=============================================================================
