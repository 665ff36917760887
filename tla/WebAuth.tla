-------------------------------- MODULE WebAuth --------------------------------
(***************************************************************************)
(* The admin account of the web pages: web_auth.c and its callers in       *)
(* web_ui.cpp.  One httpd task serves requests one at a time, each through *)
(* auth_wrap; the console task may erase the account at any moment, and    *)
(* leaves what is in RAM to the next request.  NVS keeps each key as it is *)
(* written, so a power cut or a failed write falls between two of them.    *)
(*                                                                         *)
(* Abstractions.  Names and hashes are numbers, of the change that brought *)
(* them, so that a name tells whether it belongs to a hash; a password     *)
(* typed in is right or wrong.  Tokens are numbers too, and a cookie       *)
(* carries one or none.  A form refused for its fields, its origin or its  *)
(* CSRF token changes nothing.                                             *)
(***************************************************************************)
EXTENDS Naturals, FiniteSets

CONSTANTS MaxSessions,   \* MAX_SESSIONS
          IdleLimit,     \* SESSION_IDLE_US, in ticks
          AgeLimit,      \* SESSION_ABS_US
          LockThreshold, LockTicks,
          MaxLogins,     \* bound on the sessions opened
          MaxChanges,    \* bound on the changes of the account
          MaxResets,     \* bound on the resets from the console
          MaxAuthFaults  \* bound on the power cuts and failed writes

ASSUME AuthAssumption ==
    /\ {MaxSessions, LockThreshold} \subseteq Nat \ {0}
    /\ {IdleLimit, AgeLimit, LockTicks, MaxLogins, MaxChanges, MaxResets, MaxAuthFaults} \subseteq Nat

VARIABLES account,   \* s_user and s_have_rec
          nvs,       \* the three keys: user, hash, and the plain password of v1.1
          session,   \* s_sess: slot -> the session in it
          lock,      \* s_failures and what is left of s_locked_until_us
          pending,   \* s_reset_pending
          request,   \* what the httpd task is doing
          console,   \* what the console task does next
          logins, changes, resets, authFaults,
          claimed,   \* history: the account last acknowledged, if no reset was begun since,
          attempts,    \*          those whose save failed or was cut after that,
          restarted  \*          and whether the power went

authVars == <<account, nvs, session, lock, pending, request, console,
              logins, changes, resets, authFaults, claimed, attempts, restarted>>
Remembered == <<claimed, attempts, restarted>>

SessionSlot == 1 .. MaxSessions
NoCookie == 0
Free == [token |-> NoCookie, idle |-> 0, age |-> 0, under |-> 0]
NoAccount == [user |-> 0, rec |-> 0]
OldName == 1
Idle == [step |-> "none", cookie |-> NoCookie, began |-> 0, origin |-> "none", before |-> NoAccount]
NoLock == [failures |-> 0, left |-> 0]
Step == {"none", "off", "setup", "login", "page", "user", "hash", "legacy", "done", "failed"}

Origin == {"none", "setup", "page", "boot", "scrub"}
Account == [user : Nat, rec : Nat]

AuthTypeOK ==
    /\ account \in Account
    /\ nvs \in [user : Nat, hash : Nat, legacy : {"none", "short", "long"}]
    /\ session \in [SessionSlot -> [token : 0 .. MaxLogins, idle : 0 .. IdleLimit + 1,
                                    age : 0 .. AgeLimit + 1, under : Nat]]
    /\ lock \in [failures : 0 .. LockThreshold - 1, left : 0 .. LockTicks]
    /\ pending \in BOOLEAN
    /\ claimed \in Account /\ attempts \subseteq Account /\ restarted \in BOOLEAN
    /\ request \in [step : Step, cookie : 0 .. MaxLogins, began : Nat, origin : Origin,
                    before : Account]
    /\ console \in {"idle", "user", "hash", "legacy", "flag"}
    /\ logins \in 0 .. MaxLogins /\ {changes, resets, authFaults} \subseteq Nat

NoSessions == [s \in SessionSlot |-> Free]

\* Powered off, with what a v1.1 device or a new one has stored.
AuthInit == /\ account = NoAccount
            /\ nvs \in [user : {0, OldName}, hash : {0}, legacy : {"none", "short", "long"}]
            /\ session = NoSessions /\ lock = NoLock /\ pending = FALSE
            /\ request = [Idle EXCEPT !.step = "off"]
            /\ console = "idle"
            /\ logins = 0 /\ changes = 0 /\ resets = 0 /\ authFaults = 0
            /\ claimed = NoAccount /\ attempts = {} /\ restarted = FALSE

SetupNeeded == account.user = 0 \/ account.rec = 0

\* What nobody has used before: every change, saved or broken off, counts.
New == changes + authFaults + 2

Bounds == <<logins, changes, resets, authFaults>>

-----------------------------------------------------------------------------
(***************************************************************************)
(* Sessions.                                                               *)
(***************************************************************************)
Expired(s) == session[s].idle > IdleLimit \/ session[s].age > AgeLimit

\* find_session clears what has expired on its way.
Purged == [s \in SessionSlot |-> IF Expired(s) THEN Free ELSE session[s]]

Found(cookie) == {s \in SessionSlot : cookie # NoCookie /\ session[s].token = cookie /\ ~Expired(s)}

Unused == {s \in SessionSlot : session[s].token = NoCookie}

\* A free slot, or the one least recently used.
NewSlot == IF Unused # {} THEN CHOOSE s \in Unused : \A o \in Unused : s <= o
         ELSE CHOOSE s \in SessionSlot : \A o \in SessionSlot :
                 \/ session[s].idle > session[o].idle
                 \/ session[s].idle = session[o].idle /\ s <= o

\* web_auth_session_create.
Opened == [session EXCEPT ![NewSlot] = [token |-> logins + 1, idle |-> 0, age |-> 0,
                                        under |-> request.began]]

\* Mutant: a change of the account logs nobody out.
StillLoggedIn == session

\* web_auth_session_destroy_all.
LoggedOut == NoSessions

AuthTick == /\ request.step # "off"
            /\ session' = [s \in SessionSlot |->
                  IF s \in Unused THEN Free
                  ELSE [session[s] EXCEPT !.idle = IF @ > IdleLimit THEN @ ELSE @ + 1,
                                          !.age = IF @ > AgeLimit THEN @ ELSE @ + 1]]
            /\ lock' = [lock EXCEPT !.left = IF @ = 0 THEN 0 ELSE @ - 1]
            /\ UNCHANGED <<account, nvs, pending, request, console, Bounds, Remembered>>

-----------------------------------------------------------------------------
(***************************************************************************)
(* The start of a request: auth_wrap.                                      *)
(***************************************************************************)
\* web_auth_poll_reset, which every request begins with.
Polled(acc, sess, lck) ==
    /\ pending' = FALSE
    /\ IF pending THEN /\ account' = NoAccount /\ session' = LoggedOut /\ lock' = NoLock
       ELSE /\ account' = acc /\ session' = sess /\ lock' = lck

Begins(step, cookie) == /\ request.step = "none"
                        /\ request' = [Idle EXCEPT !.step = step, !.cookie = cookie, !.began = changes + resets]
                        /\ UNCHANGED <<nvs, console, Bounds, Remembered>>

\* The setup pages, until there is an account; other pages lead there.
BeginSetup == /\ pending \/ SetupNeeded
              /\ Begins("setup", NoCookie)
              /\ Polled(account, session, lock)

BeginLogin == /\ ~pending /\ ~SetupNeeded
              /\ Begins("login", NoCookie)
              /\ Polled(account, session, lock)

\* Any other page: the session is looked up, and touched.
BeginPage(cookie) ==
    /\ ~pending /\ ~SetupNeeded /\ Found(cookie) # {}
    /\ Begins("page", cookie)
    /\ Polled(account, [s \in SessionSlot |-> IF s \in Found(cookie) THEN [session[s] EXCEPT !.idle = 0]
                                              ELSE Purged[s]], lock)

\* A page that needs a session, asked for without one: redirected.
Refuse(cookie) == /\ ~pending /\ ~SetupNeeded /\ request.step = "none" /\ Found(cookie) = {}
                  /\ session' = Purged
                  /\ UNCHANGED <<account, nvs, lock, pending, request, console, Bounds, Remembered>>

EndRequest == /\ request.step \in {"setup", "login", "page"}
              /\ request' = Idle
              /\ UNCHANGED <<account, nvs, session, lock, pending, console, Bounds, Remembered>>

-----------------------------------------------------------------------------
(***************************************************************************)
(* The handlers.                                                           *)
(***************************************************************************)
\* web_auth_check_password: while locked even the right one is refused.
Accepts(right) == lock.left = 0 /\ account.rec # 0 /\ right

AfterCheck(right) ==
    IF lock.left > 0 \/ account.rec = 0 THEN lock
    ELSE IF right THEN [lock EXCEPT !.failures = 0]
    ELSE IF lock.failures + 1 >= LockThreshold THEN [failures |-> 0, left |-> LockTicks]
    ELSE [lock EXCEPT !.failures = @ + 1]

\* handle_login_post.
LogIn(right) == /\ request.step = "login"
                /\ Accepts(right) => logins < MaxLogins
                /\ lock' = AfterCheck(right)
                /\ session' = IF Accepts(right) THEN Opened ELSE session
                /\ logins' = IF Accepts(right) THEN logins + 1 ELSE logins
                /\ request' = Idle
                /\ UNCHANGED <<account, nvs, pending, console, changes, resets, authFaults, Remembered>>

\* handle_logout.
LogOut == /\ request.step = "page" /\ Found(request.cookie) # {}
          /\ session' = [s \in SessionSlot |-> IF s \in Found(request.cookie) THEN Free ELSE Purged[s]]
          /\ request' = Idle
          /\ UNCHANGED <<account, nvs, lock, pending, console, Bounds, Remembered>>

\* web_auth_set_credentials, up to the save: from the setup page, or from /auth/set
\* with the right password, and with a session that is still there for csrf_ok.  The
\* hash is new, of a new salt; the name is new, the old one, or the one NVS has.
SetCredentials ==
    /\ changes < MaxChanges
    /\ \/ /\ request.step = "setup"
          /\ UNCHANGED <<lock, session>>
       \/ /\ request.step = "page" /\ Found(request.cookie) # {} /\ Accepts(TRUE)
          /\ lock' = AfterCheck(TRUE) /\ session' = Purged
    /\ \E name \in {account.user, nvs.user, New} \ {0} : account' = [user |-> name, rec |-> New]
    /\ request' = [request EXCEPT !.step = "user", !.origin = request.step, !.before = account]
    /\ UNCHANGED <<nvs, pending, console, Bounds, Remembered>>

WrongPassword == /\ request.step = "page" /\ Found(request.cookie) # {}
                 /\ lock' = AfterCheck(FALSE)
                 /\ session' = Purged
                 /\ request' = Idle
                 /\ UNCHANGED <<account, nvs, pending, console, Bounds, Remembered>>

\* A save is under way, or has ended and is not yet acknowledged or taken back.
Storing == {"user", "hash", "legacy", "done", "failed"}

Saves(from, to) == /\ request.step = from
                   /\ request' = [request EXCEPT !.step = to]
                   /\ UNCHANGED <<account, session, lock, pending, console, Bounds, Remembered>>

\* save_nvs: the name, the hash, and the plain password goes; with no name all go.
SaveUser == Saves("user", "hash") /\ nvs' = [nvs EXCEPT !.user = account.user]
SaveHash == Saves("hash", "legacy")
            /\ nvs' = [nvs EXCEPT !.hash = IF account.user = 0 THEN 0 ELSE account.rec]
EraseLegacy == Saves("legacy", "done") /\ nvs' = [nvs EXCEPT !.legacy = "none"]

\* nvs_open fails, before everything, or nvs_commit, after everything; or one of the
\* two writes does: the later is left out, and the plain password goes all the same.
SaveFails == /\ authFaults < MaxAuthFaults
             /\ authFaults' = authFaults + 1
             /\ \/ request.step \in {"user", "done"} /\ UNCHANGED nvs
                \/ /\ request.step \in {"user", "hash"} /\ account.user # 0
                   /\ nvs' = [nvs EXCEPT !.legacy = "none"]
             /\ request' = [request EXCEPT !.step = "failed"]
             /\ UNCHANGED <<account, session, lock, pending, console, logins, changes, resets, Remembered>>

\* Mutant: a failed write looks like success.
EveryEnd == {"done", "failed"}

GoodEnd == {"done"}

\* The account is saved and everybody logged out; the setup page opens a session.
EndSave == /\ request.step \in GoodEnd /\ request.origin # "scrub"
           /\ request.origin = "setup" => logins < MaxLogins
           /\ claimed' = IF console = "idle" /\ ~pending THEN account ELSE NoAccount
           /\ attempts' = {} /\ restarted' = FALSE
           /\ changes' = changes + 1
           /\ lock' = NoLock
           /\ IF request.origin = "setup"
              THEN /\ logins' = logins + 1
                   /\ session' = [LoggedOut EXCEPT ![1] = [Free EXCEPT !.token = logins + 1,
                                                                       !.under = request.began + 1]]
              ELSE logins' = logins /\ session' = LoggedOut
           /\ request' = Idle
           /\ UNCHANGED <<account, nvs, pending, console, resets, authFaults>>

\* It is not: what was there before comes back; at the boot the setup wizard does.
RollBack == /\ request.step \in {"done", "failed"} \ GoodEnd /\ request.origin # "scrub"
            /\ IF request.origin = "boot"
               THEN /\ account' = [request.before EXCEPT !.user = 0]
                    /\ request' = [Idle EXCEPT !.step = "user", !.origin = "scrub"]
               ELSE account' = request.before /\ request' = Idle
            /\ attempts' = attempts \cup {account}
            /\ UNCHANGED <<nvs, session, lock, pending, console, Bounds, claimed, restarted>>

EndScrub == /\ request.step \in {"done", "failed"} /\ request.origin = "scrub"
            /\ request' = Idle
            /\ UNCHANGED <<account, nvs, session, lock, pending, console, Bounds, Remembered>>

-----------------------------------------------------------------------------
(***************************************************************************)
(* The console task, and the power.                                        *)
(***************************************************************************)
Console(from, to) == /\ request.step # "off" /\ console = from
                     /\ console' = to
                     /\ UNCHANGED <<account, session, lock, request, logins, changes, authFaults>>

\* web_auth_reset: three keys, and then the flag.
AskAdminReset == /\ resets < MaxResets
                 /\ Console("idle", "user")
                 /\ claimed' = NoAccount /\ attempts' = {} /\ restarted' = FALSE
                 /\ UNCHANGED <<nvs, pending, resets>>

ResetUser == Console("user", "hash") /\ nvs' = [nvs EXCEPT !.user = 0]
             /\ UNCHANGED <<pending, resets, Remembered>>

ResetHash == Console("hash", "legacy") /\ nvs' = [nvs EXCEPT !.hash = 0]
             /\ UNCHANGED <<pending, resets, Remembered>>

ResetLegacy == Console("legacy", "flag") /\ nvs' = [nvs EXCEPT !.legacy = "none"]
               /\ UNCHANGED <<pending, resets, Remembered>>

FlagReset == Console("flag", "idle") /\ pending' = TRUE /\ resets' = resets + 1
             /\ UNCHANGED <<nvs, Remembered>>

LosePower == /\ request.step # "off" /\ authFaults < MaxAuthFaults
             /\ authFaults' = authFaults + 1
             /\ account' = NoAccount /\ session' = NoSessions /\ lock' = NoLock /\ pending' = FALSE
             /\ request' = [Idle EXCEPT !.step = "off"]
             /\ console' = "idle"
             /\ attempts' = IF request.step \in Storing THEN attempts \cup {account} ELSE attempts
             /\ restarted' = TRUE
             /\ UNCHANGED <<nvs, logins, changes, resets, claimed>>

\* web_auth_init.
AuthBoot ==
    LET stored == [user |-> nvs.user, rec |-> nvs.hash]
    IN  /\ request.step = "off"
        /\ IF stored.user # 0 /\ stored.rec = 0 /\ nvs.legacy = "long"
           THEN /\ account' = [stored EXCEPT !.rec = New]
                /\ request' = [Idle EXCEPT !.step = "user", !.origin = "boot", !.before = stored]
           ELSE IF stored.user # 0 /\ stored.rec = 0
           THEN /\ account' = NoAccount
                /\ request' = [Idle EXCEPT !.step = "user", !.origin = "scrub"]
           ELSE /\ account' = stored
                /\ request' = IF nvs.legacy = "none" THEN Idle
                              ELSE [Idle EXCEPT !.step = "user", !.origin = "scrub"]
        /\ UNCHANGED <<nvs, session, lock, pending, console, Bounds, Remembered>>

AuthNext == \/ AuthTick \/ BeginSetup \/ BeginLogin
            \/ \E cookie \in 0 .. logins : BeginPage(cookie) \/ Refuse(cookie)
            \/ EndRequest \/ LogOut \/ SetCredentials \/ WrongPassword
            \/ \E right \in BOOLEAN : LogIn(right)
            \/ SaveUser \/ SaveHash \/ EraseLegacy \/ SaveFails
            \/ EndSave \/ RollBack \/ EndScrub
            \/ AskAdminReset \/ ResetUser \/ ResetHash \/ ResetLegacy \/ FlagReset
            \/ LosePower \/ AuthBoot

AuthSpec == AuthInit /\ [][AuthNext]_authVars

-----------------------------------------------------------------------------
(***************************************************************************)
(* Properties.                                                             *)
(***************************************************************************)
\* A page is served only to a session opened since the last change of the account,
\* and since the last reset that was done when the request came.
SessionsFollowTheAccount ==
    request.step = "page" => \A s \in Found(request.cookie) : session[s].under = request.began

\* The names and hashes that may be found after the last acknowledgement: those of the
\* acknowledged account, and of the changes since that were broken off or are under way.
Tried == {claimed} \cup attempts \cup (IF request.step \in Storing THEN {account} ELSE {})
Among(user, rec) == (\E a \in Tried : a.user = user) /\ (\E a \in Tried : a.rec = rec)

\* An acknowledged account is kept until a reset is asked for.  RAM holds exactly it until
\* the power goes, whatever changes fail.  NVS, and RAM after a restart, hold exactly it
\* if no later change broke off; after one, a name and a hash that are each the
\* acknowledged one or such a change's, and nothing else: never no account, so that the
\* setup wizard does not come back.
AcknowledgedAccountIsKept ==
    claimed # NoAccount =>
        /\ Among(nvs.user, nvs.hash) /\ nvs.user # 0 /\ nvs.hash # 0
        /\ request.step # "off" => Among(account.user, account.rec) /\ ~SetupNeeded
        /\ ~restarted /\ request.step \notin Storing => account = claimed
================================================================================
