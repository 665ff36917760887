--------------------------- MODULE Services_proofs ---------------------------
(***************************************************************************)
(* Who may use the device, and what it answers by itself: accounts and     *)
(* sessions (WebAuth), the Ethernet hook's look-ups (FastPath), the table  *)
(* of pauses (PauseTable), and the upstream the links give (NetLink), for  *)
(* any numbers of clients, slots, interfaces and changes; and that the     *)
(* instance the runs explore (MCServices) is a behaviour of each of its    *)
(* parts, those of Storage_proofs and Tables_proofs included.              *)
(***************************************************************************)
EXTENDS MCServices, Storage_proofs, Tables_proofs

-----------------------------------------------------------------------------
(***************************************************************************)
(* The invariant.                                                          *)
(***************************************************************************)
\* Who called for the request: the web pages, and not the boot.
FromWeb == request.origin \in {"none", "setup", "page"}

OriginInv == /\ request.step \notin Storing => request.origin = "none"
             /\ request.step \in Storing => request.origin # "none"

\* The sessions there are were opened under the account as the request found it; only
\* a reset that the next request will see can have changed it since.
Used(s) == session[s].token # NoCookie

SessionInv ==
    /\ request.step = "off" \/ ~FromWeb => \A s \in SessionSlot : ~Used(s)
    /\ request.step = "none" /\ ~pending =>
           \A s \in SessionSlot : Used(s) => session[s].under = changes + resets
    /\ request.step \notin {"off", "none"} /\ FromWeb =>
           /\ \A s \in SessionSlot : Used(s) => session[s].under = request.began
           /\ ~pending => request.began = changes + resets

\* How far a save has got determines what NVS holds, while the console stays away.
Complete == {a \in Account : a.user # 0 /\ a.rec # 0}

SavedInv == request.step \in Storing /\ request.origin # "scrub" =>
    /\ account \in Complete
    /\ console = "idle" /\ ~pending =>
           /\ request.step \in {"hash", "legacy", "done"} => nvs.user = account.user
           /\ request.step \in {"legacy", "done"} => nvs.hash = account.rec
           /\ request.step = "done" => nvs.legacy = "none"

\* An acknowledged account: what NVS and RAM hold has been tried, what has been tried is
\* complete, and what a failed change would restore was there before it.
AccountInv == claimed # NoAccount =>
    /\ console = "idle" /\ ~pending /\ nvs.legacy = "none"
    /\ Tried \subseteq Complete
    /\ Among(nvs.user, nvs.hash)
    /\ request.step # "off" => Among(account.user, account.rec)
    /\ request.step = "off" => restarted
    /\ request.step # "setup"
    /\ ~restarted /\ request.step \notin Storing => account = claimed
    /\ request.step \in Storing =>
           /\ request.origin = "page"
           /\ \E a \in {claimed} \cup attempts : a.user = request.before.user
           /\ \E a \in {claimed} \cup attempts : a.rec = request.before.rec
           /\ ~restarted => request.before = claimed

AuthInv == AuthTypeOK /\ OriginInv /\ SessionInv /\ SavedInv /\ AccountInv

-----------------------------------------------------------------------------
(***************************************************************************)
(* Types.                                                                  *)
(***************************************************************************)
Session == [token : 0 .. MaxLogins, idle : 0 .. IdleLimit + 1, age : 0 .. AgeLimit + 1, under : Nat]
LockState == [failures : 0 .. LockThreshold - 1, left : 0 .. LockTicks]
RequestState == [step : Step, cookie : 0 .. MaxLogins, began : Nat, origin : Origin, before : Account]
Stored == [user : Nat, hash : Nat, legacy : {"none", "short", "long"}]

\* The types by name.
LEMMA Types == ASSUME AuthTypeOK
               PROVE  /\ account \in Account /\ nvs \in Stored /\ session \in [SessionSlot -> Session]
                      /\ lock \in LockState /\ request \in RequestState
                      /\ logins \in 0 .. MaxLogins /\ changes \in Nat /\ resets \in Nat /\ authFaults \in Nat
                      /\ claimed \in Account /\ attempts \subseteq Account /\ New \in Nat \ {0}
  BY DEF AuthTypeOK, Stored, Session, LockState, RequestState, New

\* The values that handlers assign whole are well typed.
LEMMA Constants == /\ Free \in Session /\ NoLock \in LockState /\ NoAccount \in Account /\ Idle \in RequestState
                   /\ NoSessions \in [SessionSlot -> Session] /\ \A s \in SessionSlot : NoSessions[s] = Free
                   /\ MaxLogins \in Nat /\ 0 \in 0 .. LockThreshold - 1 /\ LockTicks \in 0 .. LockTicks
                   /\ 0 \in 0 .. IdleLimit + 1 /\ Idle.step = "none" /\ Idle.origin = "none"
                   /\ Free.token = NoCookie
                   /\ LET q == [Idle EXCEPT !.step = "user", !.origin = "scrub"]
                      IN  q \in RequestState /\ q.step = "user" /\ q.origin = "scrub"
  <1>1. Free \in Session /\ NoLock \in LockState /\ NoAccount \in Account
    BY AuthAssumption DEF Free, Session, NoCookie, NoLock, LockState, NoAccount, Account
  <1>2. Idle \in RequestState
    BY <1>1, AuthAssumption DEF Idle, RequestState, Step, Origin, NoCookie
  <1>3. /\ Idle.step = "none" /\ Idle.origin = "none" /\ Free.token = NoCookie
        /\ LET q == [Idle EXCEPT !.step = "user", !.origin = "scrub"]
           IN  q \in RequestState /\ q.step = "user" /\ q.origin = "scrub"
    <2>1. Idle.step = "none" /\ Idle.origin = "none" /\ Free.token = NoCookie
      BY DEF Idle, Free
    <2>. QED BY <1>2, <2>1 DEF RequestState, Step, Origin
  <1>. QED BY <1>1, <1>2, <1>3, AuthAssumption DEF NoSessions

\* A request that begins is well typed.
LEMMA RequestTyped == ASSUME NEW st \in Step, NEW c \in 0 .. MaxLogins, NEW n \in Nat
                      PROVE  [Idle EXCEPT !.step = st, !.cookie = c, !.began = n] \in RequestState
  BY Constants DEF RequestState

\* auth_wrap's record of the request.
LEMMA BeginsTyped == ASSUME AuthTypeOK, NEW st \in Step, NEW c \in 0 .. MaxLogins, Begins(st, c)
                     PROVE  request' \in RequestState
  <1>1. changes + resets \in Nat
    BY Types
  <1>2. request' = [Idle EXCEPT !.step = st, !.cookie = c, !.began = changes + resets]
    BY DEF Begins
  <1>. QED BY <1>1, <1>2, RequestTyped

\* web_auth_check_password keeps the lock's bounds.
LEMMA AfterCheckTyped == ASSUME AuthTypeOK, NEW right \in BOOLEAN
                         PROVE  AfterCheck(right) \in LockState
  <1>. QED BY Types, AuthAssumption DEF AfterCheck, LockState

\* Purging expired sessions keeps the table's type.
LEMMA PurgedTyped == ASSUME AuthTypeOK PROVE Purged \in [SessionSlot -> Session]
  BY Types, Constants DEF Purged

\* An account stays acknowledged where nothing it is about changes.
LEMMA AccountSteady ==
    ASSUME AccountInv, UNCHANGED <<account, nvs, pending, request, console, Remembered>>
    PROVE  AccountInv'
  BY DEF AccountInv, Tried, Among, Remembered

\* And where a request begins or ends that saves nothing.
LEMMA AccountRests ==
    ASSUME AccountInv, UNCHANGED <<nvs, console, Remembered>>,
           claimed # NoAccount => /\ account' = account /\ ~pending'
                                  /\ request'.step # "setup",
           request.step \notin Storing \cup {"off"}, request'.step \notin Storing \cup {"off"}
    PROVE  AccountInv'
  <1>1. Tried' = Tried
    BY DEF Tried, Remembered
  <1>. QED BY <1>1 DEF AccountInv, Among, Remembered

\* And where a save goes on.
LEMMA SaveGoesOn ==
    ASSUME AccountInv, UNCHANGED <<account, pending, console, Remembered>>,
           request.step \in Storing, request'.step \in Storing,
           request'.origin = request.origin, request'.before = request.before,
           nvs'.user \in {nvs.user, account.user}, nvs'.hash \in {nvs.hash, account.rec},
           nvs'.legacy \in {nvs.legacy, "none"}
    PROVE  AccountInv'
  <1>. SUFFICES ASSUME claimed # NoAccount PROVE AccountInv'
    BY DEF AccountInv, Remembered
  <1>1. Tried' = Tried /\ account \in Tried
    BY DEF Tried, Remembered
  <1>2. Among(nvs'.user, nvs'.hash)
    BY <1>1 DEF AccountInv, Among
  <1>. QED BY <1>1, <1>2 DEF AccountInv, Among, Remembered, Storing

\* The clock.
LEMMA AuthTickKeeps == ASSUME AuthInv, AuthTick PROVE AuthInv'
  <1>. AuthTypeOK
    BY DEF AuthInv
  <1>1. AuthTypeOK'
    <2>1. session' \in [SessionSlot -> Session]
      <3>1. ASSUME NEW s \in SessionSlot PROVE session'[s] \in Session
        <4>1. session[s] \in Session
          BY Types
        <4>2. /\ (IF session[s].idle > IdleLimit THEN session[s].idle ELSE session[s].idle + 1) \in 0 .. IdleLimit + 1
              /\ (IF session[s].age > AgeLimit THEN session[s].age ELSE session[s].age + 1) \in 0 .. AgeLimit + 1
          BY <4>1, AuthAssumption DEF Session
        <4>. QED BY <4>1, <4>2, Constants DEF AuthTick, Session
      <3>. QED BY <3>1 DEF AuthTick
    <2>2. lock' \in LockState
      <3>1. lock \in LockState
        BY Types
      <3>2. (IF lock.left = 0 THEN 0 ELSE lock.left - 1) \in 0 .. LockTicks
        BY <3>1, AuthAssumption DEF LockState
      <3>. QED BY <3>1, <3>2 DEF AuthTick, LockState
    <2>. QED BY <2>1, <2>2 DEF AuthTypeOK, Session, LockState, AuthTick, Bounds, Remembered
  <1>2. OriginInv'
    BY DEF AuthInv, OriginInv, AuthTick
  <1>3. SessionInv'
    BY Types DEF AuthInv, SessionInv, Session, Used, FromWeb, AuthTick, Bounds, Free
  <1>4. SavedInv'
    BY DEF AuthInv, SavedInv, AuthTick
  <1>5. AccountInv'
    BY AccountSteady DEF AuthInv, AuthTick
  <1>. QED BY <1>1, <1>2, <1>3, <1>4, <1>5 DEF AuthInv

\* auth_wrap: a request begins, or is refused.
LEMMA BeginSetupKeeps == ASSUME AuthInv, BeginSetup PROVE AuthInv'
  <1>. AuthTypeOK
    BY DEF AuthInv
  <1>1. AuthTypeOK'
    <2>1. session' \in [SessionSlot -> Session]
      BY Types, Constants DEF BeginSetup, Polled, LoggedOut
    <2>2. lock' \in LockState
      BY Types, AuthAssumption DEF LockState, BeginSetup, Polled, NoLock
    <2>3. request' \in RequestState
      <3>1. "setup" \in Step /\ NoCookie \in 0 .. MaxLogins
        BY Constants DEF Step, NoCookie
      <3>2. Begins("setup", NoCookie)
        BY DEF BeginSetup
      <3>. QED BY <3>1, <3>2, BeginsTyped
    <2>. QED BY <2>1, <2>2, <2>3
                DEF AuthTypeOK, Session, LockState, RequestState, BeginSetup, Begins,
                    Polled, Bounds, Remembered, Idle
  <1>2. OriginInv'
    BY DEF OriginInv, Storing, BeginSetup, Begins, Idle
  <1>3. SessionInv'
    BY DEF AuthInv, SessionInv, Used, FromWeb, BeginSetup, Begins, Polled, LoggedOut,
           Bounds, Idle, Free, NoSessions
  <1>4. SavedInv'
    BY DEF SavedInv, Storing, BeginSetup, Begins
  <1>5. AccountInv'
    <2>1. claimed = NoAccount /\ request'.step = "setup" /\ UNCHANGED Remembered
      <3>1. claimed # NoAccount => ~pending /\ ~SetupNeeded
        BY DEF AuthInv, AccountInv, SetupNeeded, Among, Complete, BeginSetup, Begins
      <3>. QED BY <3>1 DEF BeginSetup, Begins, Idle
    <2>. QED BY <2>1 DEF AccountInv, Remembered
  <1>. QED BY <1>1, <1>2, <1>3, <1>4, <1>5 DEF AuthInv

LEMMA BeginLoginKeeps == ASSUME AuthInv, BeginLogin PROVE AuthInv'
  <1>. AuthTypeOK
    BY DEF AuthInv
  <1>1. AuthTypeOK'
    <2>1. request' \in RequestState
      <3>1. "login" \in Step /\ NoCookie \in 0 .. MaxLogins
        BY Constants DEF Step, NoCookie
      <3>2. Begins("login", NoCookie)
        BY DEF BeginLogin
      <3>. QED BY <3>1, <3>2, BeginsTyped
    <2>. QED BY <2>1 DEF AuthTypeOK, RequestState, BeginLogin, Begins, Polled, Bounds, Remembered
  <1>2. OriginInv'
    BY DEF OriginInv, Storing, BeginLogin, Begins, Idle
  <1>3. SessionInv'
    BY DEF AuthInv, SessionInv, Used, FromWeb, BeginLogin, Begins, Polled, Bounds, Idle
  <1>4. SavedInv'
    BY DEF SavedInv, Storing, BeginLogin, Begins, Idle
  <1>5. AccountInv'
    <2>1. /\ request.step = "none" /\ request'.step = "login"
          /\ UNCHANGED <<account, nvs, console, Remembered>> /\ ~pending'
      BY DEF BeginLogin, Begins, Polled, Idle
    <2>. QED BY <2>1, AccountRests DEF AuthInv, Storing
  <1>. QED BY <1>1, <1>2, <1>3, <1>4, <1>5 DEF AuthInv

LEMMA BeginPageKeeps == ASSUME AuthInv, NEW cookie \in 0 .. logins, BeginPage(cookie)
                        PROVE  AuthInv'
  <1>. AuthTypeOK
    BY DEF AuthInv
  <1>1. AuthTypeOK'
    <2>1. session' \in [SessionSlot -> Session]
      BY Types, PurgedTyped, AuthAssumption DEF Session, BeginPage, Polled, SetupNeeded
    <2>2. request' \in RequestState
      <3>1. "page" \in Step /\ cookie \in 0 .. MaxLogins
        BY Types, Constants DEF Step
      <3>2. Begins("page", cookie)
        BY DEF BeginPage
      <3>. QED BY <3>1, <3>2, BeginsTyped
    <2>. QED BY <2>1, <2>2
                DEF AuthTypeOK, Session, RequestState, BeginPage, Begins, Polled, Bounds, Remembered
  <1>2. OriginInv'
    BY DEF OriginInv, Storing, BeginPage, Begins, Idle
  <1>3. SessionInv'
    BY Types
       DEF AuthInv, SessionInv, Session, Used, FromWeb, BeginPage, Begins, Polled, Purged,
           Bounds, Idle, Free
  <1>4. SavedInv'
    BY DEF SavedInv, Storing, BeginPage, Begins, Idle
  <1>5. AccountInv'
    <2>1. /\ request.step = "none" /\ request'.step = "page"
          /\ UNCHANGED <<account, nvs, console, Remembered>> /\ ~pending'
      BY DEF BeginPage, Begins, Polled, Idle
    <2>. QED BY <2>1, AccountRests DEF AuthInv, Storing
  <1>. QED BY <1>1, <1>2, <1>3, <1>4, <1>5 DEF AuthInv

LEMMA RefuseKeeps == ASSUME AuthInv, NEW cookie \in 0 .. logins, Refuse(cookie)
                     PROVE  AuthInv'
  <1>. AuthTypeOK
    BY DEF AuthInv
  <1>1. AuthTypeOK'
    <2>1. session' \in [SessionSlot -> Session]
      BY PurgedTyped DEF Refuse
    <2>. QED BY <2>1 DEF AuthTypeOK, Session, Refuse, Bounds, Remembered
  <1>2. OriginInv'
    BY DEF AuthInv, OriginInv, Refuse
  <1>3. SessionInv'
    BY DEF AuthInv, SessionInv, Used, FromWeb, Refuse, Purged, Bounds, Free
  <1>4. SavedInv'
    BY DEF SavedInv, Storing, Refuse
  <1>5. AccountInv'
    BY AccountSteady DEF AuthInv, Refuse
  <1>. QED BY <1>1, <1>2, <1>3, <1>4, <1>5 DEF AuthInv

\* The handlers.
LEMMA EndRequestKeeps == ASSUME AuthInv, EndRequest PROVE AuthInv'
  <1>. AuthTypeOK
    BY DEF AuthInv
  <1>1. AuthTypeOK'
    <2>1. request' \in RequestState
      BY Constants DEF EndRequest
    <2>. QED BY <2>1 DEF AuthTypeOK, RequestState, EndRequest, Bounds, Remembered
  <1>2. OriginInv'
    BY DEF OriginInv, Storing, EndRequest, Idle
  <1>3. SessionInv'
    BY DEF AuthInv, SessionInv, Used, FromWeb, EndRequest, Bounds, Idle
  <1>4. SavedInv'
    BY DEF SavedInv, Storing, EndRequest, Idle
  <1>5. AccountInv'
    <2>1. /\ request.step \in {"setup", "login", "page"} /\ request'.step = "none"
          /\ UNCHANGED <<account, nvs, pending, console, Remembered>>
      BY DEF EndRequest, Idle
    <2>. QED BY <2>1, AccountRests DEF AuthInv, AccountInv, Storing
  <1>. QED BY <1>1, <1>2, <1>3, <1>4, <1>5 DEF AuthInv

LEMMA LogOutKeeps == ASSUME AuthInv, LogOut PROVE AuthInv'
  <1>. AuthTypeOK
    BY DEF AuthInv
  <1>1. AuthTypeOK'
    <2>1. session' \in [SessionSlot -> Session]
      BY Constants, PurgedTyped DEF LogOut
    <2>2. request' \in RequestState
      BY Constants DEF LogOut
    <2>. QED BY <2>1, <2>2 DEF AuthTypeOK, Session, RequestState, LogOut, Bounds, Remembered
  <1>2. OriginInv'
    BY DEF OriginInv, Storing, LogOut, Idle
  <1>3. SessionInv'
    BY DEF AuthInv, SessionInv, Used, FromWeb, LogOut, Purged, Bounds, Idle, Free
  <1>4. SavedInv'
    BY DEF SavedInv, Storing, LogOut, Idle
  <1>5. AccountInv'
    <2>1. /\ request.step \in {"page"} /\ request'.step = "none"
          /\ UNCHANGED <<account, nvs, pending, console, Remembered>>
      BY DEF LogOut, Idle
    <2>. QED BY <2>1, AccountRests DEF AuthInv, AccountInv, Storing
  <1>. QED BY <1>1, <1>2, <1>3, <1>4, <1>5 DEF AuthInv

LEMMA SetCredentialsKeeps == ASSUME AuthInv, SetCredentials PROVE AuthInv'
  <1>. AuthTypeOK
    BY DEF AuthInv
  <1>0. account' \in Complete
    <2>1. PICK name \in {account.user, nvs.user, New} \ {0} : account' = [user |-> name, rec |-> New]
      BY DEF SetCredentials
    <2>2. name \in Nat \ {0} /\ New \in Nat \ {0}
      BY Types DEF Account, Stored
    <2>. QED BY <2>1, <2>2 DEF Complete, Account
  <1>1. AuthTypeOK'
    <2>1. account' \in Account
      BY <1>0 DEF Complete
    <2>2. session' \in [SessionSlot -> Session]
      BY Types, PurgedTyped DEF SetCredentials
    <2>3. lock' \in LockState
      BY Types, AfterCheckTyped DEF SetCredentials
    <2>4. request' \in RequestState
      BY Types DEF RequestState, Step, Origin, SetCredentials
    <2>. QED BY <2>1, <2>2, <2>3, <2>4
                DEF AuthTypeOK, Session, LockState, RequestState, SetCredentials, Bounds, Remembered
  <1>2. OriginInv'
    BY Types DEF OriginInv, RequestState, Storing, SetCredentials
  <1>3. SessionInv'
    <2>1. \A s \in SessionSlot : Used(s)' => Used(s) /\ session'[s].under = session[s].under
      BY Constants DEF SetCredentials, Purged, Used
    <2>2. /\ request.step \in {"setup", "page"} /\ request'.step = "user" /\ request'.origin = request.step
          /\ request'.began = request.began
          /\ UNCHANGED <<pending, changes, resets>>
      BY Types DEF SetCredentials, RequestState, Bounds
    <2>. QED BY <2>1, <2>2 DEF AuthInv, SessionInv, OriginInv, Storing, FromWeb
  <1>4. SavedInv'
    <2>1. request'.step = "user"
      BY Types DEF RequestState, SetCredentials
    <2>. QED BY <1>0, <2>1 DEF SavedInv
  <1>5. AccountInv'
    <2>1. /\ request.step \in {"setup", "page"} /\ request'.step = "user"
          /\ request'.origin = request.step /\ request'.before = account
          /\ UNCHANGED <<nvs, pending, console, claimed, attempts, restarted>>
      BY Types DEF SetCredentials, RequestState, Remembered
    <2>. SUFFICES ASSUME claimed # NoAccount PROVE AccountInv'
      BY <2>1 DEF AccountInv
    <2>2. /\ request.step = "page" /\ AccountInv
      BY <2>1 DEF AuthInv, AccountInv
    <2>3. Tried = {claimed} \cup attempts /\ Tried' = Tried \cup {account'}
      BY <2>1, <2>2 DEF Tried, Storing
    <2>4. Among(nvs.user, nvs.hash)' /\ Among(account.user, account.rec)'
      BY <2>1, <2>2, <2>3 DEF AccountInv, Among
    <2>5. /\ \E a \in {claimed} \cup attempts : a.user = account.user
          /\ \E a \in {claimed} \cup attempts : a.rec = account.rec
      BY <2>2, <2>3 DEF AccountInv, Among
    <2>6. ~restarted => account = claimed
      BY <2>2 DEF AccountInv, Storing
    <2>7. Tried' \subseteq Complete
      BY <1>0, <2>2, <2>3 DEF AccountInv
    <2>. QED BY <2>1, <2>2, <2>4, <2>5, <2>6, <2>7 DEF AccountInv, Storing
  <1>. QED BY <1>1, <1>2, <1>3, <1>4, <1>5 DEF AuthInv

LEMMA WrongPasswordKeeps == ASSUME AuthInv, WrongPassword PROVE AuthInv'
  <1>. AuthTypeOK
    BY DEF AuthInv
  <1>1. AuthTypeOK'
    <2>1. lock' \in LockState
      BY AfterCheckTyped DEF WrongPassword
    <2>2. session' \in [SessionSlot -> Session]
      BY PurgedTyped DEF WrongPassword
    <2>3. request' \in RequestState
      BY Constants DEF WrongPassword
    <2>. QED BY <2>1, <2>2, <2>3
                DEF AuthTypeOK, Session, LockState, RequestState, WrongPassword, Bounds, Remembered
  <1>2. OriginInv'
    BY DEF OriginInv, Storing, WrongPassword, Idle
  <1>3. SessionInv'
    BY DEF AuthInv, SessionInv, Used, FromWeb, WrongPassword, Purged, Bounds, Idle, Free
  <1>4. SavedInv'
    BY DEF SavedInv, Storing, WrongPassword, Idle
  <1>5. AccountInv'
    <2>1. /\ request.step \in {"page"} /\ request'.step = "none"
          /\ UNCHANGED <<account, nvs, pending, console, Remembered>>
      BY DEF WrongPassword, Idle
    <2>. QED BY <2>1, AccountRests DEF AuthInv, AccountInv, Storing
  <1>. QED BY <1>1, <1>2, <1>3, <1>4, <1>5 DEF AuthInv

LEMMA LogInKeeps == ASSUME AuthInv, NEW right \in BOOLEAN, LogIn(right) PROVE AuthInv'
  <1>. AuthTypeOK
    BY DEF AuthInv
  <1>1. AuthTypeOK'
    <2>1. lock' \in LockState
      BY AfterCheckTyped DEF LogIn
    <2>2. session' \in [SessionSlot -> Session]
      <3>1. session \in [SessionSlot -> Session] /\ request \in RequestState
        BY Types
      <3>2. Accepts(right) => logins + 1 \in 0 .. MaxLogins
        BY Types, Constants DEF LogIn
      <3>3. 0 \in 0 .. AgeLimit + 1
        BY AuthAssumption
      <3>4. Accepts(right) => [token |-> logins + 1, idle |-> 0, age |-> 0, under |-> request.began] \in Session
        BY <3>1, <3>2, <3>3, Constants DEF Session, RequestState
      <3>. QED BY <3>1, <3>4 DEF LogIn, Opened
    <2>3. request' \in RequestState
      BY Constants DEF LogIn
    <2>. QED BY <2>1, <2>2, <2>3
                DEF AuthTypeOK, Session, LockState, RequestState, LogIn, Opened, Remembered
  <1>2. OriginInv'
    BY DEF OriginInv, Storing, LogIn, Idle
  <1>3. SessionInv'
    BY DEF AuthInv, SessionInv, Storing, Used, FromWeb, OriginInv, LogIn, Opened, Idle
  <1>4. SavedInv'
    BY DEF SavedInv, Storing, LogIn, Idle
  <1>5. AccountInv'
    <2>1. /\ request.step \in {"login"} /\ request'.step = "none"
          /\ UNCHANGED <<account, nvs, pending, console, Remembered>>
      BY DEF LogIn, Idle
    <2>. QED BY <2>1, AccountRests DEF AuthInv, AccountInv, Storing
  <1>. QED BY <1>1, <1>2, <1>3, <1>4, <1>5 DEF AuthInv

\* save_nvs, write by write, and how it ends.
LEMMA SaveUserKeeps == ASSUME AuthInv, SaveUser PROVE AuthInv'
  <1>. AuthTypeOK
    BY DEF AuthInv
  <1>1. AuthTypeOK'
    <2>1. nvs' \in Stored
      <3>1. account.user \in Nat /\ account.rec \in Nat /\ nvs \in Stored
        BY Types DEF Account
      <3>. QED BY <3>1 DEF Stored, SaveUser
    <2>2. request' \in RequestState
      BY Types DEF RequestState, Step, SaveUser, Saves
    <2>. QED BY <2>1, <2>2 DEF AuthTypeOK, RequestState, Stored, SaveUser, Saves, Bounds, Remembered
  <1>2. OriginInv'
    BY DEF AuthInv, OriginInv, Storing, SaveUser, Saves
  <1>3. SessionInv'
    BY DEF AuthInv, SessionInv, Used, FromWeb, SaveUser, Saves, Bounds
  <1>4. SavedInv'
    BY DEF AuthInv, SavedInv, Storing, SaveUser, Saves
  <1>5. AccountInv'
    <2>1. /\ request.step \in Storing /\ request'.step \in Storing
          /\ request'.origin = request.origin /\ request'.before = request.before
          /\ UNCHANGED <<account, pending, console, Remembered>>
      BY Types DEF RequestState, SaveUser, Saves, Storing
    <2>. QED BY <2>1, Types, SaveGoesOn DEF AuthInv, AccountInv, SavedInv, Complete, Stored, SaveUser
  <1>. QED BY <1>1, <1>2, <1>3, <1>4, <1>5 DEF AuthInv

LEMMA SaveHashKeeps == ASSUME AuthInv, SaveHash PROVE AuthInv'
  <1>. AuthTypeOK
    BY DEF AuthInv
  <1>1. AuthTypeOK'
    <2>1. nvs' \in Stored
      <3>1. account.user \in Nat /\ account.rec \in Nat /\ nvs \in Stored
        BY Types DEF Account
      <3>. QED BY <3>1 DEF Stored, SaveHash
    <2>2. request' \in RequestState
      BY Types DEF RequestState, Step, SaveHash, Saves
    <2>. QED BY <2>1, <2>2 DEF AuthTypeOK, RequestState, Stored, SaveHash, Saves, Bounds, Remembered
  <1>2. OriginInv'
    BY DEF AuthInv, OriginInv, Storing, SaveHash, Saves
  <1>3. SessionInv'
    BY DEF AuthInv, SessionInv, Used, FromWeb, SaveHash, Saves, Bounds
  <1>4. SavedInv'
    BY Types DEF AuthInv, SavedInv, Complete, Stored, Storing, SaveHash, Saves
  <1>5. AccountInv'
    <2>1. /\ request.step \in Storing /\ request'.step \in Storing
          /\ request'.origin = request.origin /\ request'.before = request.before
          /\ UNCHANGED <<account, pending, console, Remembered>>
      BY Types DEF RequestState, SaveHash, Saves, Storing
    <2>. QED BY <2>1, Types, SaveGoesOn DEF AuthInv, AccountInv, SavedInv, Complete, Stored, SaveHash, Remembered
  <1>. QED BY <1>1, <1>2, <1>3, <1>4, <1>5 DEF AuthInv

LEMMA EraseLegacyKeeps == ASSUME AuthInv, EraseLegacy PROVE AuthInv'
  <1>. AuthTypeOK
    BY DEF AuthInv
  <1>1. AuthTypeOK'
    <2>1. request' \in RequestState
      BY Types DEF RequestState, Step, EraseLegacy, Saves
    <2>. QED BY <2>1 DEF AuthTypeOK, RequestState, EraseLegacy, Saves, Bounds, Remembered
  <1>2. OriginInv'
    BY DEF AuthInv, OriginInv, Storing, EraseLegacy, Saves
  <1>3. SessionInv'
    BY DEF AuthInv, SessionInv, Used, FromWeb, EraseLegacy, Saves, Bounds
  <1>4. SavedInv'
    BY DEF AuthInv, SavedInv, Storing, EraseLegacy, Saves
  <1>5. AccountInv'
    <2>1. /\ request.step \in Storing /\ request'.step \in Storing
          /\ request'.origin = request.origin /\ request'.before = request.before
          /\ UNCHANGED <<account, pending, console, Remembered>>
      BY Types DEF RequestState, EraseLegacy, Saves, Storing
    <2>. QED BY <2>1, Types, SaveGoesOn DEF AuthInv, AccountInv, SavedInv, Complete, Stored, EraseLegacy
  <1>. QED BY <1>1, <1>2, <1>3, <1>4, <1>5 DEF AuthInv

LEMMA SaveFailsKeeps == ASSUME AuthInv, SaveFails PROVE AuthInv'
  <1>. AuthTypeOK
    BY DEF AuthInv
  <1>1. AuthTypeOK'
    <2>1. request' \in RequestState
      BY Types DEF RequestState, Step, SaveFails
    <2>. QED BY <2>1 DEF AuthTypeOK, RequestState, SaveFails, Remembered
  <1>2. OriginInv'
    BY DEF AuthInv, OriginInv, Storing, SaveFails
  <1>3. SessionInv'
    BY DEF AuthInv, SessionInv, Used, FromWeb, SaveFails
  <1>4. SavedInv'
    BY DEF AuthInv, SavedInv, Storing, SaveFails
  <1>5. AccountInv'
    <2>1. /\ request.step \in Storing /\ request'.step \in Storing
          /\ request'.origin = request.origin /\ request'.before = request.before
          /\ UNCHANGED <<account, pending, console, Remembered>>
      BY Types DEF RequestState, SaveFails, Storing
    <2>2. /\ nvs'.user = nvs.user /\ nvs'.hash = nvs.hash
          /\ nvs'.legacy \in {nvs.legacy, "none"}
      BY Types DEF Stored, SaveFails
    <2>. QED BY <2>1, <2>2, SaveGoesOn DEF AuthInv
  <1>. QED BY <1>1, <1>2, <1>3, <1>4, <1>5 DEF AuthInv

\* A saved account logs everybody out; the session of the setup page is opened after.
LEMMA EndSaveKeeps == ASSUME AuthInv, EndSave PROVE AuthInv'
  <1>. AuthTypeOK
    BY DEF AuthInv
  <1>1. AuthTypeOK'
    <2>1. session' \in [SessionSlot -> Session]
      <3>1. request \in RequestState
        BY Types
      <3>2. request.origin = "setup" => logins + 1 \in 0 .. MaxLogins
        BY Types, Constants DEF EndSave
      <3>3. request.origin = "setup" => [Free EXCEPT !.token = logins + 1, !.under = request.began + 1] \in Session
        <4>1. request.began + 1 \in Nat
          BY <3>1 DEF RequestState
        <4>2. \A t \in 0 .. MaxLogins, u \in Nat : [Free EXCEPT !.token = t, !.under = u] \in Session
          BY Constants DEF Session
        <4>. QED BY <3>2, <4>1, <4>2
      <3>. QED BY <3>3, Constants DEF EndSave, LoggedOut
    <2>2. lock' \in LockState
      BY AuthAssumption DEF LockState, EndSave, NoLock
    <2>3. request' \in RequestState
      BY Constants DEF EndSave
    <2>4. logins' \in 0 .. MaxLogins
      BY Types, AuthAssumption DEF EndSave
    <2>5. claimed' \in Account /\ attempts' = {} /\ restarted' = FALSE
      BY Types, Constants DEF EndSave
    <2>6. {changes', resets', authFaults'} \subseteq Nat
      BY Types DEF EndSave
    <2>7. UNCHANGED <<account, nvs, pending, console>>
      BY DEF EndSave
    <2>. QED BY <2>1, <2>2, <2>3, <2>4, <2>5, <2>6, <2>7
                DEF AuthTypeOK, Session, LockState, RequestState
  <1>2. OriginInv'
    BY DEF OriginInv, Storing, EndSave, Idle
  <1>3. SessionInv'
    <2>1. request' = Idle /\ pending' = pending /\ resets' = resets /\ changes' = changes + 1 /\ request.step = "done"
      BY DEF EndSave, GoodEnd
    <2>2. request.origin # "setup" => \A s \in SessionSlot : ~Used(s)'
      BY Constants DEF EndSave, LoggedOut, Used
    <2>3. request.origin = "setup" => \A s \in SessionSlot : Used(s)' => session'[s].under = request.began + 1
      BY Constants DEF EndSave, LoggedOut, Used, Session
    <2>4. request.origin = "setup" /\ ~pending => request.began + 1 = changes' + resets'
      BY <2>1, Types DEF AuthInv, SessionInv, FromWeb
    <2>. QED BY <2>1, <2>2, <2>3, <2>4, Constants DEF SessionInv, FromWeb
  <1>4. SavedInv'
    BY DEF SavedInv, Storing, EndSave, Idle
  <1>5. AccountInv'
    <2>1. /\ request.step = "done" /\ request.origin # "scrub"
          /\ request'.step = "none"
          /\ claimed' = IF console = "idle" /\ ~pending THEN account ELSE NoAccount
          /\ attempts' = {} /\ restarted' = FALSE
          /\ UNCHANGED <<account, nvs, pending, console>>
      BY DEF EndSave, GoodEnd, Idle
    <2>. SUFFICES ASSUME claimed' # NoAccount PROVE AccountInv'
      BY DEF AccountInv
    <2>2. /\ console = "idle" /\ ~pending /\ claimed' = account
          /\ account \in Complete /\ nvs.user = account.user /\ nvs.hash = account.rec
          /\ nvs.legacy = "none"
      BY <2>1 DEF AuthInv, SavedInv, Storing
    <2>3. Tried' = {account}
      BY <2>1, <2>2 DEF Tried, Storing
    <2>. QED BY <2>1, <2>2, <2>3 DEF AccountInv, Among, Storing
  <1>. QED BY <1>1, <1>2, <1>3, <1>4, <1>5 DEF AuthInv

\* A failed change: what comes back is what AccountInv says was there.
LEMMA RollBackKeeps == ASSUME AuthInv, RollBack PROVE AuthInv'
  <1>. AuthTypeOK
    BY DEF AuthInv
  <1>. DEFINE scrub == [Idle EXCEPT !.step = "user", !.origin = "scrub"]
  <1>1. /\ request.step = "failed" /\ request.origin # "scrub"
        /\ \/ request.origin = "boot" /\ request' = scrub
           \/ request.origin # "boot" /\ request' = Idle
        /\ UNCHANGED <<nvs, session, lock, pending, console, changes, resets, claimed, restarted>>
        /\ attempts' = attempts \cup {account}
    BY DEF RollBack, GoodEnd, Bounds
  <1>2. \/ request'.step = "user" /\ request'.origin = "scrub" /\ request.origin = "boot"
        \/ request'.step = "none" /\ request'.origin = "none" /\ request.origin # "boot"
    BY <1>1, Constants
  <1>. HIDE DEF scrub
  <1>3. AuthTypeOK'
    <2>1. account' \in Account
      <3>1. request.before \in Account
        BY Types DEF RequestState
      <3>. QED BY <3>1 DEF RollBack, Account
    <2>2. request' \in RequestState
      BY Constants DEF RollBack
    <2>. QED BY <2>1, <2>2 DEF AuthTypeOK, RequestState, RollBack, Bounds
  <1>4. OriginInv'
    BY <1>2 DEF OriginInv, Storing
  <1>5. SessionInv'
    BY <1>1, <1>2 DEF AuthInv, SessionInv, FromWeb, Used
  <1>6. SavedInv'
    BY <1>2 DEF SavedInv, Storing
  <1>7. AccountInv'
    <2>. SUFFICES ASSUME claimed # NoAccount PROVE AccountInv'
      BY <1>1 DEF AccountInv
    <2>1. AccountInv /\ request.origin = "page" /\ request'.step = "none"
      BY <1>1, <1>2 DEF AuthInv, AccountInv, Storing
    <2>2. account' = request.before
      BY <2>1 DEF RollBack
    <2>3. Tried' = Tried
      BY <1>1, <2>1 DEF Tried, Storing
    <2>. QED BY <1>1, <2>1, <2>2, <2>3 DEF AccountInv, Among, Tried, Storing
  <1>. QED BY <1>3, <1>4, <1>5, <1>6, <1>7 DEF AuthInv

LEMMA EndScrubKeeps == ASSUME AuthInv, EndScrub PROVE AuthInv'
  <1>. AuthTypeOK
    BY DEF AuthInv
  <1>1. AuthTypeOK'
    <2>1. request' \in RequestState
      BY Constants DEF EndScrub
    <2>. QED BY <2>1 DEF AuthTypeOK, RequestState, EndScrub, Bounds, Remembered
  <1>2. OriginInv'
    BY DEF OriginInv, Storing, EndScrub, Idle
  <1>3. SessionInv'
    BY DEF AuthInv, SessionInv, Used, FromWeb, EndScrub, Idle
  <1>4. SavedInv'
    BY DEF SavedInv, Storing, EndScrub, Idle
  <1>5. AccountInv'
    BY DEF AuthInv, AccountInv, Storing, EndScrub, Idle, Remembered
  <1>. QED BY <1>1, <1>2, <1>3, <1>4, <1>5 DEF AuthInv

\* web_auth_reset, on the console task.
LEMMA AskAdminResetKeeps == ASSUME AuthInv, AskAdminReset PROVE AuthInv'
  <1>. AuthTypeOK
    BY DEF AuthInv
  <1>1. AuthTypeOK'
    <2>. QED BY Constants DEF AuthTypeOK, AskAdminReset, Console
  <1>2. OriginInv'
    BY DEF AuthInv, OriginInv, AskAdminReset, Console
  <1>3. SessionInv'
    BY DEF AuthInv, SessionInv, Used, FromWeb, AskAdminReset, Console
  <1>4. SavedInv'
    BY DEF AuthInv, SavedInv, AskAdminReset, Console
  <1>5. AccountInv'
    BY DEF AccountInv, AskAdminReset
  <1>. QED BY <1>1, <1>2, <1>3, <1>4, <1>5 DEF AuthInv

LEMMA ResetUserKeeps == ASSUME AuthInv, ResetUser PROVE AuthInv'
  <1>. AuthTypeOK
    BY DEF AuthInv
  <1>1. AuthTypeOK'
    <2>. QED BY DEF AuthTypeOK, ResetUser, Console, Remembered
  <1>2. OriginInv'
    BY DEF AuthInv, OriginInv, ResetUser, Console
  <1>3. SessionInv'
    BY DEF AuthInv, SessionInv, Used, FromWeb, ResetUser, Console
  <1>4. SavedInv'
    BY DEF AuthInv, SavedInv, ResetUser, Console
  <1>5. AccountInv'
    BY DEF AuthInv, AccountInv, ResetUser, Console, Remembered
  <1>. QED BY <1>1, <1>2, <1>3, <1>4, <1>5 DEF AuthInv

LEMMA ResetHashKeeps == ASSUME AuthInv, ResetHash PROVE AuthInv'
  <1>. AuthTypeOK
    BY DEF AuthInv
  <1>1. AuthTypeOK'
    <2>. QED BY DEF AuthTypeOK, ResetHash, Console, Remembered
  <1>2. OriginInv'
    BY DEF AuthInv, OriginInv, ResetHash, Console
  <1>3. SessionInv'
    BY DEF AuthInv, SessionInv, Used, FromWeb, ResetHash, Console
  <1>4. SavedInv'
    BY DEF AuthInv, SavedInv, ResetHash, Console
  <1>5. AccountInv'
    BY DEF AuthInv, AccountInv, ResetHash, Console, Remembered
  <1>. QED BY <1>1, <1>2, <1>3, <1>4, <1>5 DEF AuthInv

LEMMA ResetLegacyKeeps == ASSUME AuthInv, ResetLegacy PROVE AuthInv'
  <1>. AuthTypeOK
    BY DEF AuthInv
  <1>1. AuthTypeOK'
    <2>. QED BY DEF AuthTypeOK, ResetLegacy, Console, Remembered
  <1>2. OriginInv'
    BY DEF AuthInv, OriginInv, ResetLegacy, Console
  <1>3. SessionInv'
    BY DEF AuthInv, SessionInv, Used, FromWeb, ResetLegacy, Console
  <1>4. SavedInv'
    BY DEF AuthInv, SavedInv, ResetLegacy, Console
  <1>5. AccountInv'
    BY DEF AuthInv, AccountInv, ResetLegacy, Console, Remembered
  <1>. QED BY <1>1, <1>2, <1>3, <1>4, <1>5 DEF AuthInv

LEMMA FlagResetKeeps == ASSUME AuthInv, FlagReset PROVE AuthInv'
  <1>. AuthTypeOK
    BY DEF AuthInv
  <1>1. AuthTypeOK'
    <2>. QED BY DEF AuthTypeOK, FlagReset, Console, Remembered
  <1>2. OriginInv'
    BY DEF AuthInv, OriginInv, FlagReset, Console
  <1>3. SessionInv'
    BY DEF AuthInv, SessionInv, Used, FromWeb, FlagReset, Console
  <1>4. SavedInv'
    BY DEF AuthInv, SavedInv, FlagReset, Console
  <1>5. AccountInv'
    BY DEF AuthInv, AccountInv, FlagReset, Console, Remembered
  <1>. QED BY <1>1, <1>2, <1>3, <1>4, <1>5 DEF AuthInv

\* The power, and web_auth_init.
LEMMA LosePowerKeeps == ASSUME AuthInv, LosePower PROVE AuthInv'
  <1>. AuthTypeOK
    BY DEF AuthInv
  <1>1. AuthTypeOK'
    <2>1. session' \in [SessionSlot -> Session]
      BY Constants DEF LosePower
    <2>2. lock' \in LockState
      BY AuthAssumption DEF LockState, LosePower, NoLock
    <2>3. request' \in RequestState
      BY Constants DEF RequestState, Step, LosePower
    <2>4. {changes', resets', authFaults'} \subseteq Nat
      BY Types DEF LosePower
    <2>. QED BY <2>1, <2>2, <2>3, <2>4
                DEF AuthTypeOK, Session, LockState, RequestState, LosePower, Idle
  <1>2. OriginInv'
    BY DEF OriginInv, Storing, LosePower, Idle
  <1>3. SessionInv'
    BY DEF SessionInv, Used, LosePower, Free, NoSessions
  <1>4. SavedInv'
    BY DEF SavedInv, Storing, LosePower
  <1>5. AccountInv'
    <2>1. /\ request'.step = "off" /\ console' = "idle" /\ pending' = FALSE
          /\ attempts' = IF request.step \in Storing THEN attempts \cup {account} ELSE attempts
          /\ restarted' = TRUE /\ claimed' = claimed /\ nvs' = nvs
      BY DEF LosePower, Idle
    <2>2. Tried' = Tried
      BY <2>1 DEF Tried, Storing
    <2>. QED BY <2>1, <2>2 DEF AuthInv, AccountInv, Among, Storing
  <1>. QED BY <1>1, <1>2, <1>3, <1>4, <1>5 DEF AuthInv

LEMMA AuthBootKeeps == ASSUME AuthInv, AuthBoot PROVE AuthInv'
  <1>. AuthTypeOK
    BY DEF AuthInv
  <1>. DEFINE stored == [user |-> nvs.user, rec |-> nvs.hash]
              whole == [stored EXCEPT !.rec = New]
              migrate == [Idle EXCEPT !.step = "user", !.origin = "boot", !.before = stored]
              scrub == [Idle EXCEPT !.step = "user", !.origin = "scrub"]
  <1>1. /\ stored \in Account /\ stored.user = nvs.user /\ stored.rec = nvs.hash
        /\ nvs.user # 0 => whole \in Complete
        /\ whole \in Account
    BY Types DEF Stored, Account, Complete
  <1>2. /\ migrate \in RequestState /\ migrate.step = "user" /\ migrate.origin = "boot"
        /\ scrub \in RequestState /\ scrub.step = "user" /\ scrub.origin = "scrub"
        /\ Idle \in RequestState /\ Idle.step = "none" /\ Idle.origin = "none"
    <2>1. migrate.step = "user" /\ migrate.origin = "boot"
      BY Constants DEF RequestState
    <2>2. migrate \in RequestState
      BY <1>1, Constants DEF RequestState, Step, Origin
    <2>. QED BY <2>1, <2>2, Constants
  <1>3. /\ request.step = "off"
        /\ UNCHANGED <<nvs, session, lock, pending, console, logins, changes, resets, authFaults,
                       claimed, attempts, restarted>>
        /\ \/ nvs.user # 0 /\ nvs.hash = 0 /\ account' = whole /\ request' = migrate
           \/ nvs.user # 0 /\ nvs.hash = 0 /\ account' = NoAccount /\ request' = scrub
           \/ account' = stored /\ request' = Idle /\ nvs.legacy = "none"
           \/ account' = stored /\ request' = scrub /\ nvs.legacy # "none"
    BY <1>1 DEF AuthBoot, Bounds, Remembered
  <1>. HIDE DEF stored, whole, migrate, scrub
  <1>4. AuthTypeOK'
    <2>1. account' \in Account /\ request' \in RequestState
      BY <1>1, <1>2, <1>3, Constants
    <2>. QED BY <1>3, <2>1 DEF AuthTypeOK, RequestState
  <1>5. OriginInv'
    BY <1>2, <1>3 DEF OriginInv, Storing
  <1>6. SessionInv'
    <2>1. \/ request'.step = "user" /\ request'.origin \in {"boot", "scrub"}
          \/ request'.step = "none"
      BY <1>2, <1>3
    <2>. QED BY <1>3, <2>1 DEF AuthInv, SessionInv, FromWeb, Used
  <1>7. SavedInv'
    <2>1. \/ request'.step = "user" /\ account' \in Complete
          \/ request'.origin = "scrub" \/ request'.step = "none"
      BY <1>1, <1>2, <1>3
    <2>. QED BY <2>1 DEF SavedInv, Storing
  <1>8. AccountInv'
    <2>. SUFFICES ASSUME claimed # NoAccount PROVE AccountInv'
      BY <1>3 DEF AccountInv
    <2>1. /\ AccountInv /\ Tried \subseteq Complete /\ Among(nvs.user, nvs.hash)
          /\ nvs.legacy = "none" /\ restarted
      BY <1>3 DEF AuthInv, AccountInv
    <2>2. nvs.user # 0 /\ nvs.hash # 0
      BY <2>1 DEF Among, Complete
    <2>3. account' = stored /\ request' = Idle
      BY <1>3, <2>1, <2>2
    <2>4. Tried' = Tried
      BY <1>2, <1>3, <2>3 DEF Tried, Storing
    <2>. QED BY <1>1, <1>2, <1>3, <2>1, <2>3, <2>4 DEF AccountInv, Among, Storing
  <1>. QED BY <1>4, <1>5, <1>6, <1>7, <1>8 DEF AuthInv

\* Every step keeps the invariant.
LEMMA StepKeeps == AuthInv /\ [AuthNext]_authVars => AuthInv'
  <1>. SUFFICES ASSUME AuthInv, [AuthNext]_authVars PROVE AuthInv'
    OBVIOUS
  <1>1. CASE AuthNext
    BY <1>1, AuthTickKeeps, BeginSetupKeeps, BeginLoginKeeps, BeginPageKeeps, RefuseKeeps,
       EndRequestKeeps, LogOutKeeps, SetCredentialsKeeps, WrongPasswordKeeps, LogInKeeps,
       SaveUserKeeps, SaveHashKeeps, EraseLegacyKeeps, SaveFailsKeeps, EndSaveKeeps,
       RollBackKeeps, EndScrubKeeps, AskAdminResetKeeps, ResetUserKeeps, ResetHashKeeps,
       ResetLegacyKeeps, FlagResetKeeps, LosePowerKeeps, AuthBootKeeps
       DEF AuthNext
  <1>2. CASE UNCHANGED authVars
    BY <1>2
       DEF authVars, AuthInv, AuthTypeOK, OriginInv, SessionInv, SavedInv, AccountInv, Used,
           FromWeb, Tried, Among, Remembered
  <1>. QED BY <1>1, <1>2

\* It holds before the first boot.
LEMMA InitHolds == AuthInit => AuthInv
  <1>. SUFFICES ASSUME AuthInit PROVE AuthInv
    OBVIOUS
  <1>1. AuthTypeOK
    <2>1. request \in RequestState /\ request.step = "off" /\ request.origin = "none"
      BY Constants DEF AuthInit, RequestState, Step
    <2>2. nvs \in Stored
      BY DEF AuthInit, Stored, OldName
    <2>3. logins \in 0 .. MaxLogins
      BY AuthAssumption DEF AuthInit
    <2>4. account \in Account /\ session \in [SessionSlot -> Session] /\ lock \in LockState
      BY Constants DEF AuthInit
    <2>5. /\ pending \in BOOLEAN /\ claimed \in Account /\ attempts \subseteq Account /\ restarted \in BOOLEAN
          /\ console \in {"idle", "user", "hash", "legacy", "flag"}
          /\ changes \in Nat /\ resets \in Nat /\ authFaults \in Nat
      BY Constants DEF AuthInit
    <2>. QED BY <2>1, <2>2, <2>3, <2>4, <2>5
                DEF AuthTypeOK, Session, LockState, RequestState, Stored, Remembered
  <1>2. OriginInv /\ SessionInv /\ SavedInv /\ AccountInv
    BY DEF AuthInit, OriginInv, SessionInv, SavedInv, AccountInv, Used, Idle, Storing, Free,
           NoSessions
  <1>. QED BY <1>1, <1>2 DEF AuthInv

\* The inductive invariant of accounts and sessions.
THEOREM AuthInvHolds == AuthSpec => []AuthInv
  BY InitHolds, StepKeeps, PTL DEF AuthSpec

\* web_auth.c: every reachable state is well typed; in particular the lock-out counter stays
\* below its threshold, and a slot is never aged past the tick that frees it.
THEOREM AuthTypeCorrect == AuthSpec => []AuthTypeOK
  <1>1. AuthInv => AuthTypeOK
    BY DEF AuthInv
  <1>. QED BY <1>1, AuthInvHolds, PTL

\* auth_wrap: a page is served only to a session opened since the last change of the
\* account and the last reset before the request, however console and httpd interleave.
THEOREM PagesAreForSessions == AuthSpec => []SessionsFollowTheAccount
  <1>1. AuthInv => SessionsFollowTheAccount
    BY DEF AuthInv, SessionInv, SessionsFollowTheAccount, Used, Found
  <1>. QED BY <1>1, AuthInvHolds, PTL

\* web_auth_set_credentials, save_nvs and web_auth_init: until a reset is asked for, RAM
\* holds the acknowledged account until the power goes, and NVS, and RAM after a restart,
\* hold it too unless a later change broke off; then a name and a hash that are each the
\* acknowledged one or such a change's, through any number of failed writes and cuts.
THEOREM AccountIsKept == AuthSpec => []AcknowledgedAccountIsKept
  <1>1. ASSUME AuthInv PROVE AcknowledgedAccountIsKept
    <2>. SUFFICES ASSUME claimed # NoAccount
                  PROVE  /\ Among(nvs.user, nvs.hash) /\ nvs.user # 0 /\ nvs.hash # 0
                         /\ request.step # "off" => Among(account.user, account.rec) /\ ~SetupNeeded
                         /\ ~restarted /\ request.step \notin Storing => account = claimed
      BY DEF AcknowledgedAccountIsKept
    <2>1. \A u, h : Among(u, h) => u # 0 /\ h # 0
      BY <1>1 DEF AuthInv, AccountInv, Among, Complete
    <2>. QED BY <1>1, <2>1 DEF AuthInv, AccountInv, SetupNeeded
  <1>. QED BY <1>1, AuthInvHolds, PTL

-----------------------------------------------------------------------------
(***************************************************************************)
(* The hook answers on grounds.  Each question it has passed left behind,  *)
(* among the grounds that held at some moment of the call, the answer it   *)
(* got (FpInv).                                                            *)
(***************************************************************************)
\* The grounds that hold now are among those gathered; and each question the
\* hook has passed left one behind.
FpInv ==
    /\ hook.pc # "idle" => Grounds(acl, bypass, paused, rewrites, Busy("bypass"), hook.client) \subseteq hook.since
    /\ hook.pc \in {"pause", "bypass", "rewrite", "probe", "answer"} => "permitted" \in hook.since
    /\ hook.pc \in {"bypass", "rewrite", "probe", "answer"} => "unpaused" \in hook.since
    /\ hook.pc \in {"rewrite", "probe", "answer"} => "filtered" \in hook.since
    /\ hook.pc \in {"probe", "answer"} /\ hook.kind = "A" => "plain" \in hook.since

FpInvariant == FpTypeOK /\ FpInv

HookStep == {"idle", "acl", "pause", "bypass", "rewrite", "probe", "answer"}
HookFrame == [pc : HookStep, client : Lan, kind : Kind, since : SUBSET Ground]

\* The hook at rest is a frame.
LEMMA NoFrameTyped == NoFrame \in HookFrame /\ NoFrame.pc = "idle"
  <1>1. (CHOOSE c \in Lan : TRUE) \in Lan
    BY LanAssumption
  <1> QED BY <1>1 DEF NoFrame, HookFrame, HookStep, Kind

\* Whatever the tables hold, the grounds they give are grounds.
LEMMA GroundsTyped == ASSUME NEW a, NEW b, NEW p, NEW r, NEW held, NEW c
                      PROVE  Grounds(a, b, p, r, held, c) \subseteq Ground
  BY DEF Grounds, Ground

\* An edit adds to the grounds whatever holds after it.
LEMMA WitnessKeeps ==
    ASSUME FpInvariant, Witness
    PROVE  hook' \in HookFrame /\ FpInv'
  <1> DEFINE more == Grounds(acl', bypass', paused', rewrites', Busy("bypass")', hook.client)
  <1>1. hook \in HookFrame
    BY DEF FpInvariant, FpTypeOK, HookFrame, HookStep
  <1>2. more \subseteq Ground
    BY GroundsTyped
  <1>3. hook' = IF hook.pc = "idle" THEN hook ELSE [hook EXCEPT !.since = @ \cup more]
    BY DEF Witness
  <1>4. /\ hook' \in HookFrame
        /\ hook'.pc = hook.pc /\ hook'.client = hook.client /\ hook'.kind = hook.kind
        /\ hook.since \subseteq hook'.since
        /\ hook.pc # "idle" => more \subseteq hook'.since
    <2> HIDE DEF more
    <2> QED BY <1>1, <1>2, <1>3 DEF HookFrame
  <1>5. FpInv'
    BY <1>4 DEF FpInvariant, FpInv
  <1> QED BY <1>4, <1>5

\* The hook moves on, and has gathered what the new place asks for.
LEMMA GoesKeeps ==
    ASSUME FpInvariant, NEW pc \in HookStep, NEW q \in HookFrame, Goes(pc, q),
           Grounds(acl, bypass, paused, rewrites, Busy("bypass"), q.client) \subseteq q.since,
           pc \in {"pause", "bypass", "rewrite", "probe", "answer"} => "permitted" \in q.since,
           pc \in {"bypass", "rewrite", "probe", "answer"} => "unpaused" \in q.since,
           pc \in {"rewrite", "probe", "answer"} => "filtered" \in q.since,
           pc \in {"probe", "answer"} /\ q.kind = "A" => "plain" \in q.since
    PROVE  FpInvariant'
  <1>1. CASE pc = "idle"
    <2>1. hook' \in HookFrame /\ hook'.pc = "idle"
      BY <1>1, NoFrameTyped DEF Goes
    <2> QED BY <2>1 DEF Goes, tables, FpInvariant, FpTypeOK, FpInv, HookFrame, HookStep
  <1>2. CASE pc # "idle"
    <2>1. /\ hook' \in HookFrame
          /\ hook'.pc = pc /\ hook'.client = q.client /\ hook'.kind = q.kind
          /\ hook'.since = q.since
      BY <1>2 DEF Goes, HookFrame
    <2>2. UNCHANGED <<acl, bypass, paused, rewrites, editing, asking, edits>>
      BY DEF Goes, tables
    <2>3. FpTypeOK'
      BY <2>1, <2>2 DEF FpInvariant, FpTypeOK, HookFrame, HookStep
    <2>4. FpInv'
      BY <2>1, <2>2 DEF FpInv, Busy
    <2> QED BY <2>3, <2>4 DEF FpInvariant
  <1> QED BY <1>1, <1>2

\* The steps of the web task and of dns_task, which hold and edit the tables.
LEMMA EditingKeeps ==
    ASSUME FpInvariant,
           \/ \E t \in Table : BeginEdit(t) \/ Listing(t) \/ DnsTakes(t)
           \/ Edit \/ EndEdit \/ SetPause \/ DnsGives
    PROVE  FpInvariant'
  <1>1. CASE \E t \in Table : BeginEdit(t) \/ Listing(t) \/ DnsTakes(t)
    <2>1. PICK t \in Table : BeginEdit(t) \/ Listing(t) \/ DnsTakes(t)
      BY <1>1
    <2>2. Witness /\ UNCHANGED tables
      BY <2>1 DEF BeginEdit, Listing, DnsTakes
    <2>3. hook' \in HookFrame /\ FpInv'
      BY <2>2, WitnessKeeps
    <2>4. /\ editing' \in [table : Table \cup {"none"}, done : BOOLEAN]
          /\ asking' \in Table \cup {"none"}
          /\ edits' \in 0 .. MaxEdits
      <3>1. \A d \in BOOLEAN : [table |-> t, done |-> d] \in [table : Table \cup {"none"}, done : BOOLEAN]
        OBVIOUS
      <3>2. CASE BeginEdit(t)
        <4>1. edits' \in 0 .. MaxEdits
          BY <3>2, LanAssumption DEF BeginEdit, FpInvariant, FpTypeOK
        <4> QED BY <3>1, <3>2, <4>1 DEF BeginEdit, FpInvariant, FpTypeOK
      <3>3. CASE Listing(t)
        BY <3>1, <3>3 DEF Listing, FpInvariant, FpTypeOK
      <3>4. CASE DnsTakes(t)
        BY <3>4 DEF DnsTakes, FpInvariant, FpTypeOK
      <3> QED BY <2>1, <3>2, <3>3, <3>4
    <2> QED BY <2>2, <2>3, <2>4 DEF tables, FpInvariant, FpTypeOK, HookFrame, HookStep
  <1>2. CASE Edit
    <2>1. hook' \in HookFrame /\ FpInv'
      BY <1>2, WitnessKeeps DEF Edit
    <2>2. editing' \in [table : Table \cup {"none"}, done : BOOLEAN]
      BY <1>2 DEF Edit, FpInvariant, FpTypeOK
    <2>3. acl' \subseteq Lan /\ bypass' \subseteq Lan /\ paused' \subseteq Lan
          /\ rewrites' \subseteq {"name", "other"}
      BY <1>2 DEF Edit, Edited, FpInvariant, FpTypeOK
    <2> QED BY <1>2, <2>1, <2>2, <2>3 DEF Edit, FpInvariant, FpTypeOK, HookFrame, HookStep
  <1>3. CASE EndEdit \/ DnsGives
    <2>1. /\ \/ editing' = Unlocked /\ asking' = asking
             \/ editing' = editing /\ asking' = "none"
          /\ UNCHANGED <<acl, bypass, paused, rewrites, edits, hook>>
      BY <1>3 DEF EndEdit, DnsGives, tables
    <2>2. FpTypeOK'
      <3>1. Unlocked \in [table : Table \cup {"none"}, done : BOOLEAN]
        BY DEF Unlocked
      <3> QED BY <2>1, <3>1 DEF FpInvariant, FpTypeOK
    <2>3. Grounds(acl, bypass, paused, rewrites, Busy("bypass")', hook.client)
              \subseteq Grounds(acl, bypass, paused, rewrites, Busy("bypass"), hook.client)
      BY <2>1 DEF Grounds, Unlocked, Busy
    <2>4. FpInv'
      BY <2>1, <2>3 DEF FpInvariant, FpInv
    <2> QED BY <2>2, <2>4 DEF FpInvariant
  <1>4. CASE SetPause
    <2>1. hook' \in HookFrame /\ FpInv'
      BY <1>4, WitnessKeeps DEF SetPause
    <2>2. paused' \subseteq Lan
      BY <1>4 DEF SetPause, Edited, FpInvariant, FpTypeOK
    <2> QED BY <1>4, <2>1, <2>2, LanAssumption
            DEF SetPause, FpInvariant, FpTypeOK, HookFrame, HookStep
  <1> QED BY <1>1, <1>2, <1>3, <1>4

\* The hook's steps: each question passed leaves its ground behind.
LEMMA HookKeeps == ASSUME FpInvariant, Hook PROVE FpInvariant'
  <1>0. /\ hook \in HookFrame
        /\ hook.pc # "idle" => Grounds(acl, bypass, paused, rewrites, Busy("bypass"), hook.client) \subseteq hook.since
    BY DEF FpInvariant, FpTypeOK, FpInv, HookFrame, HookStep
  <1>1. ASSUME NEW c \in Lan, NEW k \in Kind, Frame(c, k) PROVE FpInvariant'
    <2> DEFINE since == Grounds(acl, bypass, paused, rewrites, Busy("bypass"), c)
               q == [pc |-> "acl", client |-> c, kind |-> k, since |-> since]
    <2>1. q \in HookFrame /\ q.client = c /\ q.since = since
      BY GroundsTyped DEF HookFrame, HookStep
    <2>2. Goes("acl", q)
      BY <1>1 DEF Frame
    <2> HIDE DEF q
    <2> QED BY <2>1, <2>2, GoesKeeps DEF HookStep
  <1>2. CASE AskAcl
    <2>1. Permits(hook.client) => "permitted" \in Grounds(acl, bypass, paused, rewrites, Busy("bypass"), hook.client)
      BY DEF Permits, Grounds
    <2> QED BY <1>0, <1>2, <2>1, GoesKeeps DEF AskAcl, HookStep
  <1>3. CASE AskPause
    <2>1. hook.client \notin paused =>
              "unpaused" \in Grounds(acl, bypass, paused, rewrites, Busy("bypass"), hook.client)
      BY DEF Grounds
    <2> QED BY <1>0, <1>3, <2>1, GoesKeeps DEF AskPause, HookStep, FpInvariant, FpInv
  <1>4. CASE AskBypass
    <2>1. ~Bypassed(hook.client) =>
              "filtered" \in Grounds(acl, bypass, paused, rewrites, Busy("bypass"), hook.client)
      BY DEF Bypassed, Busy, Grounds
    <2> QED BY <1>0, <1>4, <2>1, GoesKeeps DEF AskBypass, HookStep, FpInvariant, FpInv
  <1>5. CASE AskRewrite
    <2>1. ~MayBeRewritten =>
              "plain" \in Grounds(acl, bypass, paused, rewrites, Busy("bypass"), hook.client)
      BY DEF MayBeRewritten, Busy, Grounds
    <2> QED BY <1>0, <1>5, <2>1, GoesKeeps DEF AskRewrite, HookStep, FpInvariant, FpInv
  <1>6. CASE Probe \/ Answer
    BY <1>0, <1>6, GoesKeeps DEF Probe, Answer, HookStep, FpInvariant, FpInv
  <1> QED BY <1>1, <1>2, <1>3, <1>4, <1>5, <1>6 DEF Hook

LEMMA FpInitially == FpInit => FpInvariant
  BY NoFrameTyped, LanAssumption
     DEF FpInit, FpInvariant, FpTypeOK, FpInv, HookFrame, HookStep, Unlocked

LEMMA FpKeeps == FpInvariant /\ [FpNext]_fpVars => FpInvariant'
  <1> SUFFICES ASSUME FpInvariant, [FpNext]_fpVars PROVE FpInvariant'
    OBVIOUS
  <1>1. CASE FpNext
    BY <1>1, EditingKeeps, HookKeeps DEF FpNext
  <1>2. CASE UNCHANGED fpVars
    BY <1>2 DEF fpVars, FpInvariant, FpTypeOK, FpInv, Busy
  <1> QED BY <1>1, <1>2

\* The inductive invariant of the hook.
LEMMA FpAlways == FpSpec => []FpInvariant
  BY FpInitially, FpKeeps, PTL DEF FpSpec

\* dns_sink.cpp, l2_input_cb: what the hook answers by itself rests on what was true
\* during its call, whoever held, edited or listed the tables: the client permitted, not
\* paused, and not bypassed unless the bypass list was held; and the name not rewritten.
THEOREM HookIsGrounded == FpSpec => []HookAnswerIsGrounded
  <1>1. FpInvariant => HookAnswerIsGrounded
    BY DEF FpInvariant, FpInv, HookAnswerIsGrounded
  <1> QED BY <1>1, FpAlways, PTL

\* eth_l2_hook.c: every reachable state of the hook and of the tables it reads is
\* well typed.
THEOREM FastPathTypeCorrect == FpSpec => []FpTypeOK
  <1>1. FpInvariant => FpTypeOK
    BY DEF FpInvariant
  <1> QED BY <1>1, FpInitially, FpKeeps, PTL DEF FpSpec


-----------------------------------------------------------------------------
(***************************************************************************)
(* A pause is honoured, and only while it lasts, whatever a call rewrites  *)
(* under the look. The look reads the expiry of a slot, its address and    *)
(* the expiry again; a call empties the slot, writes the address and       *)
(* publishes. So a look whose client is not paused sees the address of a   *)
(* slot only between the call's two last stores (SeeInv), and then finds   *)
(* the expiry changed; and every promise that stands is in a slot which    *)
(* the look has yet to pass (PromiseInv).                                  *)
(***************************************************************************)
\* The slot a call writes: emptied before its address changes, published last.
CallInv ==
    /\ call.pc \in {"empty", "address", "publish"} => call.expires > 0
    /\ call.pc = "empty" => pauseSlot[call.to].ip = call.ip \/ pauseSlot[call.to].expires = 0
    /\ call.pc \in {"address", "publish"} => pauseSlot[call.to].expires = 0
    /\ call.pc = "publish" => pauseSlot[call.to].ip = call.ip
    /\ call.pc = "sweep" /\ call.expires # 0 => pauseSlot[call.to] = [ip |-> call.ip, expires |-> call.expires]

Looking == look.pc \in {"gate", "first", "address", "second"}
Theirs == {look.client, All}

\* The call is writing the slot looked at, for the client looked for.
Writes(pcs) == call.pc \in pcs /\ call.to = look.at /\ call.ip \in Theirs

\* A look under which the client was not paused sees the address of its slot only
\* while a call is about to publish it.
SeeInv ==
    /\ look.now <= clock
    /\ Looking => PausedIn(pauseSlot, look.now, look.client) \in look.since
    /\ look.pc = "yes" => TRUE \in look.since
    /\ look.pc \in {"address", "second"} => look.e1 > look.now
    /\ look.pc \in {"address", "second"} /\ TRUE \notin look.since =>
         /\ Writes({"empty", "address", "publish"}) => call.expires > look.now
         /\ look.pc = "address" /\ pauseSlot[look.at].ip \in Theirs => Writes({"publish"})
         /\ look.pc = "second" /\ look.ip \in Theirs => Writes({"publish"})

Holds(i, h) == pauseSlot[i] = [ip |-> h, expires |-> until[h]]

\* The call has taken back what was promised, and promises anew when it returns.
Retaken(h) == call.pc \in {"address", "publish", "sweep"} /\ call.expires # 0 /\ call.ip = h

\* A promise that stands is in a slot, and one the look owes an answer to is in a
\* slot it has yet to pass.
PromiseInv ==
    /\ \A h \in Addr : until[h] > clock /\ ~Retaken(h) => armed > 0 /\ \E i \in PauseSlot : Holds(i, h)
    /\ look.pc \in {"idle", "no"} => due = {}
    /\ look.pc = "gate" => look.at = 1
    /\ \A h \in due : /\ h \in Theirs /\ until[h] > clock /\ ~Retaken(h)
                      /\ look.pc = "first" => \E i \in PauseSlot : Holds(i, h) /\ i >= look.at
                      /\ look.pc \in {"address", "second"} =>
                           \E i \in PauseSlot :
                              /\ Holds(i, h) /\ i >= look.at
                              /\ i = look.at => /\ look.e1 = until[h]
                                                /\ look.pc = "second" => look.ip = h

PtInv == PtTypeOK /\ CallInv /\ SeeInv /\ PromiseInv

-----------------------------------------------------------------------------
\* The sizes, and the slots counted from one.
LEMMA PauseNumbers ==
    /\ PauseMax \in Nat \ {0} /\ MaxTime \in Nat \ {0} /\ MaxMinutes \in Nat /\ MaxCalls \in Nat
    /\ 1 \in PauseSlot /\ PauseSlot \subseteq Nat
    /\ \A i \in PauseSlot : i <= PauseMax /\ (i # PauseMax => i + 1 \in PauseSlot)
    /\ 0 \in Expiry /\ Expiry \subseteq Nat /\ All \in Addr /\ Host \subseteq Addr
  BY PauseAssumption DEF PauseSlot, Expiry, Addr

\* The slots, the call and the look, field by field.
LEMMA PauseFields ==
    ASSUME PtTypeOK
    PROVE  /\ \A i \in PauseSlot : /\ pauseSlot[i] \in SlotState
                                   /\ pauseSlot[i].ip \in Addr \cup {"none"}
                                   /\ pauseSlot[i].expires \in Expiry
                                   /\ pauseSlot[i].expires \in Nat
                                   /\ pauseSlot[i] = [ip |-> pauseSlot[i].ip, expires |-> pauseSlot[i].expires]
           /\ call.ip \in Addr /\ call.expires \in Expiry /\ call.expires \in Nat
           /\ call.to \in PauseSlot
           /\ look.client \in Host /\ look.now \in Nat /\ look.now \in 0 .. MaxTime
           /\ look.at \in PauseSlot
           /\ look.at \in Nat /\ look.e1 \in Expiry /\ look.e1 \in Nat
           /\ look.since \subseteq BOOLEAN
           /\ clock \in Nat /\ clock > 0 /\ armed \in Nat
           /\ \A h \in Addr : until[h] \in Expiry /\ until[h] \in Nat
  <1>1. \A i \in PauseSlot : pauseSlot[i] \in SlotState
    BY DEF PtTypeOK
  <1>2. \A t \in SlotState : t.ip \in Addr \cup {"none"} /\ t.expires \in Expiry
                             /\ t = [ip |-> t.ip, expires |-> t.expires]
    BY DEF SlotState
  <1>3. call.ip \in Addr /\ call.expires \in Expiry /\ call.to \in PauseSlot
    BY DEF PtTypeOK, CallState
  <1>4. /\ look.client \in Host /\ look.now \in 0 .. MaxTime /\ look.at \in PauseSlot
        /\ look.e1 \in Expiry
        /\ look.since \subseteq BOOLEAN
    BY DEF PtTypeOK, LookState
  <1>5. look.now \in Nat /\ clock \in Nat /\ clock > 0 /\ armed \in Nat
    BY <1>4, PauseNumbers DEF PtTypeOK
  <1>6. \A h \in Addr : until[h] \in Expiry
    BY DEF PtTypeOK
  <1> QED BY <1>1, <1>2, <1>3, <1>4, <1>5, <1>6, PauseNumbers

\* A sweep empties what has expired, and touches nothing else.
LEMMA SweptKeeps ==
    ASSUME PtTypeOK
    PROVE  /\ Swept(pauseSlot) \in [PauseSlot -> SlotState]
           /\ \A i \in PauseSlot : /\ Swept(pauseSlot)[i].ip = pauseSlot[i].ip
                                   /\ pauseSlot[i].expires > clock => Swept(pauseSlot)[i] = pauseSlot[i]
                                   /\ Swept(pauseSlot)[i].expires \in {0, pauseSlot[i].expires}
  <1>1. \A i \in PauseSlot : /\ [pauseSlot[i] EXCEPT !.expires = 0] \in SlotState
                             /\ [pauseSlot[i] EXCEPT !.expires = 0].ip = pauseSlot[i].ip
                             /\ [pauseSlot[i] EXCEPT !.expires = 0].expires = 0
    BY PauseNumbers DEF PtTypeOK, SlotState
  <1>2. \A i \in PauseSlot : pauseSlot[i] \in SlotState /\ pauseSlot[i].expires \in Nat /\ clock \in Nat
    BY PauseFields
  <1> QED BY <1>1, <1>2 DEF Swept

\* The gate is open while a slot runs.
LEMMA ArmedCounts ==
    ASSUME PtTypeOK, NEW table \in [PauseSlot -> SlotState]
    PROVE  /\ Armed(table) \in 0 .. PauseMax
           /\ \A i \in PauseSlot : table[i].expires > clock => Armed(table) > 0
  <1> DEFINE run == {i \in PauseSlot : table[i].expires > clock}
  <1>1. IsFiniteSet(PauseSlot) /\ Cardinality(PauseSlot) = PauseMax
    BY FS_Interval, PauseNumbers DEF PauseSlot
  <1>2. IsFiniteSet(run) /\ Cardinality(run) <= PauseMax /\ Cardinality(run) \in Nat
    BY <1>1, FS_Subset, FS_CardinalityType
  <1>3. run # {} => Cardinality(run) # 0
    BY <1>2, FS_EmptySet
  <1>4. Armed(table) = Cardinality(run)
    BY DEF Armed
  <1>5. \A i \in PauseSlot : table[i].expires > clock => run # {}
    OBVIOUS
  <1> HIDE DEF run
  <1>6. \A n \in Nat : n # 0 => n > 0
    OBVIOUS
  <1> QED BY <1>2, <1>3, <1>4, <1>5, <1>6, PauseNumbers

\* What a step of the web task does to the look in progress.
LEMMA SeeMoves ==
    ASSUME PtTypeOK, SeeWhetherPaused
    PROVE  /\ look' \in LookState
           /\ look'.pc = look.pc /\ look'.client = look.client /\ look'.now = look.now
           /\ look'.at = look.at
           /\ look'.e1 = look.e1 /\ look'.ip = look.ip
           /\ look.since \subseteq look'.since
           /\ Looking => PausedIn(pauseSlot', look.now, look.client) \in look'.since
  <1> DEFINE p == PausedIn(pauseSlot', look.now, look.client)
             r == [look EXCEPT !.since = look.since \cup {p}]
  <1>1. p \in BOOLEAN
    BY DEF PausedIn
  <1> HIDE DEF p
  <1>2. look \in LookState
    BY DEF PtTypeOK
  <1>3. look' = IF look.pc \in {"idle", "yes", "no"} THEN look ELSE r
    BY DEF SeeWhetherPaused, p
  <1>4. /\ r \in LookState
        /\ r.pc = look.pc /\ r.client = look.client /\ r.now = look.now /\ r.at = look.at
        /\ r.e1 = look.e1 /\ r.ip = look.ip
        /\ r.since = look.since \cup {p}
    BY <1>1, <1>2 DEF LookState
  <1> HIDE DEF r
  <1>5. CASE look.pc \in {"idle", "yes", "no"}
    BY <1>2, <1>3, <1>5 DEF Looking
  <1>6. CASE look.pc \notin {"idle", "yes", "no"}
    BY <1>3, <1>4, <1>6 DEF p
  <1> QED BY <1>5, <1>6

\* What a step of the web task must not do to a look in progress, for the look to
\* stay right.
LEMMA SeeKeeps ==
    ASSUME PtInv, SeeWhetherPaused, UNCHANGED clock,
           look.pc \in {"address", "second"} /\ TRUE \notin look.since
                /\ ~PausedIn(pauseSlot', look.now, look.client) =>
              /\ call'.pc \in {"empty", "address", "publish"} /\ call'.to = look.at /\ call'.ip \in Theirs =>
                    call'.expires > look.now
              /\ look.pc = "address" /\ pauseSlot'[look.at].ip \in Theirs =>
                    call'.pc = "publish" /\ call'.to = look.at /\ call'.ip \in Theirs
              /\ look.pc = "second" /\ look.ip \in Theirs =>
                    call'.pc = "publish" /\ call'.to = look.at /\ call'.ip \in Theirs
    PROVE  SeeInv'
  <1>1. /\ look'.pc = look.pc /\ look'.client = look.client /\ look'.now = look.now
        /\ look'.at = look.at
        /\ look'.e1 = look.e1 /\ look'.ip = look.ip
        /\ look.since \subseteq look'.since
        /\ Looking => PausedIn(pauseSlot', look.now, look.client) \in look'.since
    BY SeeMoves DEF PtInv
  <1>2. /\ PausedIn(pauseSlot', look.now, look.client) \in BOOLEAN /\ Theirs' = Theirs
        /\ Looking' = Looking
    BY <1>1 DEF PausedIn, Theirs, Looking
  <1>3. look'.now <= clock' /\ (look'.pc = "yes" => TRUE \in look'.since)
        /\ (look'.pc \in {"address", "second"} => look'.e1 > look'.now)
    BY <1>1 DEF PtInv, SeeInv
  <1>4. PausedIn(pauseSlot', look'.now, look'.client) = PausedIn(pauseSlot', look.now, look.client)
    BY <1>1
  <1>5. Looking' => PausedIn(pauseSlot', look'.now, look'.client) \in look'.since
    BY <1>1, <1>2, <1>4
  <1>6. look'.pc \in {"address", "second"} /\ TRUE \notin look'.since =>
           TRUE \notin look.since /\ ~PausedIn(pauseSlot', look.now, look.client)
    BY <1>1, <1>2 DEF Looking
  <1>7. look'.pc \in {"address", "second"} /\ TRUE \notin look'.since =>
         /\ Writes({"empty", "address", "publish"})' => call'.expires > look'.now
         /\ look'.pc = "address" /\ pauseSlot'[look'.at].ip \in Theirs' => Writes({"publish"})'
         /\ look'.pc = "second" /\ look'.ip \in Theirs' => Writes({"publish"})'
    BY <1>1, <1>2, <1>6 DEF Writes
  <1> QED BY <1>3, <1>5, <1>7 DEF SeeInv

\* A step that keeps the slots the look's promises are in keeps the promises.
LEMMA PromiseKeeps ==
    ASSUME PtInv, PtTypeOK',
           /\ look'.pc = look.pc /\ look'.client = look.client /\ look'.at = look.at
           /\ look'.e1 = look.e1 /\ look'.ip = look.ip,
           \A h \in Addr : until'[h] > clock' /\ ~Retaken(h)' => armed' > 0 /\ \E i \in PauseSlot : Holds(i, h)',
           due' \subseteq due,
           \A h \in due' : until'[h] = until[h] /\ until[h] > clock' /\ ~Retaken(h)',
           \A h \in due' : \A i \in PauseSlot : Holds(i, h) => pauseSlot'[i] = pauseSlot[i]
    PROVE  PromiseInv'
  <1>1. \A h \in due' : \A i \in PauseSlot : Holds(i, h) => Holds(i, h)'
    BY DEF Holds
  <1>2. Theirs' = Theirs
    BY DEF Theirs
  <1>3. ASSUME NEW h \in due'
        PROVE  /\ h \in Theirs' /\ until'[h] > clock' /\ ~Retaken(h)'
               /\ look'.pc = "first" => \E i \in PauseSlot : Holds(i, h)' /\ i >= look'.at
               /\ look'.pc \in {"address", "second"} =>
                    \E i \in PauseSlot : /\ Holds(i, h)' /\ i >= look'.at
                                         /\ i = look'.at => /\ look'.e1 = until'[h]
                                                            /\ look'.pc = "second" => look'.ip = h
    <2>1. h \in due /\ until'[h] = until[h]
      BY <1>3
    <2>2. h \in Theirs' /\ until'[h] > clock' /\ ~Retaken(h)'
      BY <1>2, <2>1 DEF PtInv, PromiseInv
    <2>3. look'.pc = "first" => \E i \in PauseSlot : Holds(i, h)' /\ i >= look'.at
      BY <1>1, <2>1 DEF PtInv, PromiseInv
    <2>4. ASSUME look'.pc \in {"address", "second"}
          PROVE  \E i \in PauseSlot : /\ Holds(i, h)' /\ i >= look'.at
                                      /\ i = look'.at => /\ look'.e1 = until'[h]
                                                         /\ look'.pc = "second" => look'.ip = h
      <3>1. PICK i \in PauseSlot : /\ Holds(i, h) /\ i >= look.at
                                   /\ i = look.at => /\ look.e1 = until[h]
                                                     /\ look.pc = "second" => look.ip = h
        BY <2>1, <2>4 DEF PtInv, PromiseInv
      <3> QED BY <1>1, <1>3, <2>1, <3>1
    <2> QED BY <2>2, <2>3, <2>4
  <1>4. (look'.pc \in {"idle", "no"} => due' = {}) /\ (look'.pc = "gate" => look'.at = 1)
    BY DEF PtInv, PromiseInv
  <1> QED BY <1>3, <1>4 DEF PromiseInv

-----------------------------------------------------------------------------
\* No call under way is a state of the web task.
LEMMA NoCallTyped == NoCall \in CallState /\ NoCall.pc = "idle" /\ NoCall.expires = 0
  BY PauseNumbers DEF NoCall, CallState

\* No look under way is a state of dns_task.
LEMMA NoLookTyped == NoLook \in LookState /\ NoLook.pc = "idle" /\ NoLook.now = 0 /\ NoLook.at = 1
  <1>1. (CHOOSE h \in Host : TRUE) \in Host
    BY PauseAssumption
  <1> DEFINE c == CHOOSE h \in Host : TRUE
  <1> HIDE DEF c
  <1>2. c \in Host
    BY <1>1 DEF c
  <1>3. 0 \in 0 .. MaxTime
    BY PauseNumbers
  <1>4. NoLook = [pc |-> "idle", client |-> c, now |-> 0, at |-> 1, e1 |-> 0, ip |-> "none", since |-> {}]
    BY DEF NoLook, c
  <1> QED BY <1>2, <1>3, <1>4, PauseNumbers DEF LookState

LEMMA PtInitHolds == PtInit => PtInv
  <1> SUFFICES ASSUME PtInit PROVE PtInv
    OBVIOUS
  <1>1. /\ call = NoCall /\ look = NoLook /\ clock = 1 /\ armed = 0 /\ calls = 0 /\ due = {}
        /\ pauseSlot = [i \in PauseSlot |-> [ip |-> "none", expires |-> 0]]
        /\ until = [h \in Addr |-> 0]
    BY DEF PtInit
  <1>2. [ip |-> "none", expires |-> 0] \in SlotState
    BY PauseNumbers DEF SlotState
  <1>3. pauseSlot \in [PauseSlot -> SlotState] /\ until \in [Addr -> Expiry] /\ \A h \in Addr : until[h] = 0
    BY <1>1, <1>2, PauseNumbers
  <1>4. PtTypeOK
    BY <1>1, <1>3, NoCallTyped, NoLookTyped, PauseNumbers DEF PtTypeOK
  <1>5. CallInv
    BY <1>1, NoCallTyped DEF CallInv
  <1>6. SeeInv
    BY <1>1, NoLookTyped DEF SeeInv, Looking
  <1>7. PromiseInv
    BY <1>1, <1>3, NoLookTyped DEF PromiseInv
  <1> QED BY <1>4, <1>5, <1>6, <1>7 DEF PtInv

LEMMA PtTickKeeps == ASSUME PtInv, PtTick PROVE PtInv'
  <1>1. /\ clock < MaxTime /\ clock' = clock + 1 /\ due' = {h \in due : until[h] > clock'}
        /\ UNCHANGED <<pauseSlot, armed, call, calls, look, until>>
    BY DEF PtTick
  <1>2. clock' \in 1 .. MaxTime /\ clock' > clock /\ clock \in Nat /\ clock' \in Nat
    BY <1>1, PauseNumbers DEF PtInv, PtTypeOK
  <1>3. PtTypeOK'
    BY <1>1, <1>2 DEF PtInv, PtTypeOK
  <1>4. CallInv'
    BY <1>1 DEF PtInv, CallInv
  <1>5. look.now <= clock'
    BY <1>2, PauseFields DEF PtInv, SeeInv
  <1>6. SeeInv'
    BY <1>1, <1>5 DEF PtInv, SeeInv, Looking, Theirs, Writes, PausedIn
  <1>7. \A h \in Addr : until'[h] > clock' /\ ~Retaken(h)' => armed' > 0 /\ \E i \in PauseSlot : Holds(i, h)'
    <2>1. \A h \in Addr : until[h] > clock' => until[h] > clock
      BY <1>2, PauseFields DEF PtInv
    <2> QED BY <1>1, <2>1 DEF PtInv, PromiseInv, Retaken, Holds
  <1>8. \A h \in due' : until'[h] = until[h] /\ until[h] > clock' /\ ~Retaken(h)'
    BY <1>1 DEF PtInv, PromiseInv, Retaken
  <1>9. PromiseInv'
    BY <1>1, <1>3, <1>7, <1>8, PromiseKeeps
  <1> QED BY <1>3, <1>4, <1>6, <1>9 DEF PtInv

\* A promise in a slot that runs is in the table after a sweep.
LEMMA SweptHolds ==
    ASSUME PtTypeOK, NEW h \in Addr, until[h] > clock, NEW i \in PauseSlot, Holds(i, h)
    PROVE  Swept(pauseSlot)[i] = pauseSlot[i] /\ pauseSlot[i].expires > clock /\ pauseSlot[i].expires # 0
           /\ pauseSlot[i].ip = h /\ pauseSlot[i].expires = until[h]
  <1>1. pauseSlot[i].expires = until[h] /\ pauseSlot[i].ip = h
    BY DEF Holds
  <1>2. pauseSlot[i].expires > clock /\ pauseSlot[i].expires # 0
    BY <1>1, PauseFields
  <1> QED BY <1>1, <1>2, SweptKeeps

\* pause_set finds the client's slot, a free one or the one that ends first.
LEMMA SetBeginKeeps == ASSUME PtInv, NEW h \in Addr, NEW minutes \in 1 .. MaxMinutes, SetBegin(h, minutes)
                       PROVE  PtInv'
  <1> DEFINE table == Swept(pauseSlot)
             own == {i \in PauseSlot : table[i].expires # 0 /\ table[i].ip = h}
             free == {i \in PauseSlot : table[i].expires = 0}
             Lowest(set) == CHOOSE i \in set : \A j \in set : i <= j
             to == IF own # {} THEN Lowest(own) ELSE Lowest(free)
  <1>1. /\ call.pc = "idle" /\ calls < MaxCalls /\ calls' = calls + 1
        /\ pauseSlot' = table /\ armed' = Armed(table)
        /\ call' = IF own \cup free = {} THEN [NoCall EXCEPT !.pc = "sweep"]
                   ELSE [pc |-> "empty", ip |-> h, expires |-> clock + minutes, to |-> to]
        /\ SeeWhetherPaused
        /\ UNCHANGED <<clock, until, due>>
    BY DEF SetBegin, PauseBegins
  <1>2. /\ table \in [PauseSlot -> SlotState]
        /\ \A i \in PauseSlot : /\ table[i].ip = pauseSlot[i].ip
                                /\ table[i].expires \in {0, pauseSlot[i].expires}
    BY SweptKeeps DEF PtInv
  <1>3. own \cup free # {} => to \in own \cup free
    <2>1. \A S \in SUBSET PauseSlot : S # {} => Lowest(S) \in S
      <3> TAKE S \in SUBSET PauseSlot
      <3>1. S # {} => \E i \in S : \A j \in S : i <= j
        BY HasLeast, PauseNumbers
      <3> QED BY <3>1
    <2>2. own \in SUBSET PauseSlot /\ free \in SUBSET PauseSlot
      OBVIOUS
    <2> HIDE DEF own, free, Lowest
    <2> QED BY <2>1, <2>2
  <1>4. clock + minutes \in Expiry /\ clock + minutes > clock /\ clock + minutes > 0
    BY PauseNumbers DEF PtInv, PtTypeOK, Expiry
  <1>5. \/ call' = [NoCall EXCEPT !.pc = "sweep"] /\ call'.pc = "sweep" /\ call'.expires = 0
        \/ /\ call'.pc = "empty" /\ call'.expires = clock + minutes /\ call'.ip = h
           /\ call'.to \in own \cup free
    BY <1>1, <1>3, NoCallTyped DEF CallState, NoCall
  <1>6. call' \in CallState
    <2>1. [NoCall EXCEPT !.pc = "sweep"] \in CallState
      BY NoCallTyped DEF CallState
    <2>2. own \cup free # {} => [pc |-> "empty", ip |-> h, expires |-> clock + minutes, to |-> to] \in CallState
      BY <1>3, <1>4 DEF CallState
    <2> HIDE DEF to, own, free
    <2> QED BY <1>1, <2>1, <2>2
  <1> HIDE DEF table, to
  <1>7. PtTypeOK'
    <2>1. Armed(table) \in 0 .. PauseMax
      BY <1>2, ArmedCounts DEF PtInv
    <2>2. calls' \in 0 .. MaxCalls
      BY <1>1, PauseNumbers DEF PtInv, PtTypeOK
    <2>3. look' \in LookState
      BY <1>1, SeeMoves DEF PtInv
    <2> QED BY <1>1, <1>2, <1>6, <2>1, <2>2, <2>3 DEF PtInv, PtTypeOK
  <1>8. CallInv'
    BY <1>1, <1>4, <1>5 DEF CallInv, table
  <1>9. SeeInv'
    <2>1. look.pc \in {"address", "second"} /\ TRUE \notin look.since =>
             /\ look.pc = "address" => pauseSlot'[look.at].ip \notin Theirs
             /\ look.pc = "second" => look.ip \notin Theirs
      BY <1>1, <1>2, PauseFields DEF PtInv, SeeInv, Writes
    <2>2. call'.pc = "empty" => call'.expires > look.now
      BY <1>4, <1>5, PauseFields DEF PtInv, SeeInv
    <2> QED BY <1>1, <1>5, <2>1, <2>2, SeeKeeps
  <1>10. \A g \in Addr : ~Retaken(g) /\ ~Retaken(g)'
    BY <1>1, <1>5 DEF Retaken
  <1>11. \A g \in Addr : \A i \in PauseSlot :
            until[g] > clock /\ Holds(i, g) => pauseSlot'[i] = pauseSlot[i] /\ armed' > 0
    <2> TAKE g \in Addr
    <2> TAKE i \in PauseSlot
    <2> HAVE until[g] > clock /\ Holds(i, g)
    <2>1. table[i] = pauseSlot[i] /\ pauseSlot[i].expires > clock
      BY SweptHolds DEF PtInv, table
    <2>2. Armed(table) > 0
      BY <1>2, <2>1, ArmedCounts DEF PtInv
    <2> QED BY <1>1, <2>1, <2>2
  <1>12. \A g \in Addr : until'[g] > clock' /\ ~Retaken(g)' => armed' > 0 /\ \E i \in PauseSlot : Holds(i, g)'
    BY <1>1, <1>10, <1>11 DEF PtInv, PromiseInv, Holds
  <1>13. due \subseteq Addr /\ \A g \in due : until[g] > clock
    BY DEF PtInv, PtTypeOK, PromiseInv
  <1>14. PromiseInv'
    BY <1>1, <1>7, <1>10, <1>11, <1>12, <1>13, SeeMoves, PromiseKeeps DEF PtInv
  <1> QED BY <1>7, <1>8, <1>9, <1>14 DEF PtInv

\* The three stores touch one slot, which holds no promise but, before the first of
\* them, one to the same address.
LEMMA StoreKeepsPromises ==
    ASSUME PtInv, PtTypeOK', call.pc \in {"empty", "address", "publish"}, SeeWhetherPaused,
           UNCHANGED <<armed, clock, until>>, due' \subseteq due,
           call'.pc \in {"address", "publish", "sweep"}, call'.ip = call.ip, call'.expires = call.expires,
           call.pc = "empty" => call.ip \notin due',
           \A i \in PauseSlot : i # call.to => pauseSlot'[i] = pauseSlot[i]
    PROVE  PromiseInv'
  <1>1. call.expires # 0 /\ call.to \in PauseSlot /\ call.ip \in Addr
    BY PauseFields DEF PtInv, CallInv
  <1>2. \A g \in Addr : Retaken(g)' <=> call.ip = g
    BY <1>1 DEF Retaken
  <1>3. \A g \in Addr : \A i \in PauseSlot :
           until[g] > clock /\ ~Retaken(g)' /\ Holds(i, g) => pauseSlot'[i] = pauseSlot[i]
    <2> TAKE g \in Addr
    <2> TAKE i \in PauseSlot
    <2> HAVE until[g] > clock /\ ~Retaken(g)' /\ Holds(i, g)
    <2>1. pauseSlot[i].expires # 0 /\ pauseSlot[i].ip = g
      BY SweptHolds DEF PtInv
    <2>2. i # call.to
      BY <1>2, <2>1 DEF PtInv, CallInv
    <2> QED BY <2>2
  <1>4. \A g \in Addr : until'[g] > clock' /\ ~Retaken(g)' => armed' > 0 /\ \E i \in PauseSlot : Holds(i, g)'
    <2>1. \A g \in Addr : ~Retaken(g)' => ~Retaken(g)
      BY <1>2 DEF Retaken
    <2> QED BY <1>3, <2>1 DEF PtInv, PromiseInv, Holds
  <1>5. due \subseteq Addr /\ \A g \in due : until[g] > clock /\ ~Retaken(g)
    BY DEF PtInv, PtTypeOK, PromiseInv
  <1>6. \A g \in due' : ~Retaken(g)'
    <2>1. call.pc # "empty" => \A g \in Addr : Retaken(g)' <=> Retaken(g)
      BY <1>1, <1>2 DEF Retaken
    <2> QED BY <1>2, <1>5, <2>1
  <1> QED BY <1>3, <1>4, <1>5, <1>6, SeeMoves, PromiseKeeps DEF PtInv

LEMMA WriteEmptyKeeps == ASSUME PtInv, WriteEmpty PROVE PtInv'
  <1>1. /\ call.pc = "empty"
        /\ pauseSlot' = [pauseSlot EXCEPT ![call.to].expires = 0]
        /\ call' = [call EXCEPT !.pc = "address"]
        /\ due' = due \ {call.ip}
        /\ SeeWhetherPaused
        /\ UNCHANGED <<armed, clock, calls, until>>
    BY DEF WriteEmpty
  <1>2. call.to \in PauseSlot /\ look.at \in PauseSlot /\ look.now \in Nat
    BY PauseFields DEF PtInv
  <1> DEFINE t == [pauseSlot[call.to] EXCEPT !.expires = 0]
  <1>3. t \in SlotState /\ t.ip = pauseSlot[call.to].ip /\ t.expires = 0
    BY <1>2, PauseNumbers DEF PtInv, PtTypeOK, SlotState
  <1>4. pauseSlot' = [pauseSlot EXCEPT ![call.to] = t]
    BY <1>1
  <1> HIDE DEF t
  <1>5. /\ pauseSlot' \in [PauseSlot -> SlotState] /\ pauseSlot'[call.to] = t
        /\ \A i \in PauseSlot : i # call.to => pauseSlot'[i] = pauseSlot[i]
    BY <1>2, <1>3, <1>4 DEF PtInv, PtTypeOK
  <1>6. /\ call' \in CallState /\ call'.pc = "address" /\ call'.ip = call.ip
        /\ call'.expires = call.expires
        /\ call'.to = call.to
    BY <1>1 DEF PtInv, PtTypeOK, CallState
  <1>7. PtTypeOK'
    BY <1>1, <1>5, <1>6, SeeMoves DEF PtInv, PtTypeOK
  <1>8. CallInv'
    BY <1>1, <1>3, <1>5, <1>6 DEF PtInv, CallInv
  <1>9. SeeInv'
    <2>1. pauseSlot'[look.at].ip = pauseSlot[look.at].ip
      BY <1>2, <1>3, <1>5
    <2> QED BY <1>1, <1>6, <2>1, SeeKeeps DEF PtInv, SeeInv, Writes
  <1>10. PromiseInv'
    BY <1>1, <1>5, <1>6, <1>7, StoreKeepsPromises
  <1> QED BY <1>7, <1>8, <1>9, <1>10 DEF PtInv

LEMMA WriteAddressKeeps == ASSUME PtInv, WriteAddress PROVE PtInv'
  <1>1. /\ call.pc = "address"
        /\ pauseSlot' = [pauseSlot EXCEPT ![call.to].ip = call.ip]
        /\ call' = [call EXCEPT !.pc = "publish"]
        /\ SeeWhetherPaused
        /\ UNCHANGED <<armed, clock, calls, until, due>>
    BY DEF WriteAddress
  <1>2. call.to \in PauseSlot /\ call.ip \in Addr /\ look.at \in PauseSlot /\ look.now \in Nat
    BY PauseFields DEF PtInv
  <1> DEFINE t == [pauseSlot[call.to] EXCEPT !.ip = call.ip]
  <1>3. t \in SlotState /\ t.ip = call.ip /\ t.expires = pauseSlot[call.to].expires
    BY <1>2 DEF PtInv, PtTypeOK, SlotState
  <1>4. pauseSlot' = [pauseSlot EXCEPT ![call.to] = t]
    BY <1>1
  <1> HIDE DEF t
  <1>5. /\ pauseSlot' \in [PauseSlot -> SlotState] /\ pauseSlot'[call.to] = t
        /\ \A i \in PauseSlot : i # call.to => pauseSlot'[i] = pauseSlot[i]
    BY <1>2, <1>3, <1>4 DEF PtInv, PtTypeOK
  <1>6. /\ call' \in CallState /\ call'.pc = "publish" /\ call'.ip = call.ip
        /\ call'.expires = call.expires
        /\ call'.to = call.to
    BY <1>1 DEF PtInv, PtTypeOK, CallState
  <1>7. PtTypeOK'
    BY <1>1, <1>5, <1>6, SeeMoves DEF PtInv, PtTypeOK
  <1>8. CallInv'
    BY <1>1, <1>3, <1>5, <1>6 DEF PtInv, CallInv
  <1>9. SeeInv'
    <2>1. pauseSlot'[look.at].ip = IF look.at = call.to THEN call.ip ELSE pauseSlot[look.at].ip
      BY <1>2, <1>3, <1>5
    <2> QED BY <1>1, <1>6, <2>1, SeeKeeps DEF PtInv, SeeInv, Writes
  <1>10. PromiseInv'
    BY <1>1, <1>5, <1>6, <1>7, StoreKeepsPromises
  <1> QED BY <1>7, <1>8, <1>9, <1>10 DEF PtInv

LEMMA WriteExpiryKeeps == ASSUME PtInv, WriteExpiry PROVE PtInv'
  <1>1. /\ call.pc = "publish"
        /\ pauseSlot' = [pauseSlot EXCEPT ![call.to].expires = call.expires]
        /\ call' = [call EXCEPT !.pc = "sweep"]
        /\ SeeWhetherPaused
        /\ UNCHANGED <<armed, clock, calls, until, due>>
    BY DEF WriteExpiry
  <1>2. /\ call.to \in PauseSlot /\ call.expires \in Expiry /\ look.at \in PauseSlot
        /\ look.now \in Nat
    BY PauseFields DEF PtInv
  <1> DEFINE t == [pauseSlot[call.to] EXCEPT !.expires = call.expires]
  <1>3. t \in SlotState /\ t.ip = pauseSlot[call.to].ip /\ t.expires = call.expires
        /\ t = [ip |-> t.ip, expires |-> t.expires]
    BY <1>2 DEF PtInv, PtTypeOK, SlotState
  <1>4. pauseSlot' = [pauseSlot EXCEPT ![call.to] = t]
    BY <1>1
  <1> HIDE DEF t
  <1>5. /\ pauseSlot' \in [PauseSlot -> SlotState] /\ pauseSlot'[call.to] = t
        /\ \A i \in PauseSlot : i # call.to => pauseSlot'[i] = pauseSlot[i]
    BY <1>2, <1>3, <1>4 DEF PtInv, PtTypeOK
  <1>6. /\ call' \in CallState /\ call'.pc = "sweep" /\ call'.ip = call.ip
        /\ call'.expires = call.expires
        /\ call'.to = call.to
    BY <1>1 DEF PtInv, PtTypeOK, CallState
  <1>7. PtTypeOK'
    BY <1>1, <1>5, <1>6, SeeMoves DEF PtInv, PtTypeOK
  <1>8. CallInv'
    <2>1. t = [ip |-> call.ip, expires |-> call.expires]
      BY <1>1, <1>3 DEF PtInv, CallInv
    <2> QED BY <1>5, <1>6, <2>1 DEF CallInv
  <1>9. SeeInv'
    <2>1. ASSUME look.pc \in {"address", "second"}, TRUE \notin look.since,
                 ~PausedIn(pauseSlot', look.now, look.client)
          PROVE  /\ look.pc = "address" => pauseSlot'[look.at].ip \notin Theirs
                 /\ look.pc = "second" => look.ip \notin Theirs
      <3>1. ~Writes({"publish"})
        <4> SUFFICES ASSUME Writes({"publish"}) PROVE FALSE
          OBVIOUS
        <4>1. call.to = look.at /\ call.ip \in Theirs /\ Writes({"empty", "address", "publish"})
          BY DEF Writes
        <4>2. call.expires > look.now
          BY <2>1, <4>1 DEF PtInv, SeeInv
        <4>3. pauseSlot'[look.at].ip \in Theirs /\ pauseSlot'[look.at].expires > look.now
          BY <1>1, <1>3, <1>5, <4>1, <4>2 DEF PtInv, CallInv
        <4> QED BY <1>2, <2>1, <4>3 DEF PausedIn, Theirs
      <3>2. pauseSlot'[look.at].ip = pauseSlot[look.at].ip
        BY <1>2, <1>3, <1>5
      <3> QED BY <2>1, <3>1, <3>2 DEF PtInv, SeeInv
    <2> QED BY <1>1, <1>6, <2>1, SeeKeeps
  <1>10. PromiseInv'
    BY <1>1, <1>5, <1>6, <1>7, StoreKeepsPromises
  <1> QED BY <1>7, <1>8, <1>9, <1>10 DEF PtInv

LEMMA SweepKeeps == ASSUME PtInv, Sweep PROVE PtInv'
  <1> DEFINE table == Swept(pauseSlot)
  <1>1. /\ call.pc = "sweep" /\ pauseSlot' = table /\ armed' = Armed(pauseSlot) /\ call' = NoCall
        /\ until' = IF call.expires = 0 THEN until ELSE [until EXCEPT ![call.ip] = call.expires]
        /\ SeeWhetherPaused
        /\ UNCHANGED <<clock, calls, due>>
    BY DEF Sweep
  <1>2. call.ip \in Addr /\ call.expires \in Expiry /\ call.expires \in Nat /\ call.to \in PauseSlot
        /\ look.at \in PauseSlot
    BY PauseFields DEF PtInv
  <1>3. /\ table \in [PauseSlot -> SlotState]
        /\ \A i \in PauseSlot : /\ table[i].ip = pauseSlot[i].ip
                                /\ pauseSlot[i].expires > clock => table[i] = pauseSlot[i]
    BY SweptKeeps DEF PtInv
  <1> HIDE DEF table
  <1>4. /\ until' \in [Addr -> Expiry]
        /\ \A g \in Addr : until'[g] = IF call.expires # 0 /\ g = call.ip THEN call.expires ELSE until[g]
    BY <1>1, <1>2 DEF PtInv, PtTypeOK
  <1>5. PtTypeOK'
    <2>1. Armed(pauseSlot) \in 0 .. PauseMax
      BY ArmedCounts DEF PtInv, PtTypeOK
    <2> QED BY <1>1, <1>3, <1>4, <2>1, NoCallTyped, SeeMoves DEF PtInv, PtTypeOK
  <1>6. CallInv'
    BY <1>1, NoCallTyped DEF CallInv
  <1>7. SeeInv'
    <2>1. pauseSlot'[look.at].ip = pauseSlot[look.at].ip /\ call'.pc = "idle"
      BY <1>1, <1>2, <1>3, NoCallTyped
    <2>2. look.pc \in {"address", "second"} /\ TRUE \notin look.since =>
             /\ look.pc = "address" => pauseSlot[look.at].ip \notin Theirs
             /\ look.pc = "second" => look.ip \notin Theirs
      BY <1>1 DEF PtInv, SeeInv, Writes
    <2> QED BY <1>1, <2>1, <2>2, SeeKeeps
  <1>8. \A i \in PauseSlot : pauseSlot[i].expires > clock => pauseSlot'[i] = pauseSlot[i] /\ armed' > 0
    <2>1. \A i \in PauseSlot : pauseSlot[i].expires > clock => Armed(pauseSlot) > 0
      BY ArmedCounts DEF PtInv, PtTypeOK
    <2> QED BY <1>1, <1>3, <2>1
  <1>9. \A g \in Addr : \A i \in PauseSlot :
           until[g] > clock /\ Holds(i, g) => pauseSlot'[i] = pauseSlot[i] /\ armed' > 0
    BY <1>8, SweptHolds DEF PtInv
  <1>10. \A g \in Addr : until'[g] > clock' /\ ~Retaken(g)' => armed' > 0 /\ \E i \in PauseSlot : Holds(i, g)'
    <2> SUFFICES ASSUME NEW g \in Addr, until'[g] > clock
                 PROVE  armed' > 0 /\ \E i \in PauseSlot : Holds(i, g)'
      BY <1>1
    <2>1. CASE call.expires # 0 /\ g = call.ip
      <3>1. pauseSlot[call.to] = [ip |-> g, expires |-> until'[g]]
        BY <1>1, <1>4, <2>1 DEF PtInv, CallInv
      <3>2. pauseSlot[call.to].expires > clock
        BY <3>1
      <3>3. pauseSlot'[call.to] = pauseSlot[call.to] /\ armed' > 0
        BY <1>2, <1>8, <3>2
      <3> QED BY <1>2, <3>1, <3>3 DEF Holds
    <2>2. CASE ~(call.expires # 0 /\ g = call.ip)
      <3>1. until'[g] = until[g] /\ ~Retaken(g)
        BY <1>4, <2>2 DEF Retaken
      <3>2. PICK i \in PauseSlot : Holds(i, g)
        BY <3>1 DEF PtInv, PromiseInv
      <3>3. pauseSlot'[i] = pauseSlot[i] /\ armed' > 0
        BY <1>9, <3>1, <3>2
      <3> QED BY <3>1, <3>2, <3>3 DEF Holds
    <2> QED BY <2>1, <2>2
  <1>11. \A g \in due' : g \in Addr /\ until'[g] = until[g] /\ until[g] > clock /\ ~Retaken(g)'
    <2>1. \A g \in due : g \in Addr /\ until[g] > clock /\ ~Retaken(g)
      BY DEF PtInv, PtTypeOK, PromiseInv
    <2>2. \A g \in due : ~(call.expires # 0 /\ g = call.ip)
      BY <1>1, <2>1 DEF Retaken
    <2>3. \A g \in Addr : ~Retaken(g)'
      BY <1>1, NoCallTyped DEF Retaken
    <2> QED BY <1>1, <1>4, <2>1, <2>2, <2>3
  <1>12. PromiseInv'
    BY <1>1, <1>5, <1>9, <1>10, <1>11, SeeMoves, PromiseKeeps DEF PtInv
  <1> QED BY <1>5, <1>6, <1>7, <1>12 DEF PtInv

\* pause_clear takes the slots back at once.
LEMMA ClearKeeps == ASSUME PtInv, NEW addrs \in SUBSET Addr, Clear(addrs) PROVE PtInv'
  <1> DEFINE table == [i \in PauseSlot |->
            IF pauseSlot[i].ip \in addrs THEN [pauseSlot[i] EXCEPT !.expires = 0] ELSE Swept(pauseSlot)[i]]
  <1>1. /\ call.pc = "idle" /\ calls < MaxCalls /\ calls' = calls + 1
        /\ pauseSlot' = table /\ armed' = Armed(table)
        /\ until' = [h \in Addr |-> IF h \in addrs THEN 0 ELSE until[h]]
        /\ due' = due \ addrs
        /\ SeeWhetherPaused
        /\ UNCHANGED <<clock, call>>
    BY DEF Clear, PauseBegins
  <1>2. \A i \in PauseSlot : /\ [pauseSlot[i] EXCEPT !.expires = 0] \in SlotState
                             /\ [pauseSlot[i] EXCEPT !.expires = 0].ip = pauseSlot[i].ip
    BY PauseNumbers DEF PtInv, PtTypeOK, SlotState
  <1>3. Swept(pauseSlot) \in [PauseSlot -> SlotState]
        /\ \A i \in PauseSlot : /\ Swept(pauseSlot)[i].ip = pauseSlot[i].ip
                                /\ pauseSlot[i].expires > clock => Swept(pauseSlot)[i] = pauseSlot[i]
    BY SweptKeeps DEF PtInv
  <1>4. /\ table \in [PauseSlot -> SlotState]
        /\ \A i \in PauseSlot : /\ table[i].ip = pauseSlot[i].ip
                                /\ pauseSlot[i].ip \notin addrs /\ pauseSlot[i].expires > clock =>
                                      table[i] = pauseSlot[i]
    BY <1>2, <1>3
  <1> HIDE DEF table
  <1>5. until' \in [Addr -> Expiry] /\ \A g \in Addr : until'[g] = IF g \in addrs THEN 0 ELSE until[g]
    BY <1>1, PauseNumbers DEF PtInv, PtTypeOK
  <1>6. PtTypeOK'
    <2>1. Armed(table) \in 0 .. PauseMax
      BY <1>4, ArmedCounts DEF PtInv
    <2>2. calls' \in 0 .. MaxCalls
      BY <1>1, PauseNumbers DEF PtInv, PtTypeOK
    <2>3. due' \subseteq Addr
      BY <1>1 DEF PtInv, PtTypeOK
    <2> QED BY <1>1, <1>4, <1>5, <2>1, <2>2, <2>3, SeeMoves DEF PtInv, PtTypeOK
  <1>7. CallInv'
    BY <1>1 DEF CallInv
  <1>8. SeeInv'
    BY <1>1, <1>4, PauseFields, SeeKeeps DEF PtInv, SeeInv, Writes
  <1>9. \A g \in Addr : \A i \in PauseSlot :
           g \notin addrs /\ until[g] > clock /\ Holds(i, g) => pauseSlot'[i] = pauseSlot[i] /\ armed' > 0
    <2> TAKE g \in Addr
    <2> TAKE i \in PauseSlot
    <2> HAVE g \notin addrs /\ until[g] > clock /\ Holds(i, g)
    <2>1. pauseSlot[i].expires > clock /\ pauseSlot[i].ip = g
      BY SweptHolds DEF PtInv
    <2>2. table[i] = pauseSlot[i]
      BY <1>4, <2>1
    <2>3. Armed(table) > 0
      BY <1>4, <2>1, <2>2, ArmedCounts DEF PtInv
    <2> QED BY <1>1, <2>2, <2>3
  <1>10. \A g \in Addr : ~Retaken(g) /\ ~Retaken(g)'
    BY <1>1 DEF Retaken
  <1>11. \A g \in Addr : until'[g] > clock' /\ ~Retaken(g)' => armed' > 0 /\ \E i \in PauseSlot : Holds(i, g)'
    <2> SUFFICES ASSUME NEW g \in Addr, until'[g] > clock
                 PROVE  armed' > 0 /\ \E i \in PauseSlot : Holds(i, g)'
      BY <1>1
    <2>1. g \notin addrs /\ until'[g] = until[g]
      BY <1>5, PauseFields DEF PtInv
    <2>2. PICK i \in PauseSlot : Holds(i, g)
      BY <1>10, <2>1 DEF PtInv, PromiseInv
    <2> QED BY <1>9, <2>1, <2>2 DEF Holds
  <1>12. \A g \in due' : g \in Addr /\ g \notin addrs /\ until'[g] = until[g] /\ until[g] > clock
    BY <1>1, <1>5 DEF PtInv, PtTypeOK, PromiseInv
  <1>13. PromiseInv'
    BY <1>1, <1>6, <1>9, <1>10, <1>11, <1>12, SeeMoves, PromiseKeeps DEF PtInv
  <1> QED BY <1>6, <1>7, <1>8, <1>13 DEF PtInv

-----------------------------------------------------------------------------
\* The reader's steps leave everything but the look as it was.
LEMMA ReaderSteady ==
    ASSUME PtInv, NEW q \in LookState, Reads(q), due' \subseteq Addr
    PROVE  /\ PtTypeOK' /\ CallInv'
           /\ \A h \in Addr : /\ until'[h] = until[h] /\ (Retaken(h)' <=> Retaken(h))
                              /\ \A i \in PauseSlot : Holds(i, h)' <=> Holds(i, h)
           /\ \A h \in Addr : until'[h] > clock' /\ ~Retaken(h)' => armed' > 0 /\ \E i \in PauseSlot : Holds(i, h)'
  <1>1. look' = q /\ UNCHANGED <<pauseSlot, armed, clock, call, calls, until>>
    BY DEF Reads
  <1>2. PtTypeOK' /\ CallInv'
    BY <1>1 DEF PtInv, PtTypeOK, CallInv
  <1>3. \A h \in Addr : (Retaken(h)' <=> Retaken(h)) /\ \A i \in PauseSlot : Holds(i, h)' <=> Holds(i, h)
    BY <1>1 DEF Retaken, Holds
  <1> QED BY <1>1, <1>2, <1>3 DEF PtInv, PromiseInv

LEMMA LookBeginKeeps == ASSUME PtInv, NEW h \in Host, LookBegin(h) PROVE PtInv'
  <1> DEFINE p == PausedIn(pauseSlot, clock, h)
             q == [NoLook EXCEPT !.pc = "gate", !.client = h, !.now = clock, !.since = {p}]
  <1>1. /\ look.pc = "idle"
        /\ due' = {a \in {h, All} : until[a] > clock}
                     \ (IF call.pc \in {"address", "publish", "sweep"} THEN {call.ip} ELSE {})
        /\ Reads(q)
    BY DEF LookBegin
  <1>2. p \in BOOLEAN /\ clock \in 0 .. MaxTime
    BY DEF PausedIn, PtInv, PtTypeOK
  <1> HIDE DEF p
  <1>3. /\ q \in LookState /\ q.pc = "gate" /\ q.client = h /\ q.now = clock /\ q.since = {p}
        /\ q.at = 1
    BY <1>2, NoLookTyped DEF LookState
  <1> HIDE DEF q
  <1>4. due' \subseteq Addr
    BY <1>1, PauseNumbers
  <1>5. look' = q /\ UNCHANGED <<pauseSlot, armed, clock, call, calls, until>>
    BY <1>1 DEF Reads
  <1>6. /\ PtTypeOK' /\ CallInv'
        /\ \A g \in Addr : until'[g] > clock' /\ ~Retaken(g)' => armed' > 0 /\ \E i \in PauseSlot : Holds(i, g)'
    BY <1>1, <1>3, <1>4, ReaderSteady
  <1>7. SeeInv'
    <2>1. PausedIn(pauseSlot', look'.now, look'.client) \in look'.since
      BY <1>3, <1>5 DEF p
    <2>2. look'.now <= clock'
      BY <1>2, <1>3, <1>5
    <2> QED BY <1>3, <1>5, <2>1, <2>2 DEF SeeInv
  <1>8. \A g \in due' : g \in Theirs' /\ until'[g] > clock' /\ ~Retaken(g)'
    BY <1>1, <1>3, <1>5 DEF Theirs, Retaken
  <1>9. PromiseInv'
    BY <1>3, <1>5, <1>6, <1>8 DEF PromiseInv
  <1> QED BY <1>6, <1>7, <1>9 DEF PtInv

LEMMA LookGateKeeps == ASSUME PtInv, LookGate PROVE PtInv'
  <1> DEFINE q == [look EXCEPT !.pc = IF armed = 0 THEN "no" ELSE "first"]
  <1>1. look.pc = "gate" /\ Reads(q) /\ due' = due
    BY DEF LookGate
  <1>2. /\ q \in LookState /\ q.pc = (IF armed = 0 THEN "no" ELSE "first") /\ q.client = look.client
        /\ q.now = look.now /\ q.since = look.since /\ q.at = look.at
    BY DEF PtInv, PtTypeOK, LookState
  <1> HIDE DEF q
  <1>3. due \subseteq Addr
    BY DEF PtInv, PtTypeOK
  <1>4. look' = q /\ UNCHANGED <<pauseSlot, armed, clock, call, calls, until>>
    BY <1>1 DEF Reads
  <1>5. /\ PtTypeOK' /\ CallInv'
        /\ \A g \in Addr : until'[g] = until[g] /\ (Retaken(g)' <=> Retaken(g))
                           /\ \A i \in PauseSlot : Holds(i, g)' <=> Holds(i, g)
        /\ \A g \in Addr : until'[g] > clock' /\ ~Retaken(g)' => armed' > 0 /\ \E i \in PauseSlot : Holds(i, g)'
    BY <1>1, <1>2, <1>3, ReaderSteady
  <1>6. SeeInv'
    BY <1>1, <1>2, <1>4 DEF PtInv, SeeInv, Looking
  <1>7. \A g \in due : g \in Theirs' /\ until[g] > clock /\ ~Retaken(g)
    BY <1>2, <1>4 DEF PtInv, PromiseInv, Theirs
  <1>8. \A g \in due : armed > 0 /\ \E i \in PauseSlot : Holds(i, g) /\ i >= look.at
    <2>1. look.at = 1 /\ \A i \in PauseSlot : i >= 1
      BY <1>1 DEF PtInv, PromiseInv, PauseSlot
    <2>2. \A g \in due : armed > 0 /\ \E i \in PauseSlot : Holds(i, g)
      BY <1>3, <1>7 DEF PtInv, PromiseInv
    <2> QED BY <2>1, <2>2
  <1>9. armed = 0 => due = {}
    BY <1>8
  <1>10. PromiseInv'
    BY <1>1, <1>2, <1>3, <1>4, <1>5, <1>7, <1>8, <1>9 DEF PromiseInv
  <1> QED BY <1>5, <1>6, <1>10 DEF PtInv

\* The reader passes over a slot that holds nothing it owes.
LEMMA NextSlotKeeps ==
    ASSUME PtInv, look.pc \in {"first", "second"}, Reads(NextSlot), due' = due,
           \A h \in due : \E i \in PauseSlot : Holds(i, h) /\ i > look.at
    PROVE  PtInv'
  <1>1. look \in LookState /\ look.at \in PauseSlot /\ look.at \in Nat
    BY PauseFields DEF PtInv, PtTypeOK
  <1>2. /\ NextSlot \in LookState /\ NextSlot.client = look.client
        /\ NextSlot.now = look.now /\ NextSlot.since = look.since
        /\ \/ look.at = PauseMax /\ NextSlot.pc = "no"
           \/ look.at # PauseMax /\ NextSlot.pc = "first" /\ NextSlot.at = look.at + 1
    <2>1. CASE look.at = PauseMax
      BY <1>1, <2>1 DEF NextSlot, LookState
    <2>2. CASE look.at # PauseMax
      <3>1. look.at + 1 \in PauseSlot
        BY <1>1, <2>2, PauseNumbers
      <3> QED BY <1>1, <2>2, <3>1 DEF NextSlot, LookState
    <2> QED BY <2>1, <2>2
  <1>3. due \subseteq Addr
    BY DEF PtInv, PtTypeOK
  <1>4. look' = NextSlot /\ UNCHANGED <<pauseSlot, armed, clock, call, calls, until>>
    BY DEF Reads
  <1>5. /\ PtTypeOK' /\ CallInv'
        /\ \A g \in Addr : until'[g] = until[g] /\ (Retaken(g)' <=> Retaken(g))
                           /\ \A i \in PauseSlot : Holds(i, g)' <=> Holds(i, g)
        /\ \A g \in Addr : until'[g] > clock' /\ ~Retaken(g)' => armed' > 0 /\ \E i \in PauseSlot : Holds(i, g)'
    BY <1>2, <1>3, ReaderSteady
  <1>6. SeeInv'
    BY <1>2, <1>4 DEF PtInv, SeeInv, Looking
  <1>7. \A g \in due : g \in Theirs' /\ until[g] > clock /\ ~Retaken(g)
    BY <1>2, <1>4 DEF PtInv, PromiseInv, Theirs
  <1>8. look.at = PauseMax => due = {}
    <2>1. \A i \in PauseSlot : ~(i > PauseMax)
      BY PauseNumbers
    <2> QED BY <2>1
  <1>9. look.at # PauseMax => \A g \in due : \E i \in PauseSlot : Holds(i, g) /\ i >= look.at + 1
    <2>1. \A i \in PauseSlot : i > look.at => i >= look.at + 1
      BY <1>1, PauseNumbers
    <2> QED BY <2>1
  <1>10. PromiseInv'
    BY <1>2, <1>3, <1>4, <1>5, <1>7, <1>8, <1>9 DEF PromiseInv
  <1> QED BY <1>5, <1>6, <1>10 DEF PtInv

LEMMA LookFirstKeeps == ASSUME PtInv, LookFirst PROVE PtInv'
  <1> DEFINE e == pauseSlot[look.at].expires
             q == [look EXCEPT !.pc = "address", !.e1 = e]
  <1>1. look.pc = "first" /\ due' = due /\ Reads(IF e <= look.now THEN NextSlot ELSE q)
    BY DEF LookFirst
  <1>2. /\ look.at \in PauseSlot /\ e \in Expiry /\ e \in Nat /\ look.now \in Nat /\ clock \in Nat
        /\ look.now <= clock
    BY PauseFields DEF PtInv, SeeInv
  <1>3. due \subseteq Addr /\ \A h \in due : /\ h \in Theirs /\ until[h] > clock /\ until[h] \in Nat /\ ~Retaken(h)
                                             /\ \E i \in PauseSlot : Holds(i, h) /\ i >= look.at
    BY <1>1, PauseFields DEF PtInv, PtTypeOK, PromiseInv
  <1>4. \A h \in due : Holds(look.at, h) => e = until[h]
    BY DEF Holds
  <1> HIDE DEF e
  <1>5. CASE e <= look.now
    <2>1. Reads(NextSlot)
      BY <1>1, <1>5
    <2>2. \A h \in due : ~Holds(look.at, h)
      BY <1>2, <1>3, <1>4, <1>5
    <2>3. \A h \in due : \E i \in PauseSlot : Holds(i, h) /\ i > look.at
      <3>1. \A i \in PauseSlot : i >= look.at => i = look.at \/ i > look.at
        <4>1. look.at \in Nat /\ \A i \in PauseSlot : i \in Nat
          BY <1>2, PauseNumbers
        <4> QED BY <4>1
      <3> QED BY <1>3, <2>2, <3>1
    <2> QED BY <1>1, <2>1, <2>3, NextSlotKeeps
  <1>6. CASE ~(e <= look.now)
    <2>1. Reads(q) /\ e > look.now /\ e > 0
      BY <1>1, <1>2, <1>6
    <2>2. /\ q \in LookState /\ q.pc = "address" /\ q.client = look.client /\ q.now = look.now
          /\ q.since = look.since /\ q.at = look.at /\ q.e1 = e
      BY <1>2 DEF PtInv, PtTypeOK, LookState
    <2> HIDE DEF q
    <2>3. look' = q /\ UNCHANGED <<pauseSlot, armed, clock, call, calls, until>>
      BY <2>1 DEF Reads
    <2>4. /\ PtTypeOK' /\ CallInv'
          /\ \A g \in Addr : until'[g] = until[g] /\ (Retaken(g)' <=> Retaken(g))
                             /\ \A i \in PauseSlot : Holds(i, g)' <=> Holds(i, g)
          /\ \A g \in Addr : until'[g] > clock' /\ ~Retaken(g)' => armed' > 0 /\ \E i \in PauseSlot : Holds(i, g)'
      BY <1>1, <1>3, <2>1, <2>2, ReaderSteady
    <2>5. TRUE \notin look.since => ~PausedIn(pauseSlot, look.now, look.client)
      BY <1>1 DEF PtInv, SeeInv, Looking, PausedIn
    <2>6. TRUE \notin look.since => pauseSlot[look.at].ip \notin Theirs
      BY <1>2, <2>1, <2>5 DEF PausedIn, Theirs, e
    <2>7. TRUE \notin look.since => ~Writes({"empty", "address", "publish"})
      BY <2>1, <2>6 DEF PtInv, CallInv, Writes, e
    <2>8. SeeInv'
      BY <1>1, <2>1, <2>2, <2>3, <2>6, <2>7 DEF PtInv, SeeInv, Looking, Writes, Theirs
    <2>9. Theirs' = Theirs
      BY <2>2, <2>3 DEF Theirs
    <2>10. PromiseInv'
      BY <1>1, <1>3, <1>4, <2>2, <2>3, <2>4, <2>9 DEF PromiseInv
    <2> QED BY <2>4, <2>8, <2>10 DEF PtInv
  <1> QED BY <1>5, <1>6

LEMMA LookAddressKeeps == ASSUME PtInv, LookAddress PROVE PtInv'
  <1> DEFINE a == pauseSlot[look.at].ip
             q == [look EXCEPT !.pc = "second", !.ip = a]
  <1>1. look.pc = "address" /\ due' = due /\ Reads(q)
    BY DEF LookAddress
  <1>2. a \in Addr \cup {"none"}
    BY PauseFields DEF PtInv
  <1>3. /\ q \in LookState /\ q.pc = "second" /\ q.client = look.client /\ q.now = look.now
        /\ q.since = look.since /\ q.at = look.at /\ q.e1 = look.e1 /\ q.ip = a
    BY <1>2 DEF PtInv, PtTypeOK, LookState
  <1> HIDE DEF q
  <1>4. look' = q /\ UNCHANGED <<pauseSlot, armed, clock, call, calls, until>>
    BY <1>1 DEF Reads
  <1>5. due \subseteq Addr
    BY DEF PtInv, PtTypeOK
  <1>6. /\ PtTypeOK' /\ CallInv'
        /\ \A g \in Addr : until'[g] = until[g] /\ (Retaken(g)' <=> Retaken(g))
                           /\ \A i \in PauseSlot : Holds(i, g)' <=> Holds(i, g)
        /\ \A g \in Addr : until'[g] > clock' /\ ~Retaken(g)' => armed' > 0 /\ \E i \in PauseSlot : Holds(i, g)'
    BY <1>1, <1>3, <1>5, ReaderSteady
  <1>7. Theirs' = Theirs
    BY <1>3, <1>4 DEF Theirs
  <1>8. SeeInv'
    BY <1>1, <1>3, <1>4, <1>7 DEF PtInv, SeeInv, Looking, Writes
  <1>9. \A g \in due : Holds(look.at, g) => a = g
    BY DEF Holds
  <1> HIDE DEF a
  <1>10. \A g \in due : \E i \in PauseSlot : /\ Holds(i, g) /\ i >= look.at
                                             /\ i = look.at => look.e1 = until[g] /\ a = g
    BY <1>1, <1>9 DEF PtInv, PromiseInv
  <1>11. \A g \in due : g \in Theirs /\ until[g] > clock /\ ~Retaken(g)
    BY DEF PtInv, PromiseInv
  <1>12. PromiseInv'
    BY <1>1, <1>3, <1>4, <1>5, <1>6, <1>7, <1>10, <1>11 DEF PromiseInv
  <1> QED BY <1>6, <1>8, <1>12 DEF PtInv

LEMMA LookSecondKeeps == ASSUME PtInv, LookSecond PROVE PtInv'
  <1> DEFINE e == pauseSlot[look.at].expires
             q == [look EXCEPT !.pc = "yes"]
  <1>1. look.pc = "second" /\ due' = due
        /\ Reads(IF e = look.e1 /\ look.ip \in {look.client, All} THEN q ELSE NextSlot)
    BY DEF LookSecond
  <1>2. /\ look.at \in PauseSlot /\ e \in Nat /\ look.now \in Nat /\ look.e1 \in Nat
        /\ look.e1 > look.now
    BY <1>1, PauseFields DEF PtInv, SeeInv
  <1>3. due \subseteq Addr /\ \A h \in due : /\ h \in Theirs /\ until[h] > clock /\ ~Retaken(h)
    BY DEF PtInv, PtTypeOK, PromiseInv
  <1>4. CASE e = look.e1 /\ look.ip \in Theirs
    <2>1. Reads(q)
      BY <1>1, <1>4 DEF Theirs
    <2>2. /\ q \in LookState /\ q.pc = "yes" /\ q.client = look.client /\ q.now = look.now
          /\ q.since = look.since
      BY DEF PtInv, PtTypeOK, LookState
    <2> HIDE DEF q
    <2>3. look' = q /\ UNCHANGED <<pauseSlot, armed, clock, call, calls, until>>
      BY <2>1 DEF Reads
    <2>4. /\ PtTypeOK' /\ CallInv'
          /\ \A g \in Addr : until'[g] = until[g] /\ (Retaken(g)' <=> Retaken(g))
          /\ \A g \in Addr : until'[g] > clock' /\ ~Retaken(g)' => armed' > 0 /\ \E i \in PauseSlot : Holds(i, g)'
      BY <1>1, <1>3, <2>1, <2>2, ReaderSteady
    <2>5. TRUE \in look.since
      <3>1. TRUE \notin look.since => Writes({"publish"})
        BY <1>1, <1>4 DEF PtInv, SeeInv
      <3>2. Writes({"publish"}) => e = 0
        BY DEF Writes, PtInv, CallInv
      <3>3. e # 0
        BY <1>2, <1>4
      <3> QED BY <3>1, <3>2, <3>3
    <2>6. SeeInv'
      BY <1>1, <2>2, <2>3, <2>5 DEF PtInv, SeeInv, Looking
    <2>7. Theirs' = Theirs
      BY <2>2, <2>3 DEF Theirs
    <2>8. PromiseInv'
      BY <1>1, <1>3, <2>2, <2>3, <2>4, <2>7 DEF PromiseInv
    <2> QED BY <2>4, <2>6, <2>8 DEF PtInv
  <1>5. CASE ~(e = look.e1 /\ look.ip \in Theirs)
    <2>1. Reads(NextSlot)
      BY <1>1, <1>5 DEF Theirs
    <2>2. \A h \in due : Holds(look.at, h) => e = until[h]
      BY DEF Holds
    <2> HIDE DEF e
    <2>3. \A h \in due : \E i \in PauseSlot : Holds(i, h) /\ i > look.at
      <3> SUFFICES ASSUME NEW h \in due PROVE \E i \in PauseSlot : Holds(i, h) /\ i > look.at
        OBVIOUS
      <3>1. PICK i \in PauseSlot : Holds(i, h) /\ i >= look.at /\ (i = look.at => look.e1 = until[h] /\ look.ip = h)
        BY <1>1 DEF PtInv, PromiseInv
      <3>2. i # look.at
        BY <1>3, <1>5, <2>2, <3>1
      <3>3. i \in Nat /\ look.at \in Nat
        BY <1>2, PauseNumbers
      <3> QED BY <3>1, <3>2, <3>3
    <2> QED BY <1>1, <2>1, <2>3, NextSlotKeeps
  <1> QED BY <1>4, <1>5

LEMMA LookEndKeeps == ASSUME PtInv, LookEnd PROVE PtInv'
  <1>1. Reads(NoLook) /\ due' = {}
    BY DEF LookEnd
  <1>2. look' = NoLook /\ clock' = clock /\ clock \in Nat /\ clock > 0
    BY <1>1, PauseFields DEF Reads, PtInv
  <1>3. /\ PtTypeOK' /\ CallInv'
        /\ \A g \in Addr : until'[g] > clock' /\ ~Retaken(g)' => armed' > 0 /\ \E i \in PauseSlot : Holds(i, g)'
    BY <1>1, NoLookTyped, ReaderSteady
  <1>4. SeeInv'
    <2>1. look'.now <= clock'
      BY <1>2, NoLookTyped
    <2> QED BY <1>2, <2>1, NoLookTyped DEF SeeInv, Looking
  <1>5. PromiseInv'
    BY <1>1, <1>2, <1>3, NoLookTyped DEF PromiseInv
  <1> QED BY <1>3, <1>4, <1>5 DEF PtInv

LEMMA PtStepKeeps == PtInv /\ [PtNext]_ptVars => PtInv'
  <1> SUFFICES ASSUME PtInv, [PtNext]_ptVars PROVE PtInv'
    OBVIOUS
  <1>1. CASE PtTick
    BY <1>1, PtTickKeeps
  <1>2. CASE \E h \in Addr, minutes \in 1 .. MaxMinutes : SetBegin(h, minutes)
    BY <1>2, SetBeginKeeps
  <1>3. CASE WriteEmpty \/ WriteAddress \/ WriteExpiry \/ Sweep
    BY <1>3, WriteEmptyKeeps, WriteAddressKeeps, WriteExpiryKeeps, SweepKeeps
  <1>4. CASE \E addrs \in {{h} : h \in Addr} \cup {Addr} : Clear(addrs)
    BY <1>4, ClearKeeps
  <1>5. CASE \E h \in Host : LookBegin(h)
    BY <1>5, LookBeginKeeps
  <1>6. CASE LookGate \/ LookFirst \/ LookAddress \/ LookSecond \/ LookEnd
    BY <1>6, LookGateKeeps, LookFirstKeeps, LookAddressKeeps, LookSecondKeeps, LookEndKeeps
  <1>7. CASE UNCHANGED ptVars
    <2>1. UNCHANGED <<pauseSlot, armed, clock, call, calls, look, until, due>>
      BY <1>7 DEF ptVars
    <2>2. PtTypeOK' /\ CallInv' /\ SeeInv'
      BY <2>1 DEF PtInv, PtTypeOK, CallInv, SeeInv, Looking, PausedIn, Theirs, Writes
    <2>3. PromiseInv'
      BY <2>1 DEF PtInv, PromiseInv, Holds, Retaken, Theirs
    <2> QED BY <2>2, <2>3 DEF PtInv
  <1> QED BY <1>1, <1>2, <1>3, <1>4, <1>5, <1>6, <1>7 DEF PtNext

\* pause.c: a look that says "paused" is right of some moment of it, whatever slots
\* were rewritten meanwhile; and a look that says "not paused" has no promise
\* against it that no call touched.
THEOREM PausesAreHonoured == PtSpec => []PauseLooksAreRight
  <1>1. PtInv => PauseLooksAreRight
    BY DEF PtInv, SeeInv, PromiseInv, PauseLooksAreRight
  <1> QED BY <1>1, PtInitHolds, PtStepKeeps, PTL DEF PtSpec

\* pause.c: every reachable state is well typed: no expiry outlasts what can be
\* asked for.
THEOREM PausesTypeCorrect == PtSpec => []PtTypeOK
  <1>1. PtInv => PtTypeOK
    BY DEF PtInv
  <1> QED BY <1>1, PtInitHolds, PtStepKeeps, PTL DEF PtSpec

-----------------------------------------------------------------------------
(***************************************************************************)
(* Once all is settled, queries go where the selected interface says. Two  *)
(* tasks may set the upstream; whoever does so with nobody between         *)
(* choosing and setting sets what the links say (LinkInv), and every       *)
(* event that changes the choice chooses anew.                             *)
(***************************************************************************)
\* The address of the selected interface, as apply_upstream_iface finds it now.
Selected == AddressAt(link, PickUpstream(link, selected))

\* Who may be about to set the upstream; and with no static interface: what stands
\* to be set is what the links say, unless someone else came between, and so is
\* what dns_task has taken, or will take.
LinkInv ==
    /\ choosing["main"] # {} => main \in {"start", "set"}
    /\ choosing["web"] # {} => main = "done"
    /\ static = {} =>
         /\ \A t \in Task : \A s \in choosing[t] :
               s.alone /\ main # "start" => s = PickUpstream(link, selected)
         /\ main \in {"ui", "done"} /\ ~mixed /\ (\A t \in Task : choosing[t] = {}) =>
               /\ dns.pc = "read" => upstream.text = Selected
               /\ dns.pc = "store" => dns.read = Selected
               /\ dns.pc = "run" => upstream.addr = Selected

NlInv == NlTypeOK /\ LinkInv

\* What is pointed at is an address, and never the empty one where it was picked.
LEMMA Pointed ==
    ASSUME NEW l \in [Iface -> LinkState], NEW i \in Iface
    PROVE  /\ PickUpstream(l, i) \in Source /\ PickUpstream(l, i).alone = TRUE
           /\ AddressAt(l, PickUpstream(l, i)) \in 1 .. 9
           /\ \A s \in Source : AddressAt(l, s) \in 0 .. 9
  <1>1. PickUpstream(l, i) \in Source /\ PickUpstream(l, i).alone = TRUE
    BY DEF PickUpstream, Source
  <1>2. \A j \in Iface : l[j].dns \in 0 .. 6 /\ l[j].gw \in 0 .. 6
    BY DEF LinkState
  <1>3. AddressAt(l, PickUpstream(l, i)) \in 1 .. 9
    BY <1>2 DEF AddressAt, PickUpstream, Default
  <1>4. \A s \in Source : AddressAt(l, s) \in 0 .. 9
    BY <1>2 DEF AddressAt, Source, Default
  <1> QED BY <1>1, <1>3, <1>4

\* Two links with the same addresses are picked the same.
SameAddresses(l, m) == \A i \in Iface : l[i].dns = m[i].dns /\ l[i].gw = m[i].gw

\* They give the same address, whichever interface is selected.
LEMMA SamePick ==
    ASSUME NEW l, NEW m, SameAddresses(l, m), NEW i \in Iface
    PROVE  /\ PickUpstream(l, i) = PickUpstream(m, i)
           /\ AddressAt(l, PickUpstream(l, i)) = AddressAt(m, PickUpstream(m, i))
  BY DEF SameAddresses, PickUpstream, AddressAt

\* A step that leaves the upstream, and everybody who sets it, alone.
LEMMA QuietKeeps ==
    ASSUME NlTypeOK, LinkInv, static = {} => SameAddresses(link', link),
           UNCHANGED <<selected, upstream, choosing, dns, mixed, static, main>>
    PROVE  LinkInv'
  <1>1. selected \in Iface
    BY DEF NlTypeOK
  <1>2. CASE static # {}
    BY <1>2 DEF LinkInv
  <1>3. CASE static = {}
    <2>1. PickUpstream(link', selected) = PickUpstream(link, selected) /\ Selected' = Selected
      BY <1>1, <1>3, SamePick DEF Selected
    <2> QED BY <2>1 DEF LinkInv
  <1> QED BY <1>2, <1>3

\* Links that did not change have the same addresses.
LEMMA LinkSteady == SameAddresses(link, link)
  BY DEF SameAddresses

-----------------------------------------------------------------------------
LEMMA NlInitHolds == NlInit => NlInv
  <1> SUFFICES ASSUME NlInit PROVE NlInv
    OBVIOUS
  <1>1. [type |-> "staStart"] \in LinkTurn \cup AddressGot
    BY DEF LinkTurn
  <1>2. queue \in Seq(LinkTurn \cup AddressGot) /\ Len(queue) <= MaxQueue
    BY <1>1, LinkAssumption DEF NlInit
  <1>3. NlTypeOK
    <2>1. Down \in LinkState /\ "eth" \in Iface /\ {} \in SUBSET Source /\ {} \in SUBSET Iface
      BY DEF Down, LinkState, Iface
    <2>2. link \in [Iface -> LinkState] /\ choosing \in [Task -> SUBSET Source]
      BY <2>1 DEF NlInit
    <2>3. linkNvs \in [upstream : Iface \cup {"none"}, wifiOn : BOOLEAN, static : SUBSET Iface]
      BY <2>1 DEF NlInit
    <2>4. /\ linkChanges \in 0 .. MaxLinkChanges /\ turns \in 0 .. MaxTurns
          /\ boots \in 0 .. MaxBoots
          /\ upstream \in [text : 0 .. 9, addr : 0 .. 9]
      BY LinkAssumption DEF NlInit
    <2> QED BY <1>2, <2>1, <2>2, <2>3, <2>4 DEF NlInit, NlTypeOK
  <1> QED BY <1>3 DEF NlInit, NlInv, LinkInv, Task

\* app_main before dns_task is started: it is alone.
LEMMA MainBeginsKeeps == ASSUME NlInv, WaitForLink \/ StartAp \/ WaitForLease \/ PickFirst
                         PROVE  NlInv'
  <1>1. /\ main' \in {"ap", "apFlag", "lease", "pick", "start"}
        /\ main \in {"links", "ap", "apFlag", "lease", "pick"}
    BY DEF WaitForLink, StartAp, WaitForLease, PickFirst, MainGoes
  <1>2. /\ UNCHANGED <<link, upstream, dns, mixed, cable, wireless, queue, settings, bounds>>
        /\ ap' \in [mode : BOOLEAN, flag : BOOLEAN] /\ selected' \in Iface
    BY DEF WaitForLink, StartAp, WaitForLease, PickFirst, MainGoes, NlInv, NlTypeOK, Iface
  <1>3. \/ choosing' = choosing
        \/ main' = "start" /\ choosing' = [choosing EXCEPT !["main"] = {PickUpstream(link, selected)}]
    BY DEF WaitForLink, StartAp, WaitForLease, PickFirst, MainGoes
  <1>4. PickUpstream(link, selected) \in Source
    BY Pointed DEF NlInv, NlTypeOK
  <1>5. choosing' \in [Task -> SUBSET Source]
    BY <1>3, <1>4 DEF NlInv, NlTypeOK
  <1>6. NlTypeOK'
    BY <1>1, <1>2, <1>5 DEF NlInv, NlTypeOK, wireless, settings, bounds
  <1>7. choosing["web"] = {} /\ choosing["main"] = {}
    BY <1>1 DEF NlInv, LinkInv
  <1>8. choosing'["web"] = {} /\ (choosing'["main"] = {} \/ main' = "start")
    BY <1>3, <1>7 DEF NlInv, NlTypeOK, Task
  <1>9. LinkInv'
    BY <1>1, <1>8 DEF LinkInv, Task
  <1> QED BY <1>6, <1>9 DEF NlInv

LEMMA StartDnsKeeps == ASSUME NlInv, StartDns PROVE NlInv'
  <1>1. PICK s \in choosing["main"] : upstream' = [upstream EXCEPT !.text = AddressAt(link, s)]
    BY DEF StartDns
  <1>2. AddressAt(link, s) \in 0 .. 9
    BY Pointed DEF NlInv, NlTypeOK, Task, Iface
  <1>3. /\ choosing' = [choosing EXCEPT !["main"] = {}] /\ choosing' \in [Task -> SUBSET Source]
        /\ dns' = [dns EXCEPT !.pc = "read"] /\ main = "start" /\ main' = "reapply"
        /\ UNCHANGED <<link, selected, ap, mixed, cable, radio, recfg, queue, wifiOn, static, linkNvs,
                       linkChanges, turns, boots>>
    BY DEF StartDns, MainGoes, wireless, settings, bounds, NlInv, NlTypeOK
  <1>4. NlTypeOK'
    <2>1. /\ upstream' \in [text : 0 .. 9, addr : 0 .. 9]
          /\ dns' \in [pc : {"off", "read", "store", "run"}, read : 0 .. 9]
      BY <1>1, <1>2, <1>3 DEF NlInv, NlTypeOK
    <2> QED BY <1>3, <2>1 DEF NlInv, NlTypeOK
  <1>5. choosing'["web"] = {} /\ choosing'["main"] = {}
    BY <1>3 DEF NlInv, LinkInv, NlTypeOK, Task
  <1> QED BY <1>3, <1>4, <1>5 DEF NlInv, LinkInv, Task

\* Both tasks choose alike.
LEMMA ChoosesTyped ==
    ASSUME NlTypeOK, NEW t \in Task, NEW i \in Iface, Chooses(t, i)
    PROVE  /\ choosing' \in [Task -> SUBSET Source]
           /\ choosing'[t] # {}
           /\ \A s \in choosing'[t] : s.alone => s = PickUpstream(link, i)
           /\ \A u \in Task : u # t => /\ \A s \in choosing'[u] : ~s.alone
                                       /\ choosing'[u] # {} => choosing[u] # {}
  <1> DEFINE others == {u \in Task \ {t} : choosing[u] # {}}
             mine == [PickUpstream(link, i) EXCEPT !.alone = (others = {})]
  <1>1. choosing' = [u \in Task |-> IF u = t THEN {mine} ELSE Accompanied(u)]
    BY DEF Chooses
  <1>2. PickUpstream(link, i) \in Source /\ PickUpstream(link, i).alone = TRUE
    BY Pointed DEF NlTypeOK
  <1>3. mine \in Source /\ (mine.alone => mine = PickUpstream(link, i))
    <2>1. (others = {}) \in BOOLEAN
      OBVIOUS
    <2> HIDE DEF others
    <2>2. mine \in Source /\ mine.alone = (others = {})
      BY <1>2, <2>1 DEF Source
    <2>3. others = {} => mine = PickUpstream(link, i)
      BY <1>2 DEF Source
    <2> QED BY <2>2, <2>3
  <1>4. \A u \in Task : \A s \in Accompanied(u) : s \in Source /\ ~s.alone
    <2> TAKE u \in Task
    <2>1. choosing[u] \subseteq Source
      BY DEF NlTypeOK
    <2> QED BY <2>1 DEF Accompanied, Source
  <1>5. \A u \in Task : Accompanied(u) # {} => choosing[u] # {}
    BY DEF Accompanied
  <1> HIDE DEF mine, others
  <1> QED BY <1>1, <1>3, <1>4, <1>5

LEMMA ReapplyKeeps == ASSUME NlInv, Reapply PROVE NlInv'
  <1>1. /\ main = "reapply" /\ main' = "set" /\ Chooses("main", selected)
        /\ UNCHANGED <<link, selected, upstream, dns, ap, mixed, cable, radio, recfg, queue, wifiOn, static,
                       linkNvs, linkChanges, turns, boots>>
    BY DEF Reapply, MainGoes, wireless, settings, bounds
  <1>2. "main" \in Task /\ selected \in Iface /\ "web" \in Task
    BY DEF Task, NlInv, NlTypeOK
  <1>3. /\ choosing' \in [Task -> SUBSET Source]
        /\ \A s \in choosing'["main"] : s.alone => s = PickUpstream(link, selected)
        /\ choosing'["web"] # {} => choosing["web"] # {}
    BY <1>1, <1>2, ChoosesTyped DEF NlInv
  <1>4. NlTypeOK'
    BY <1>1, <1>3 DEF NlInv, NlTypeOK
  <1>5. choosing'["web"] = {}
    BY <1>1, <1>3 DEF NlInv, LinkInv
  <1> QED BY <1>1, <1>3, <1>4, <1>5 DEF NlInv, LinkInv, Task

\* What one task sets, alone, is what the links say.
LEMMA SetsRight ==
    ASSUME NlInv, NEW t \in Task, SetsUpstream(t), main # "start"
    PROVE  /\ choosing' = [choosing EXCEPT ![t] = {}] /\ choosing' \in [Task -> SUBSET Source]
           /\ upstream' \in [text : 0 .. 9, addr : 0 .. 9] /\ mixed' \in BOOLEAN
           /\ static = {} /\ ~mixed' => /\ upstream'.text = Selected /\ upstream'.addr = Selected
                                        /\ dns.pc # "store"
  <1>1. PICK s \in choosing[t] :
            /\ choosing' = [choosing EXCEPT ![t] = {}]
            /\ upstream' = IF AddressAt(link, s) = 0 THEN upstream
                           ELSE [text |-> AddressAt(link, s), addr |-> AddressAt(link, s)]
            /\ mixed' = (~s.alone \/ dns.pc = "store")
    BY DEF SetsUpstream
  <1>2. s \in Source /\ AddressAt(link, s) \in 0 .. 9 /\ s.alone \in BOOLEAN
    <2>1. s \in Source /\ "eth" \in Iface /\ link \in [Iface -> LinkState]
      BY DEF NlInv, NlTypeOK, Iface
    <2>2. s.alone \in BOOLEAN
      BY <2>1 DEF Source
    <2> QED BY <2>1, <2>2, Pointed
  <1>3. choosing' \in [Task -> SUBSET Source] /\ upstream' \in [text : 0 .. 9, addr : 0 .. 9]
    BY <1>1, <1>2 DEF NlInv, NlTypeOK
  <1>4. mixed' \in BOOLEAN
    BY <1>1
  <1>5. ASSUME static = {}, ~mixed'
        PROVE  upstream'.text = Selected /\ upstream'.addr = Selected /\ dns.pc # "store"
    <2>1. s.alone /\ dns.pc # "store"
      BY <1>1, <1>5
    <2>2. s = PickUpstream(link, selected)
      BY <1>1, <1>5, <2>1 DEF NlInv, LinkInv
    <2>3. AddressAt(link, s) = Selected /\ Selected \in 1 .. 9
      BY <2>2, Pointed DEF Selected, NlInv, NlTypeOK
    <2> QED BY <1>1, <2>1, <2>3
  <1> QED BY <1>1, <1>3, <1>4, <1>5

LEMMA SetFirstKeeps == ASSUME NlInv, SetFirst PROVE NlInv'
  <1>1. /\ main = "set" /\ main' = "ui" /\ SetsUpstream("main") /\ "main" \in Task
        /\ UNCHANGED <<link, selected, dns, ap, cable, radio, recfg, queue, wifiOn, static, linkNvs,
                       linkChanges, turns, boots>>
    BY DEF SetFirst, MainGoes, wireless, settings, bounds, Task
  <1>2. /\ choosing' = [choosing EXCEPT !["main"] = {}] /\ choosing' \in [Task -> SUBSET Source]
        /\ upstream' \in [text : 0 .. 9, addr : 0 .. 9] /\ mixed' \in BOOLEAN
        /\ static = {} /\ ~mixed' => /\ upstream'.text = Selected /\ upstream'.addr = Selected
                                     /\ dns.pc # "store"
    BY <1>1, SetsRight
  <1>3. NlTypeOK'
    BY <1>1, <1>2 DEF NlInv, NlTypeOK
  <1>4. choosing'["web"] = {} /\ choosing'["main"] = {}
    BY <1>1, <1>2 DEF NlInv, LinkInv, NlTypeOK, Task
  <1>5. Selected' = Selected
    BY <1>1 DEF Selected
  <1> QED BY <1>1, <1>2, <1>3, <1>4, <1>5 DEF NlInv, LinkInv, Task

LEMMA WebSetsKeeps == ASSUME NlInv, WebSets PROVE NlInv'
  <1>1. /\ SetsUpstream("web") /\ "web" \in Task
        /\ UNCHANGED <<link, selected, dns, main, ap, cable, radio, recfg, queue, wifiOn, static, linkNvs,
                       linkChanges, turns, boots>>
    BY DEF WebSets, wireless, settings, bounds, Task
  <1>2. main = "done" /\ choosing["main"] = {}
    BY <1>1 DEF SetsUpstream, NlInv, LinkInv
  <1>3. /\ choosing' = [choosing EXCEPT !["web"] = {}] /\ choosing' \in [Task -> SUBSET Source]
        /\ upstream' \in [text : 0 .. 9, addr : 0 .. 9] /\ mixed' \in BOOLEAN
        /\ static = {} /\ ~mixed' => /\ upstream'.text = Selected /\ upstream'.addr = Selected
                                     /\ dns.pc # "store"
    BY <1>1, <1>2, SetsRight
  <1>4. NlTypeOK'
    BY <1>1, <1>3 DEF NlInv, NlTypeOK
  <1>5. choosing'["web"] = {} /\ choosing'["main"] = {}
    BY <1>2, <1>3 DEF NlInv, NlTypeOK, Task
  <1>6. Selected' = Selected
    BY <1>1 DEF Selected
  <1> QED BY <1>1, <1>2, <1>3, <1>4, <1>5, <1>6 DEF NlInv, LinkInv, Task

LEMMA StartUiKeeps == ASSUME NlInv, StartUi PROVE NlInv'
  <1>1. /\ main = "ui" /\ main' = "done"
        /\ UNCHANGED <<link, selected, upstream, choosing, dns, ap, mixed, cable, radio, recfg, queue, wifiOn,
                       static, linkNvs, linkChanges, turns, boots>>
    BY DEF StartUi, MainGoes, wireless, settings, bounds
  <1>2. NlTypeOK'
    BY <1>1 DEF NlInv, NlTypeOK
  <1>3. Selected' = Selected
    BY <1>1 DEF Selected
  <1> QED BY <1>1, <1>2, <1>3 DEF NlInv, LinkInv, Task

\* dns_task takes the text, and stores it.
LEMMA DnsStartsKeeps == ASSUME NlInv, DnsStarts PROVE NlInv'
  <1>1. UNCHANGED <<link, selected, choosing, main, ap, cable, radio, recfg, queue, wifiOn, static, linkNvs,
                    linkChanges, turns, boots, mixed>>
    BY DEF DnsStarts, wireless, settings, bounds
  <1>2. \/ dns.pc = "read" /\ dns' = [pc |-> "store", read |-> upstream.text] /\ upstream' = upstream
        \/ /\ dns.pc = "store" /\ dns' = [pc |-> "run", read |-> 0]
           /\ upstream' = [upstream EXCEPT !.addr = dns.read]
    BY DEF DnsStarts
  <1>3. NlTypeOK'
    BY <1>1, <1>2 DEF NlInv, NlTypeOK
  <1>4. Selected' = Selected
    BY <1>1 DEF Selected
  <1>5. /\ dns'.pc = "read" => FALSE
        /\ dns'.pc = "store" => dns.pc = "read" /\ dns'.read = upstream.text
        /\ dns'.pc = "run" => dns.pc = "store" /\ upstream'.addr = dns.read
    BY <1>2 DEF NlInv, NlTypeOK
  <1> QED BY <1>1, <1>3, <1>4, <1>5 DEF NlInv, LinkInv

-----------------------------------------------------------------------------
\* A link that comes up: the upstream follows it, and who was choosing is not alone.
LEMMA PublishesKeeps ==
    ASSUME NlInv, NEW i \in Iface, NEW a, a.dns \in 0 .. 6, a.gw \in 0 .. 6, Publishes(i, a),
           UNCHANGED <<selected, dns, main, static>>
    PROVE  /\ link' \in [Iface -> LinkState] /\ upstream' \in [text : 0 .. 9, addr : 0 .. 9]
           /\ choosing' \in [Task -> SUBSET Source] /\ mixed' \in BOOLEAN
           /\ ap' \in [mode : BOOLEAN, flag : BOOLEAN]
           /\ LinkInv'
  <1> DEFINE l == [link EXCEPT ![i] = [dns |-> a.dns, gw |-> a.gw, got |-> TRUE]]
             v == AddressAt(l, PickUpstream(l, selected))
  <1>1. /\ link' = l /\ upstream' = [text |-> v, addr |-> v]
        /\ choosing' = [t \in Task |-> Accompanied(t)]
        /\ mixed' = (dns.pc = "store")
        /\ ap' = IF ap.flag THEN [mode |-> FALSE, flag |-> FALSE] ELSE ap
    BY DEF Publishes
  <1>2. l \in [Iface -> LinkState]
    BY DEF NlInv, NlTypeOK, LinkState
  <1> HIDE DEF l
  <1>3. v \in 1 .. 9
    BY <1>2, Pointed DEF NlInv, NlTypeOK
  <1>4. Selected' = v
    BY <1>1 DEF Selected
  <1> HIDE DEF v
  <1>5. \A t \in Task : /\ \A s \in Accompanied(t) : s \in Source /\ ~s.alone
                        /\ Accompanied(t) # {} => choosing[t] # {}
    <2> TAKE t \in Task
    <2>1. choosing[t] \subseteq Source
      BY DEF NlInv, NlTypeOK
    <2> QED BY <2>1 DEF Accompanied, Source
  <1>6. upstream' \in [text : 0 .. 9, addr : 0 .. 9] /\ upstream'.text = v /\ upstream'.addr = v
    BY <1>1, <1>3
  <1>7. /\ choosing' \in [Task -> SUBSET Source]
        /\ \A t \in Task : /\ \A s \in choosing'[t] : ~s.alone
                           /\ choosing'[t] # {} => choosing[t] # {}
    BY <1>1, <1>5
  <1>8. mixed' \in BOOLEAN /\ ap' \in [mode : BOOLEAN, flag : BOOLEAN]
    BY <1>1 DEF NlInv, NlTypeOK
  <1>9. "main" \in Task /\ "web" \in Task
    BY DEF Task
  <1>10. LinkInv'
    BY <1>1, <1>4, <1>6, <1>7, <1>9 DEF NlInv, LinkInv
  <1> QED BY <1>1, <1>2, <1>6, <1>7, <1>8, <1>10

LEMMA ForgetsKeeps ==
    ASSUME NlInv, NEW i \in Iface, Forgets(i), UNCHANGED <<selected, dns, main, static>>
    PROVE  link' \in [Iface -> LinkState] /\ UNCHANGED <<upstream, choosing, mixed, ap>> /\ LinkInv'
  <1>1. link \in [Iface -> LinkState] /\ Down \in LinkState
    BY DEF NlInv, NlTypeOK, Down, LinkState
  <1> DEFINE m == IF i \in static THEN Down ELSE [link[i] EXCEPT !.got = FALSE]
  <1>2. /\ link' = [link EXCEPT ![i] = m] /\ UNCHANGED <<upstream, choosing, mixed, ap>>
    BY DEF Forgets
  <1>3. m \in LinkState /\ (static = {} => m.dns = link[i].dns /\ m.gw = link[i].gw)
    BY <1>1 DEF LinkState
  <1> HIDE DEF m
  <1>4. link' \in [Iface -> LinkState]
    BY <1>1, <1>2, <1>3
  <1>5. static = {} => SameAddresses(link', link)
    BY <1>1, <1>2, <1>3 DEF SameAddresses
  <1> QED BY <1>2, <1>4, <1>5, QuietKeeps DEF NlInv

LEMMA HandleEventKeeps == ASSUME NlInv, HandleEvent PROVE NlInv'
  <1> DEFINE e == Head(queue)
  <1>1. /\ queue # <<>> /\ Handle(e) /\ queue' = Tail(queue)
        /\ UNCHANGED <<selected, dns, main, cable, wifiOn, static, linkNvs, linkChanges, turns, boots>>
    BY DEF HandleEvent, settings, bounds
  <1>2. /\ e \in LinkTurn \cup AddressGot /\ queue' \in Seq(LinkTurn \cup AddressGot)
        /\ Len(queue') <= MaxQueue
    <2> DEFINE E == LinkTurn \cup AddressGot
    <2> HIDE DEF E
    <2>1. queue \in Seq(E) /\ Len(queue) <= MaxQueue /\ MaxQueue \in Nat
      BY LinkAssumption DEF NlInv, NlTypeOK, E
    <2>2. e \in E /\ queue' \in Seq(E) /\ Len(queue') = Len(queue) - 1
      BY <1>1, <2>1
    <2>3. Len(queue') <= MaxQueue
      BY <2>1, <2>2
    <2> QED BY <2>2, <2>3 DEF E
  <1> HIDE DEF e
  <1> DEFINE Typed == /\ link' \in [Iface -> LinkState] /\ upstream' \in [text : 0 .. 9, addr : 0 .. 9]
                      /\ choosing' \in [Task -> SUBSET Source] /\ mixed' \in BOOLEAN
                      /\ ap' \in [mode : BOOLEAN, flag : BOOLEAN]
                      /\ LinkInv'
  <1>3. /\ \A i \in Iface : Forgets(i) => Typed
        /\ PublishesNothing => Typed
    <2>1. ASSUME NEW i \in Iface, Forgets(i) PROVE Typed
      BY <1>1, <2>1, ForgetsKeeps DEF NlInv, NlTypeOK
    <2>2. ASSUME PublishesNothing PROVE Typed
      BY <1>1, <2>2, LinkSteady, QuietKeeps DEF PublishesNothing, NlInv, NlTypeOK
    <2> QED BY <2>1, <2>2
  <1>4. \A i \in Iface : Fixed(i).dns \in 0 .. 6 /\ Fixed(i).gw \in 0 .. 6
    BY DEF Fixed
  <1>5. \A i \in Iface : Publishes(i, Fixed(i)) => Typed
    BY <1>1, <1>4, PublishesKeeps
  <1>6. e.type \in {"ethIp", "staIp"} => e.dns \in 0 .. 6 /\ e.gw \in 0 .. 6
    BY <1>2 DEF LinkTurn, AddressGot
  <1>7. ASSUME e.type \in {"ethIp", "staIp"}, Publishes(IF e.type = "ethIp" THEN "eth" ELSE "wifi", e)
        PROVE  Typed
    <2>1. (IF e.type = "ethIp" THEN "eth" ELSE "wifi") \in Iface
      BY DEF Iface
    <2> QED BY <1>1, <1>6, <1>7, <2>1, PublishesKeeps
  <1>8. Typed
    <2> HIDE DEF Typed
    <2>1. "eth" \in Iface /\ "wifi" \in Iface
      BY DEF Iface
    <2> QED BY <1>1, <1>3, <1>5, <1>7, <2>1 DEF Handle
  <1>9. /\ radio' \in {"off", "idle", "trying", "joined", "leased"}
        /\ recfg' \in [flag : BOOLEAN, late : BOOLEAN, task : {"none", "sleep", "disconnect", "connect"}]
    <2>1. /\ radio' \in {radio, Connected} /\ recfg' \in {recfg, [recfg EXCEPT !.flag = FALSE]}
      BY <1>1 DEF Handle, wireless
    <2> QED BY <2>1 DEF Connected, NlInv, NlTypeOK
  <1> QED BY <1>1, <1>2, <1>8, <1>9 DEF NlInv, NlTypeOK

-----------------------------------------------------------------------------
\* An event that is posted finds room in the queue.
LEMMA PostsTyped ==
    ASSUME NlTypeOK, NEW e \in LinkTurn \cup AddressGot, Posts(e)
    PROVE  queue' \in Seq(LinkTurn \cup AddressGot) /\ Len(queue') <= MaxQueue
  <1> DEFINE E == LinkTurn \cup AddressGot
  <1> HIDE DEF E
  <1>1. queue \in Seq(E) /\ e \in E /\ MaxQueue \in Nat
    BY LinkAssumption DEF NlTypeOK, E
  <1>2. Len(queue) < MaxQueue /\ queue' = Append(queue, e)
    BY DEF Posts
  <1>3. queue' \in Seq(E) /\ Len(queue') <= MaxQueue
    BY <1>1, <1>2
  <1> QED BY <1>3 DEF E

\* The world outside moves nothing but what it reports.
LEMMA WorldMovesKeeps == ASSUME NlInv, Plug \/ Lease \/ JoinEnds \/ LoseWifi PROVE NlInv'
  <1>1. /\ UNCHANGED <<link, selected, upstream, choosing, dns, main, ap, recfg, wifiOn, static, linkNvs,
                       linkChanges, boots, mixed>>
        /\ turns' = turns \/ (turns < MaxTurns /\ turns' = turns + 1)
        /\ cable' \in {"out", "in", "leased", cable}
        /\ radio' \in {"joined", "idle", "leased", radio}
        /\ \/ \E ty \in {"ethUp", "ethDown", "staUp", "staDown"} : Posts([type |-> ty])
           \/ \E i \in Iface : \E a \in Leases(i) :
                 \E ty \in {"ethIp", "staIp"} : Posts([type |-> ty, dns |-> a.dns, gw |-> a.gw])
    BY DEF Plug, Lease, JoinEnds, LoseWifi, World, Turn, settings, Iface
  <1>2. /\ \A ty \in {"ethUp", "ethDown", "staUp", "staDown"} : [type |-> ty] \in LinkTurn
        /\ \A i \in Iface : \A a \in Leases(i) :
              \A ty \in {"ethIp", "staIp"} : [type |-> ty, dns |-> a.dns, gw |-> a.gw] \in AddressGot
    BY DEF LinkTurn, AddressGot, Leases, Iface
  <1>3. queue' \in Seq(LinkTurn \cup AddressGot) /\ Len(queue') <= MaxQueue
    BY <1>1, <1>2, PostsTyped DEF NlInv
  <1>4. turns' \in 0 .. MaxTurns
    BY <1>1, LinkAssumption DEF NlInv, NlTypeOK
  <1>5. NlTypeOK'
    BY <1>1, <1>3, <1>4 DEF NlInv, NlTypeOK
  <1> QED BY <1>1, <1>5, LinkSteady, QuietKeeps DEF NlInv

LEMMA SelectUpstreamKeeps == ASSUME NlInv, NEW i \in Iface, SelectUpstream(i) PROVE NlInv'
  <1>1. /\ main = "done" /\ selected' = i /\ linkNvs' = [linkNvs EXCEPT !.upstream = i]
        /\ Chooses("web", i)
        /\ linkChanges < MaxLinkChanges /\ linkChanges' = linkChanges + 1
        /\ UNCHANGED <<link, upstream, dns, main, ap, cable, radio, recfg, queue, turns, boots, mixed, wifiOn,
                       static>>
    BY DEF SelectUpstream, Web
  <1>2. "web" \in Task /\ "main" \in Task
    BY DEF Task
  <1>3. /\ choosing' \in [Task -> SUBSET Source] /\ choosing'["web"] # {}
        /\ \A s \in choosing'["web"] : s.alone => s = PickUpstream(link, i)
        /\ choosing'["main"] # {} => choosing["main"] # {}
    BY <1>1, <1>2, ChoosesTyped DEF NlInv
  <1>4. linkNvs' \in [upstream : Iface \cup {"none"}, wifiOn : BOOLEAN, static : SUBSET Iface]
    BY <1>1 DEF NlInv, NlTypeOK
  <1>5. linkChanges' \in 0 .. MaxLinkChanges
    BY <1>1, LinkAssumption DEF NlInv, NlTypeOK
  <1>6. NlTypeOK'
    <2>1. /\ choosing' \in [Task -> SUBSET Source] /\ linkChanges' \in 0 .. MaxLinkChanges
          /\ linkNvs' \in [upstream : Iface \cup {"none"}, wifiOn : BOOLEAN, static : SUBSET Iface]
          /\ selected' \in Iface
      BY <1>1, <1>3, <1>4, <1>5
    <2>2. UNCHANGED <<link, upstream, dns, main, ap, cable, radio, recfg, queue, turns, boots, mixed, wifiOn,
                      static>>
      BY <1>1
    <2> QED BY <2>1, <2>2 DEF NlInv, NlTypeOK
  <1>7. choosing'["main"] = {}
    BY <1>1, <1>3 DEF NlInv, LinkInv
  <1> QED BY <1>1, <1>2, <1>3, <1>6, <1>7 DEF NlInv, LinkInv, Task

LEMMA SettingsKeep == ASSUME NlInv, SaveForNextBoot \/ SetCreds PROVE NlInv'
  <1>1. /\ linkChanges < MaxLinkChanges /\ linkChanges' = linkChanges + 1
        /\ UNCHANGED <<link, upstream, dns, main, ap, cable, radio, queue, turns, boots, mixed, selected,
                       wifiOn, static, choosing>>
    BY DEF SaveForNextBoot, SetCreds, Web, settings
  <1>2. /\ linkNvs' \in [upstream : Iface \cup {"none"}, wifiOn : BOOLEAN, static : SUBSET Iface]
        /\ recfg' \in [flag : BOOLEAN, late : BOOLEAN, task : {"none", "sleep", "disconnect", "connect"}]
    <2>1. CASE SaveForNextBoot
      <3>1. PICK on \in BOOLEAN, s \in SUBSET Iface :
                linkNvs' = [linkNvs EXCEPT !.wifiOn = on, !.static = s] /\ recfg' = recfg
        BY <2>1 DEF SaveForNextBoot
      <3> QED BY <3>1 DEF NlInv, NlTypeOK
    <2>2. CASE SetCreds
      BY <2>2 DEF SetCreds, settings, NlInv, NlTypeOK
    <2> QED BY <2>1, <2>2
  <1>3. linkChanges' \in 0 .. MaxLinkChanges
    BY <1>1, LinkAssumption DEF NlInv, NlTypeOK
  <1>4. NlTypeOK'
    BY <1>1, <1>2, <1>3 DEF NlInv, NlTypeOK
  <1> QED BY <1>1, <1>4, LinkSteady, QuietKeeps DEF NlInv

LEMMA RebootKeeps == ASSUME NlInv, Reboot PROVE NlInv'
  <1>1. Reset /\ boots < MaxBoots /\ boots' = boots + 1 /\ UNCHANGED <<linkNvs, linkChanges, turns>>
    BY DEF Reboot
  <1>2. [type |-> "staStart"] \in LinkTurn \cup AddressGot
    BY DEF LinkTurn
  <1>3. queue' \in Seq(LinkTurn \cup AddressGot) /\ Len(queue') <= MaxQueue
    <2> DEFINE E == LinkTurn \cup AddressGot
    <2> HIDE DEF E
    <2>1. <<>> \in Seq(E) /\ Len(<<>>) = 0
      OBVIOUS
    <2>2. <<[type |-> "staStart"]>> \in Seq(E) /\ Len(<<[type |-> "staStart"]>>) = 1
      BY <1>2 DEF E
    <2>3. 0 <= MaxQueue /\ 1 <= MaxQueue
      BY LinkAssumption
    <2>4. queue' \in Seq(E) /\ Len(queue') <= MaxQueue
      BY <1>1, <2>1, <2>2, <2>3, Zenon DEF Reset
    <2> QED BY <2>4 DEF E
  <1>4. boots' \in 0 .. MaxBoots
    BY <1>1, LinkAssumption DEF NlInv, NlTypeOK
  <1>5. /\ link' \in [Iface -> LinkState] /\ choosing' \in [Task -> SUBSET Source]
        /\ \A t \in Task : choosing'[t] = {}
    BY <1>1 DEF Reset, Down, LinkState
  <1>6. /\ selected' \in Iface /\ wifiOn' \in BOOLEAN /\ static' \subseteq Iface
        /\ upstream' \in [text : 0 .. 9, addr : 0 .. 9]
        /\ dns' \in [pc : {"off", "read", "store", "run"}, read : 0 .. 9] /\ main' = "links"
        /\ ap' \in [mode : BOOLEAN, flag : BOOLEAN]
        /\ cable' = "out" /\ radio' \in {"idle", "off"}
        /\ recfg' \in [flag : BOOLEAN, late : BOOLEAN, task : {"none", "sleep", "disconnect", "connect"}]
        /\ mixed' = FALSE
    BY <1>1 DEF Reset, NlInv, NlTypeOK, Iface
  <1>7. NlTypeOK'
    BY <1>1, <1>3, <1>4, <1>5, <1>6 DEF NlInv, NlTypeOK
  <1> QED BY <1>5, <1>6, <1>7 DEF NlInv, LinkInv, Task

LEMMA ReconfigureKeeps == ASSUME NlInv, Reconfigure \/ Deadline PROVE NlInv'
  <1>1. /\ UNCHANGED <<link, selected, upstream, choosing, dns, main, ap, cable, wifiOn, static, linkNvs,
                       linkChanges, turns, boots, mixed>>
        /\ \/ queue' = queue
           \/ Posts([type |-> "staDown"])
        /\ radio' \in {radio, "idle", Connected}
        /\ \/ recfg' = [flag |-> TRUE, late |-> FALSE, task |-> "disconnect"]
           \/ recfg' = [recfg EXCEPT !.task = "connect"]
           \/ recfg' = [recfg EXCEPT !.task = "none"]
           \/ recfg' = [recfg EXCEPT !.late = TRUE]
    BY DEF Reconfigure, Deadline, settings, bounds
  <1>2. [type |-> "staDown"] \in LinkTurn \cup AddressGot
    BY DEF LinkTurn
  <1>3. queue' \in Seq(LinkTurn \cup AddressGot) /\ Len(queue') <= MaxQueue
    BY <1>1, <1>2, PostsTyped DEF NlInv, NlTypeOK
  <1>4. radio' \in {"off", "idle", "trying", "joined", "leased"}
    BY <1>1 DEF Connected, NlInv, NlTypeOK
  <1>5. recfg' \in [flag : BOOLEAN, late : BOOLEAN, task : {"none", "sleep", "disconnect", "connect"}]
    <2> DEFINE R == [flag : BOOLEAN, late : BOOLEAN, task : {"none", "sleep", "disconnect", "connect"}]
    <2>1. recfg \in R
      BY DEF NlInv, NlTypeOK
    <2>2. \A r \in R : /\ [r EXCEPT !.task = "connect"] \in R /\ [r EXCEPT !.task = "none"] \in R
                       /\ [r EXCEPT !.late = TRUE] \in R
      OBVIOUS
    <2>3. [flag |-> TRUE, late |-> FALSE, task |-> "disconnect"] \in R
      OBVIOUS
    <2> HIDE DEF R
    <2>4. recfg' \in R
      BY <1>1, <2>1, <2>2, <2>3
    <2> QED BY <2>4 DEF R
  <1>6. NlTypeOK'
    BY <1>1, <1>3, <1>4, <1>5 DEF NlInv, NlTypeOK
  <1> QED BY <1>1, <1>6, LinkSteady, QuietKeeps DEF NlInv

LEMMA NlStepKeeps == NlInv /\ [NlNext]_nlVars => NlInv'
  <1> SUFFICES ASSUME NlInv, [NlNext]_nlVars PROVE NlInv'
    OBVIOUS
  <1>1. CASE Main
    BY <1>1, MainBeginsKeeps, StartDnsKeeps, ReapplyKeeps, SetFirstKeeps, StartUiKeeps DEF Main
  <1>2. CASE DnsStarts \/ HandleEvent
    BY <1>2, DnsStartsKeeps, HandleEventKeeps
  <1>3. CASE Plug \/ Lease \/ JoinEnds \/ LoseWifi
    BY <1>3, WorldMovesKeeps
  <1>4. CASE \E i \in Iface : SelectUpstream(i)
    BY <1>4, SelectUpstreamKeeps
  <1>5. CASE WebSets \/ SaveForNextBoot \/ SetCreds
    BY <1>5, WebSetsKeeps, SettingsKeep
  <1>6. CASE Reboot \/ Reconfigure \/ Deadline
    BY <1>6, RebootKeeps, ReconfigureKeeps
  <1>7. CASE UNCHANGED nlVars
    BY <1>7 DEF nlVars, NlInv, NlTypeOK, LinkInv, Selected
  <1> QED BY <1>1, <1>2, <1>3, <1>4, <1>5, <1>6, <1>7 DEF NlNext

\* net_link.c: once all is settled, queries go where the selected interface says,
\* whatever came up while dns_task was started; unless two calls of set_upstream
\* overlapped, or a static interface went down and took its resolver with it.
THEOREM UpstreamFollowsSelection == NlSpec => []UpstreamIsTheSelectedOnes
  <1>1. NlInv => UpstreamIsTheSelectedOnes
    BY DEF NlInv, LinkInv, UpstreamIsTheSelectedOnes, Settled, Follows, Selected
  <1> QED BY <1>1, NlInitHolds, NlStepKeeps, PTL DEF NlSpec

\* net_link.c: every reachable state is well typed; in particular the queue of
\* events keeps its bound.
THEOREM LinksTypeCorrect == NlSpec => []NlTypeOK
  <1>1. NlInv => NlTypeOK
    BY DEF NlInv
  <1> QED BY <1>1, NlInitHolds, NlStepKeeps, PTL DEF NlSpec
-----------------------------------------------------------------------------
(***************************************************************************)
(* The instance the runs explore.                                          *)
(***************************************************************************)
LEMMA ServicesBegin == MCInit => /\ Init /\ FpInit /\ PtInit /\ QlInit /\ CnInit
                                 /\ CsInit /\ WsInit /\ AuthInit /\ NlInit
  BY DEF MCInit

LEMMA ServicesStep ==
    ASSUME [MCNext]_<<vars, fpVars, ptVars, qlVars, cnVars, csVars, wsVars, authVars, nlVars, part>>
    PROVE  /\ [Next]_vars /\ [FpNext]_fpVars /\ [PtNext]_ptVars /\ [QlNext]_qlVars /\ [CnNext]_cnVars
           /\ [CsNext]_csVars /\ [WsNext]_wsVars /\ [AuthNext]_authVars /\ [NlNext]_nlVars
  BY DEF MCNext

\* What MCServices explores is a behaviour of each of the nine, so that what is proved of
\* them holds in the run; of the links without their fairness, which the run does not assume.
THEOREM ServicesRunTheirParts == MCSpec => /\ Spec /\ FpSpec /\ PtSpec /\ QlSpec /\ CnSpec
                                           /\ CsSpec /\ WsSpec /\ AuthSpec
                                           /\ NlInit /\ [][NlNext]_nlVars
  BY ServicesBegin, ServicesStep, PTL
     DEF MCSpec, Spec, FpSpec, PtSpec, QlSpec, CnSpec, CsSpec, WsSpec, AuthSpec

\* Every variable of the nine keeps its type.
THEOREM ServicesTypesCorrect == MCSpec => []TypesOK
  <1>1. MCSpec => []( /\ TypeOK /\ FpTypeOK /\ PtTypeOK /\ QlTypeOK /\ CnTypeOK
                      /\ CsTypeOK /\ WsTypeOK /\ AuthTypeOK)
    BY ServicesRunTheirParts, ListStoreTypeCorrect, FastPathTypeCorrect, PausesTypeCorrect,
       LogTypeCorrect, CensusTypeCorrect, StoresTypeCorrect, WarmTypeCorrect, AuthTypeCorrect, PTL
  <1>2. MCSpec => []NlInv
    BY ServicesRunTheirParts, NlInitHolds, NlStepKeeps, PTL
  <1>3. NlInv => NlTypeOK
    BY DEF NlInv
  <1>. QED BY <1>1, <1>2, <1>3, PTL DEF TypesOK
================================================================================
