---------------------------- MODULE PhoneSession ----------------------------
(***************************************************************************)
(* The phone's two token stores: the app's (AsyncStorage, js) and the      *)
(* tracking service's (prefs, native).  Both refresh by themselves, so     *)
(* each may hold a pair the other has spent; the app reconciles them when  *)
(* a screen mounts, pushes what it refreshed, and hands a pair to the      *)
(* service when tracking is enabled.                                       *)
(*                                                                         *)
(* The app is single-threaded: between two of its awaits nothing of its    *)
(* own runs.  At each await another of its tasks may go on: every mount of *)
(* a screen starts one, and so does the button that enables tracking,      *)
(* whatever is under way; the refresh they share, or a sign-in, is job.    *)
(***************************************************************************)
EXTENDS TokenRotation

CONSTANTS
  App, Service,    \* the flows of the app and of the service
  Tasks,           \* bound: the tasks of the app that may be under way at once
  MaxSignIns,      \* bound: nobody signs in once this many tokens are saved
  Margin           \* bufferSec: how early the app takes an access token for expired

ASSUME PhoneAssumption ==
  /\ {App, Service} \subseteq Flows \ {Ghost} /\ App # Service
  /\ MaxSignIns \in Nat /\ Margin \in Nat \ {0}

VARIABLES
  js, native,      \* the pairs stored: [access, refresh], 0 when absent
  service,         \* [running, expired]: expired is BatchSender.authExpired
  screen,
  tasks,           \* [at, pair, renews]: where the task is, the pair it has read, and
                   \* whether it hands it to a service that runs
  job,             \* [for, saved]: saved counts the writes of its answer
  overlaps,        \* history: how many tasks started beside another
  excused          \* history: there is no session, or a fault, the user or an overlap
                   \* since the sign-in may have cost it

phoneVars == <<js, native, service, screen, tasks, job, overlaps, excused>>

NoTokens == [access |-> 0, refresh |-> 0]
Both(i) == [access |-> i, refresh |-> i]
Start(at) == [at |-> at, pair |-> NoTokens, renews |-> FALSE]
Off == Start("off")
NoJob == [for |-> "nothing", saved |-> 0]
Jobs == {"nothing", "register", "login", "refresh", "refreshForLogin", "loginAgain"}

PhoneTypeOK ==
  LET StoredPair == [access : 0 .. Len(tokens), refresh : 0 .. Len(tokens)] IN
  /\ js \in StoredPair /\ native \in StoredPair
  /\ service \in [running : BOOLEAN, expired : BOOLEAN]
  /\ screen \in {"closed", "loading", "auth", "tracking"}
  /\ tasks \in [Tasks ->
       [at : {"off", "read", "decide", "adopt", "next", "check", "begin", "gather", "hand"},
        pair : StoredPair, renews : BOOLEAN]]
  /\ job \in [for : Jobs, saved : 0 .. 2]
  /\ overlaps \in Nat /\ excused \in BOOLEAN

PhoneInit ==
  /\ js = NoTokens /\ native = NoTokens
  /\ service = [running |-> FALSE, expired |-> FALSE]
  /\ screen = "closed"
  /\ tasks = [t \in Tasks |-> Off] /\ job = NoJob
  /\ overlaps = 0 /\ excused = TRUE

Fresh(access) == access # 0 /\ AccessExpires(access) - now >= Margin

-----------------------------------------------------------------------------
(* The app's tasks.                                                         *)

Idle(t) == tasks[t].at = "off"
Goes(t, to) == tasks' = [tasks EXCEPT ![t] = to]

\* A task that starts is any that is idle; they differ in nothing.
Free == CHOOSE t \in Tasks : Idle(t)

\* Nothing keeps a task from starting beside another.  An overlap counts
\* against MaxFaults, and excuses the loss of the session.
Overlaps ==
  LET beside == \E t \in Tasks : ~Idle(t) IN
  /\ beside => faults + overlaps < MaxFaults
  /\ overlaps' = IF beside THEN overlaps + 1 ELSE overlaps
  /\ excused' = (excused \/ beside)

-----------------------------------------------------------------------------
(* Screens mount.                                                           *)

AppOpens ==
  /\ screen = "closed"
  /\ screen' = "loading"
  /\ Goes(Free, Start("read"))
  /\ UNCHANGED <<js, native, service, job, overlaps, excused, authVars>>

\* What the app had under way is gone; the gateway goes on with its request.
\* Closing is one of the MaxFaults.
AppCloses ==
  /\ screen # "closed"
  /\ HangUp(App) /\ faults' + overlaps <= MaxFaults
  /\ screen' = "closed"
  /\ tasks' = [t \in Tasks |-> Off] /\ job' = NoJob
  /\ excused' = (excused \/ job # NoJob \/ \E t \in Tasks : tasks[t].at = "adopt")
  /\ UNCHANGED <<js, native, service, overlaps>>

\* The user switches to the other tab and back: the tracking screen mounts once
\* more, and the tasks of its earlier mounts go on.
Remounts ==
  /\ screen = "tracking" /\ Overlaps
  /\ (\E t \in Tasks : Idle(t)) /\ Goes(Free, Start("read"))
  /\ UNCHANGED <<js, native, service, screen, job, authVars>>

-----------------------------------------------------------------------------
(* syncTokensFromNative, and what follows it.                               *)

ReadNative(t) ==
  /\ tasks[t].at = "read"
  /\ \/ 0 \in {native.access, native.refresh} /\ Goes(t, Start("next"))
     \/ 0 \notin {native.access, native.refresh} /\ Goes(t, [Start("decide") EXCEPT !.pair = native])
  /\ UNCHANGED <<js, native, service, screen, job, overlaps, excused, authVars>>

\* Whether the service's pair replaces the app's; a faulty variant takes any
\* pair that differs.
AdoptsAny(mine, theirs) == TRUE

Adopts(mine, theirs) ==
  0 \in {mine.access, mine.refresh} \/ AccessExpires(theirs.access) > AccessExpires(mine.access)

\* The app's pair as it is now decides, against the service's as it was read.
Reconcile(t) ==
  /\ tasks[t].at = "decide"
  /\ LET theirs == tasks[t].pair
         same == js.refresh = theirs.refresh /\ js.access # 0
         adopts == ~same /\ Adopts(js, theirs)
     IN /\ js' = IF adopts THEN [js EXCEPT !.access = theirs.access] ELSE js
        /\ native' = IF same \/ adopts THEN native ELSE js
        /\ Goes(t, IF adopts THEN [tasks[t] EXCEPT !.at = "adopt"] ELSE Start("next"))
  /\ UNCHANGED <<service, screen, job, overlaps, excused, authVars>>

\* saveTokens: the refresh token is the second of the two writes.
Adopt(t) ==
  /\ tasks[t].at = "adopt"
  /\ js' = [js EXCEPT !.refresh = tasks[t].pair.refresh]
  /\ Goes(t, Start("next"))
  /\ UNCHANGED <<native, service, screen, job, overlaps, excused, authVars>>

\* App: the screen after the first reconciliation; the tracking screen makes a
\* second, and then autoConnectIfReady decides.  It starts a service only with
\* the permission to know where the phone is, which may be missing.
AfterSync(t) ==
  /\ tasks[t].at = "next"
  /\ \/ /\ screen = "loading" /\ js.access # 0
        /\ screen' = "tracking" /\ Goes(t, Start("read"))
     \/ /\ screen = "loading" /\ js.access = 0
        /\ screen' = "auth" /\ Goes(t, Off)
     \/ /\ screen # "loading"
        /\ LET ready == IF service.running THEN service.expired ELSE js.access # 0
               begins == [Start("begin") EXCEPT !.renews = service.running]
           IN \/ ready /\ Goes(t, begins)
              \/ (ready => ~service.running) /\ Goes(t, Off)
        /\ UNCHANGED screen
  /\ UNCHANGED <<js, native, service, job, overlaps, excused, authVars>>

-----------------------------------------------------------------------------
(* getValidToken and the refresh its callers share.                         *)

Refreshing == job.for \in {"refresh", "refreshForLogin"}

AsksRefresh(for) == job' = [for |-> for, saved |-> 0] /\ AskRefresh(App, js.refresh)

\* refreshOnce: the caller waits for the refresh under way, or for its own.
RefreshOnce ==
  IF Refreshing THEN UNCHANGED <<job, exchange>> ELSE AsksRefresh("refresh")

CanRefresh == Refreshing \/ js.refresh # 0

\* startNativeTracking, refreshNativeCredentials: the refresh token is read
\* while the access token may still be refreshed.
Begin(t) ==
  /\ tasks[t].at = "begin"
  /\ \/ /\ Fresh(js.access)
        /\ Goes(t, [tasks[t] EXCEPT !.at = "hand", !.pair = js])
        /\ UNCHANGED <<job, exchange>>
     \/ /\ ~Fresh(js.access) /\ CanRefresh
        /\ Goes(t, [tasks[t] EXCEPT !.at = "gather", !.pair = [js EXCEPT !.access = 0]])
        /\ RefreshOnce
     \/ /\ ~Fresh(js.access) /\ ~CanRefresh
        /\ Goes(t, Off)
        /\ UNCHANGED <<job, exchange>>
  /\ UNCHANGED <<js, native, service, screen, overlaps, excused, now, registered, tokens, faults>>

\* handleEnable: getValidToken first; a failure wipes the tokens.
UserEnables ==
  /\ screen = "tracking" /\ ~service.running /\ (\E t \in Tasks : Idle(t)) /\ Overlaps
  /\ \/ /\ Fresh(js.access)
        /\ Goes(Free, Start("begin"))
        /\ UNCHANGED <<js, screen, job, exchange>>
     \/ /\ ~Fresh(js.access) /\ CanRefresh
        /\ Goes(Free, Start("check"))
        /\ RefreshOnce
        /\ UNCHANGED <<js, screen>>
     \/ /\ ~Fresh(js.access) /\ ~CanRefresh
        /\ js' = NoTokens /\ screen' = "auth"
        /\ UNCHANGED <<tasks, job, exchange>>
  /\ UNCHANGED <<native, service, now, registered, tokens, faults>>

\* updateTokens and reconnectWs, which makes a service that stopped meanwhile
\* connect again; or enableTracking, which starts only a service that does not run.
HandOver(t) ==
  /\ tasks[t].at = "hand"
  /\ native' = tasks[t].pair
  /\ service' = IF service.running /\ ~tasks[t].renews THEN service
                ELSE [running |-> TRUE, expired |-> FALSE]
  /\ Goes(t, Off)
  /\ UNCHANGED <<js, screen, job, overlaps, excused, authVars>>

-----------------------------------------------------------------------------
(* The answer of the app's request: two writes, the push, then the waiters. *)

\* Typing an account and a password takes longer than what the app awaits.
UserSignsIn ==
  /\ screen = "auth" /\ job = NoJob /\ \A t \in Tasks : Idle(t)
  /\ Len(tokens) < MaxSignIns
  /\ AskSignIn(App)
  /\ job' = [for |-> exchange'[App].step, saved |-> 0]
  /\ UNCHANGED <<js, native, service, screen, tasks, overlaps, excused, now, registered, tokens, faults>>

\* Nothing keeps the writes of an adoption and of an answer apart: together
\* they may leave the store with a token of each pair.
SaveAccess ==
  /\ Answered(App) /\ job.saved = 0
  /\ js' = [js EXCEPT !.access = PairOf(App)]
  /\ job' = [job EXCEPT !.saved = 1]
  /\ UNCHANGED <<native, service, screen, tasks, overlaps, excused, authVars>>

SaveRefresh ==
  /\ Answered(App) /\ job.saved = 1
  /\ js' = [js EXCEPT !.refresh = PairOf(App)]
  /\ job' = [job EXCEPT !.saved = 2]
  /\ UNCHANGED <<native, service, screen, tasks, overlaps, excused, authVars>>

\* Where a waiting task goes when the refresh gave the access token.
Given(task, access) ==
  CASE task.at = "check"  -> Start("begin")
    [] task.at = "gather" -> [task EXCEPT !.at = "hand", !.pair.access = access]
    [] OTHER              -> task

\* doRefresh pushes the pair to the service; then whoever waits goes on, or the
\* refused login is sent again.
RefreshDone ==
  /\ Answered(App) /\ Refreshing /\ job.saved = 2
  /\ native' = Both(PairOf(App))
  /\ tasks' = [t \in Tasks |-> Given(tasks[t], PairOf(App))]
  /\ \/ job.for = "refresh" /\ job' = NoJob /\ Heard(App)
     \/ /\ job.for = "refreshForLogin" /\ job' = [for |-> "loginAgain", saved |-> 0]
        /\ AskLogin(App)
  /\ UNCHANGED <<js, service, screen, overlaps, excused, now, registered, tokens, faults>>

\* AuthScreen.onAuth: the tracking screen mounts.
SignedIn ==
  /\ Answered(App) /\ ~Refreshing /\ job.saved = 2
  /\ screen' = "tracking" /\ Goes(Free, Start("read"))
  /\ excused' = ~RefreshValid(js.refresh)
  /\ job' = NoJob /\ Heard(App)
  /\ UNCHANGED <<js, native, service, overlaps, now, registered, tokens, faults>>

\* apiFetch takes the 401 of a login, not of a registration, for that of an
\* expired token: it refreshes with what the store holds.
RetriesLogin == exchange[App].step = "refused" /\ job.for = "login" /\ js.refresh # 0

LoginRefused ==
  /\ RetriesLogin
  /\ AsksRefresh("refreshForLogin")
  /\ UNCHANGED <<js, native, service, screen, tasks, overlaps, excused, now, registered, tokens, faults>>

\* A refused refresh clears the app's tokens, a broken connection does not; a task
\* that waits gives up, and handleEnable wipes the tokens in either case.
RequestFails ==
  /\ NotAnswered(App) /\ ~RetriesLogin
  /\ LET refused == exchange[App].step = "refused" /\ Refreshing
         wiped == \E t \in Tasks : tasks[t].at = "check"
     IN /\ js' = IF refused \/ wiped THEN NoTokens ELSE js
        /\ screen' = IF wiped THEN "auth" ELSE screen
        /\ tasks' = [t \in Tasks |-> IF tasks[t].at \in {"check", "gather"} THEN Off ELSE tasks[t]]
  /\ job' = NoJob /\ Heard(App)
  /\ UNCHANGED <<native, service, overlaps, excused, now, registered, tokens, faults>>

-----------------------------------------------------------------------------
(* The service.                                                             *)

ServiceRefreshes ==
  /\ service.running /\ ~service.expired /\ IsIdle(Service)
  /\ ~AccessValid(native.access)
  /\ IF native.refresh = 0
     THEN service' = [service EXCEPT !.expired = TRUE] /\ UNCHANGED exchange
     ELSE AskRefresh(Service, native.refresh) /\ UNCHANGED service
  /\ UNCHANGED <<js, native, screen, tasks, job, overlaps, excused, now, registered, tokens, faults>>

ServiceRefreshed ==
  /\ Answered(Service)
  /\ native' = Both(PairOf(Service))
  /\ Heard(Service)
  /\ UNCHANGED <<js, service, screen, tasks, job, overlaps, excused, now, registered, tokens, faults>>

ServiceRefused ==
  /\ NotAnswered(Service)
  /\ service' = [service EXCEPT !.expired = TRUE]
  /\ Heard(Service)
  /\ UNCHANGED <<js, native, screen, tasks, job, overlaps, excused, now, registered, tokens, faults>>

UserDisables ==
  /\ screen = "tracking" /\ service.running
  /\ service' = [running |-> FALSE, expired |-> FALSE]
  /\ UNCHANGED <<js, native, screen, tasks, job, overlaps, excused, authVars>>

UserReconnects ==
  /\ screen = "tracking" /\ service.running /\ service.expired
  /\ service' = [service EXCEPT !.expired = FALSE]
  /\ UNCHANGED <<js, native, screen, tasks, job, overlaps, excused, authVars>>

-----------------------------------------------------------------------------

PhoneNext ==
  \/ AppOpens \/ AppCloses \/ Remounts
  \/ \E t \in Tasks :
       ReadNative(t) \/ Reconcile(t) \/ Adopt(t) \/ AfterSync(t) \/ Begin(t) \/ HandOver(t)
  \/ UserEnables \/ UserSignsIn \/ SaveAccess \/ SaveRefresh \/ RefreshDone
  \/ SignedIn \/ LoginRefused \/ RequestFails
  \/ ServiceRefreshes \/ ServiceRefreshed \/ ServiceRefused \/ UserDisables \/ UserReconnects

\* The session is in a store, in a task's hands, or being exchanged.
InHand ==
  {js.refresh, native.refresh}
    \cup {exchange[f].token : f \in {g \in {App, Service} : Answered(g)}}
    \cup {tasks[t].pair.refresh : t \in Tasks}

SessionIsAlive ==
  \/ \E i \in InHand : RefreshValid(i)
  \/ \E f \in {App, Service} : exchange[f].step = "save"

\* Once signed in, somebody holds a refresh token the gateway accepts: no order
\* of the two stores' refreshes, reconciliations and hand-overs loses the session
\* while the app does one thing at a time, remounts included.  Excused are an
\* overlap since the sign-in (two tasks side by side do lose the session, against
\* the comment of tokenSync), a fault, an app closed in the middle of an exchange
\* or an adoption, and a token that grows older than its time to live: the last
\* one, or any while a request is under way.
SessionSurvives == excused \/ SessionIsAlive

\* The handlers' steps; a fault of theirs may cost the session.  An answer that
\* is being stored has arrived: it cannot break any more.
PhoneGateway ==
  /\ GatewayNext
  /\ faults' + overlaps <= MaxFaults
  /\ job.saved = 0 \/ Answered(App)'
  /\ excused' = (excused \/ faults' # faults)
  /\ UNCHANGED <<js, native, service, screen, tasks, job, overlaps>>

\* Time is counted in minutes: none passes between two awaits of a task that
\* waits for no answer.
AtRest ==
  /\ job.saved = 0 /\ ~Answered(App)
  /\ \A t \in Tasks : tasks[t].at \in {"off", "check", "gather"}

\* Time passes; a token may expire with it, the last one or one that a store
\* still holds while the answer to a request is on its way.
PhoneTick ==
  /\ AtRest /\ Tick
  /\ UNCHANGED <<js, native, service, screen, tasks, job, overlaps>>
  /\ excused' =
       \/ excused
       \/ SessionIsAlive /\ ~SessionIsAlive'
       \/ /\ ~IsIdle(App) \/ ~IsIdle(Service)
          /\ \E i \in InHand : RefreshValid(i) /\ ~RefreshValid(i)'
=============================================================================
