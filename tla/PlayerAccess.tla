--------------------------- MODULE PlayerAccess ----------------------------
(* Who a player is: the sessions and identities the web servers keep in      *)
(* Redis, and the profiles the agent runtime keeps for the subjects that     *)
(* sign in.  Every access to Redis or to the runtime is an await, at which   *)
(* requests of other servers, of another tab, or of an administrator come    *)
(* in between.  web/src/server.ts, web/src/sessionStore.ts,                  *)
(* agent-runtime/src/index.ts, agent-runtime/src/routes/profiles.ts.         *)
EXTENDS Integers, Sequences, FiniteSets

CONSTANTS
    Subject,        \* people that sign in
    AdminSubject,   \* those of them with an administrator's address
    Request,        \* requests under way at once
    MaxRequests,    \* bound on the requests made
    MaxProfiles,    \* bound on the profiles made
    MaxSessions,    \* bound on the sessions opened
    MaxFaults       \* bound on crashes of the runtime and calls to it that fail

Profile == 1 .. MaxProfiles
NoProfile == 0
Sid == 1 .. MaxSessions
NoIdentity == -1    \* nothing stored for a subject

VARIABLES
    profileCounter, \* agent runtime: the number of the next profile
    subjectLinks,   \* agent runtime: subject -> its profile
    runtimeDisk,    \* what of these was saved last
    identities,     \* Redis: subject -> the profile of its identity
    sessions,       \* Redis: the sessions
    sessionOf,      \* the subject a session was opened for
    sessionsBySub,  \* Redis: subject -> session ids
    subsByProfile,  \* Redis: profile -> subjects
    request,        \* the requests under way
    purge,          \* an administrator logging a profile out
    requests,       \* the number of requests so far
    faults,
    lost            \* history: a crash of the runtime has lost a profile

runtimeVars == <<profileCounter, subjectLinks, runtimeDisk>>
sessionVars == <<sessions, sessionOf, sessionsBySub>>
accessVars == <<runtimeVars, identities, sessionVars, subsByProfile, request, requests, purge,
                faults, lost>>

Idle == [pc |-> "idle", kind |-> "none", sub |-> "nobody", profile |-> NoProfile, sid |-> 0]
NoPurge == [subs |-> {}, sids |-> {}, before |-> {}]
RuntimeState == [profileCounter |-> profileCounter, subjectLinks |-> subjectLinks]

AccessInit ==
    /\ profileCounter = 1
    /\ subjectLinks = [s \in Subject |-> NoProfile]
    /\ runtimeDisk = RuntimeState
    /\ identities = [s \in Subject |-> NoIdentity]
    /\ sessions = {}
    /\ sessionOf = <<>>
    /\ sessionsBySub = [s \in Subject |-> {}]
    /\ subsByProfile = [p \in Profile |-> {}]
    /\ request = [v \in Request |-> Idle]
    /\ requests = 0
    /\ purge = NoPurge
    /\ faults = 0
    /\ lost = FALSE

Arrive == requests < MaxRequests /\ requests' = requests + 1
Fault == faults < MaxFaults /\ faults' = faults + 1
Linked(s) == subjectLinks[s] # NoProfile
Goto(v, pc) == request' = [request EXCEPT ![v].pc = pc]
Known(v, p, pc) == request' = [request EXCEPT ![v].pc = pc, ![v].profile = p]
Finish(v) == request' = [request EXCEPT ![v] = Idle]

(* setIdentity and addSubForProfile for the copy a request works on.         *)
StoreIdentity(s, p) ==
    /\ identities' = [identities EXCEPT ![s] = p]
    /\ subsByProfile' = IF p = NoProfile THEN subsByProfile
                        ELSE [subsByProfile EXCEPT ![p] = @ \cup {s}]

-----------------------------------------------------------------------------
(* Signing in.  The local sign-in opens its session first and asks for the   *)
(* profile then; the others do it the other way round, once Firebase or      *)
(* Google has vouched for the subject.  A subject's prefix says which of     *)
(* them it uses; that is left open here.                                     *)
SignIn(v, s, pc, kind) ==
    /\ request[v].pc = "idle"
    /\ Arrive
    /\ request' = [request EXCEPT ![v] =
            [pc |-> pc, kind |-> kind, sub |-> s,
             profile |-> IF identities[s] = NoIdentity THEN NoProfile ELSE identities[s],
             sid |-> 0]]
    /\ UNCHANGED <<runtimeVars, sessionVars, purge, faults, lost>>

LocalSignIn(v, s) ==
    /\ SignIn(v, s, "session", "local")
    /\ StoreIdentity(s, request'[v].profile)

EmailSignIn(v, s) == SignIn(v, s, "link", "remote") /\ UNCHANGED <<identities, subsByProfile>>

(* Two of the ways do not sign in an address that is not verified.           *)
FirebaseSignIn(v, s, verified) ==
    verified /\ SignIn(v, s, "link", "remote") /\ UNCHANGED <<identities, subsByProfile>>
GoogleSignIn(v, s, verified) ==
    verified /\ SignIn(v, s, "link", "remote") /\ UNCHANGED <<identities, subsByProfile>>

(* A request with the cookie of a session: requireRole.                      *)
Enter(v, sid) ==
    /\ request[v].pc = "idle"
    /\ Arrive
    /\ sid \in sessions
    /\ LET s == sessionOf[sid]
       IN  /\ identities[s] # NoIdentity
           /\ request' = [request EXCEPT ![v] =
                [pc |-> "reconcile", kind |-> "cookie", sub |-> s, profile |-> identities[s],
                 sid |-> sid]]
    /\ UNCHANGED <<runtimeVars, identities, sessionVars, subsByProfile, purge, faults, lost>>

(* reconcileIdentityLink; a link that is missing, or a runtime that does not *)
(* answer, leaves the identity as it was.                                    *)
Reconcile(v, up) ==
    /\ request[v].pc = "reconcile"
    /\ IF up THEN UNCHANGED faults ELSE Fault
    /\ LET s == request[v].sub
           p == IF up /\ Linked(s) THEN subjectLinks[s] ELSE request[v].profile
       IN  /\ Known(v, p, "authorised")
           /\ IF p # request[v].profile THEN StoreIdentity(s, p)
              ELSE UNCHANGED <<identities, subsByProfile>>
    /\ UNCHANGED <<requests, runtimeVars, sessionVars, purge, lost>>

(* ensurePlayerProvisioned: the lookup of the link, which answers nothing    *)
(* also when the runtime cannot be reached ...                               *)
Provisioned(v) == IF request[v].kind = "bootstrap" THEN "answer" ELSE "store"

LookUp(v, up) ==
    /\ request[v].pc = "link"
    /\ IF up THEN UNCHANGED faults ELSE Fault
    /\ LET s == request[v].sub
       IN  IF up /\ Linked(s) THEN Known(v, subjectLinks[s], Provisioned(v)) ELSE Goto(v, "provision")
    /\ UNCHANGED <<requests, runtimeVars, identities, sessionVars, subsByProfile, purge, lost>>

(* Faulty variant of ProvisionedProfile: the link of the subject is not looked up. *)
ProvisionedAnew(s) == profileCounter

(* ... and provisionProfileForSubject, which makes a profile unless the      *)
(* subject has one.  Its answer may be lost.                                 *)
ProvisionedProfile(s) == IF Linked(s) THEN subjectLinks[s] ELSE profileCounter

Provision(v, answered) ==
    /\ request[v].pc = "provision"
    /\ IF answered THEN UNCHANGED faults ELSE Fault
    /\ LET s == request[v].sub
           p == ProvisionedProfile(s)
       IN  /\ p \in Profile
           /\ profileCounter' = IF p = profileCounter THEN p + 1 ELSE profileCounter
           /\ subjectLinks' = [subjectLinks EXCEPT ![s] = p]
           /\ IF answered THEN Known(v, p, Provisioned(v)) ELSE Finish(v)
    /\ UNCHANGED <<requests, runtimeDisk, identities, sessionVars, subsByProfile, purge, lost>>

ProvisionFails(v) ==
    /\ request[v].pc = "provision"
    /\ Fault
    /\ Finish(v)
    /\ UNCHANGED <<requests, runtimeVars, identities, sessionVars, subsByProfile, purge, lost>>

(* ... and the identity as it is now, which one of the routes does not enter *)
(* in the index of its profile.                                              *)
Store(v) ==
    /\ request[v].pc = "store"
    /\ IF request[v].kind = "wallet"
       THEN /\ identities' = [identities EXCEPT ![request[v].sub] = request[v].profile]
            /\ UNCHANGED subsByProfile
       ELSE StoreIdentity(request[v].sub, request[v].profile)
    /\ CASE request[v].kind \in {"local", "wallet", "profile"} -> Finish(v)
         [] request[v].kind = "player" -> Goto(v, "answer")
         [] OTHER -> Goto(v, "session")
    /\ UNCHANGED <<requests, runtimeVars, sessionVars, purge, faults, lost>>

(* setSession, and addSessionForSub after it; the local sign-in goes on to   *)
(* ask for the profile with its session open.                                *)
OpenSession(v) ==
    /\ request[v].pc = "session"
    /\ Len(sessionOf) < MaxSessions
    /\ LET sid == Len(sessionOf) + 1
       IN  /\ sessions' = sessions \cup {sid}
           /\ sessionOf' = Append(sessionOf, request[v].sub)
           /\ request' = [request EXCEPT ![v].pc = "index", ![v].sid = sid]
    /\ UNCHANGED <<requests, runtimeVars, identities, sessionsBySub, subsByProfile, purge, faults, lost>>

IndexSession(v) ==
    /\ request[v].pc = "index"
    /\ sessionsBySub' = [sessionsBySub EXCEPT ![request[v].sub] = @ \cup {request[v].sid}]
    /\ IF request[v].kind = "local" THEN Goto(v, "link") ELSE Finish(v)
    /\ UNCHANGED <<requests, runtimeVars, identities, sessions, sessionOf, subsByProfile, purge, faults,
                   lost>>

-----------------------------------------------------------------------------
(* What a player's page asks for, once requireRole has let it in.  Three of  *)
(* the routes provision a subject that has no profile yet.                   *)
Ask(v, kind) ==
    /\ request[v].pc = "authorised"
    /\ request' = [request EXCEPT ![v].kind = kind, ![v].pc =
                        IF request[v].profile = NoProfile THEN "link" ELSE "answer"]
    /\ UNCHANGED <<requests, runtimeVars, identities, sessionVars, subsByProfile, purge, faults, lost>>

PlayerMe(v) == Ask(v, "player")
Bootstrap(v) == Ask(v, "bootstrap")
IdentityWallet(v) == request[v].profile = NoProfile /\ Ask(v, "wallet")

(* The answer of /api/player/me: the profile of the identity, looked up in   *)
(* the list of the runtime, with a token for the game server.  A profile     *)
(* that is not in the list is looked up by its link once more; without a     *)
(* runtime the identity is trusted.                                          *)
Listed(p) == p < profileCounter
AnsweredProfile(s, p, up) ==
    IF ~up \/ Listed(p) THEN p
    ELSE IF Linked(s) THEN subjectLinks[s] ELSE NoProfile

AnswerPlayer(v, up) ==
    /\ request[v].pc = "answer" /\ request[v].kind = "player"
    /\ IF up THEN UNCHANGED faults ELSE Fault
    /\ LET s == request[v].sub
           p == AnsweredProfile(s, request[v].profile, up)
       IN  IF up /\ p # NoProfile THEN StoreIdentity(s, p)
           ELSE UNCHANGED <<identities, subsByProfile>>
    /\ Finish(v)
    /\ UNCHANGED <<requests, runtimeVars, sessionVars, purge, lost>>

(* /api/player/bootstrap, which has no answer without the runtime, and none  *)
(* for a link to a profile that is not in the list either.                   *)
AnswerBootstrap(v, up) ==
    /\ request[v].pc = "answer" /\ request[v].kind = "bootstrap"
    /\ IF up THEN UNCHANGED faults ELSE Fault
    /\ LET s == request[v].sub
           p == AnsweredProfile(s, request[v].profile, up)
       IN  IF up /\ p # NoProfile THEN StoreIdentity(s, p)
           ELSE UNCHANGED <<identities, subsByProfile>>
    /\ Finish(v)
    /\ UNCHANGED <<requests, runtimeVars, sessionVars, purge, lost>>

(* The other routes refuse a player without a profile, and pass a request    *)
(* about his own on to the runtime or the game server.                       *)
Refuse(v) ==
    /\ request[v].pc = "authorised" /\ request[v].profile = NoProfile
    /\ Finish(v)
    /\ UNCHANGED <<requests, runtimeVars, identities, sessionVars, subsByProfile, purge, faults, lost>>

PassOn(v, up) ==
    /\ IF up THEN UNCHANGED faults ELSE Fault
    /\ Finish(v)
    /\ UNCHANGED <<requests, runtimeVars, identities, sessionVars, subsByProfile, purge, lost>>
ForOwn(v, up) ==
    request[v].pc = "authorised" /\ request[v].profile # NoProfile /\ PassOn(v, up)

FundOwn(v, up) == ForOwn(v, up)
WithdrawOwn(v, up) == ForOwn(v, up)
TransferOwn(v, up) == ForOwn(v, up)
EscrowHistory(v, up) == ForOwn(v, up)
Activity(v, up) == ForOwn(v, up)
WalletSummary(v, up) == ForOwn(v, up)
OwnPresence(v, up) == ForOwn(v, up)

(* The wallet is prepared at once only when players approve stakes by hand.  *)
PrepareOwn(v, up, auto) == IF auto THEN ForOwn(v, TRUE) ELSE ForOwn(v, up)

(* The runtime gives a key away for a profile it knows and its wallet only.  *)
ExportKey(v, up) == Listed(request[v].profile) /\ ForOwn(v, up)

(* The bot of the profile, or the one named if the profile owns it.          *)
ConfigureOwnBot(v, up) == Listed(request[v].profile) /\ ForOwn(v, up)

(* The name of a player is kept twice; the copy here is stored with the rest *)
(* of the identity, as it was when the request came in.                      *)
UpdateProfile(v) ==
    /\ request[v].pc = "authorised" /\ Listed(request[v].profile)
    /\ request[v].profile # NoProfile
    /\ request' = [request EXCEPT ![v].kind = "profile", ![v].pc = "store"]
    /\ UNCHANGED <<requests, runtimeVars, identities, sessionVars, subsByProfile, purge, faults, lost>>

(* What an administrator asks for, of the runtime or the game server: lists, *)
(* a teleport, a payment from or to the house, the calls on a list of those  *)
(* that are let through.  One of these makes a profile nobody is linked to.  *)
Administers(v) == request[v].pc = "authorised" /\ request[v].sub \in AdminSubject

AdminUsers(v, up) == Administers(v) /\ PassOn(v, up)
Teleport(v, up) == Administers(v) /\ PassOn(v, up)
AdjustsWallet(v, p, up) == Administers(v) /\ Listed(p) /\ PassOn(v, up)
RecentChallenges(v, up) == Administers(v) /\ PassOn(v, up)
RuntimeProxy(v, up) == Administers(v) /\ PassOn(v, up)

ProxyCreateProfile(v) ==
    /\ Administers(v)
    /\ profileCounter \in Profile
    /\ profileCounter' = profileCounter + 1
    /\ Finish(v)
    /\ UNCHANGED <<requests, subjectLinks, runtimeDisk, identities, sessionVars, subsByProfile, purge, faults,
                   lost>>

-----------------------------------------------------------------------------
(* Signing out, and the ends of a session and of an identity in Redis.       *)
LogOut(sid) ==
    /\ sid \in sessions
    /\ sessions' = sessions \ {sid}
    /\ sessionsBySub' = [sessionsBySub EXCEPT ![sessionOf[sid]] = @ \ {sid}]
    /\ UNCHANGED <<requests, runtimeVars, identities, sessionOf, subsByProfile, request, purge, faults,
                   lost>>

SessionExpires(sid) ==
    /\ sid \in sessions
    /\ sessions' = sessions \ {sid}
    /\ UNCHANGED <<requests, runtimeVars, identities, sessionOf, sessionsBySub, subsByProfile, request,
                   purge, faults, lost>>

(* An identity outlives the sessions of its subject, each of which has       *)
(* stored it.                                                                *)
IdentityExpires(s) ==
    /\ identities[s] # NoIdentity
    /\ \A sid \in sessions : sessionOf[sid] # s
    /\ identities' = [identities EXCEPT ![s] = NoIdentity]
    /\ UNCHANGED <<requests, runtimeVars, sessionVars, subsByProfile, request, purge, faults, lost>>

(* purgeSessionsForProfile, for an administrator's logout of a player, by    *)
(* itself or through chief: the subjects of the profile, then for each its   *)
(* sessions, one by one.                                                     *)
SessionsOfSubs(subs) == (UNION {sessionsBySub[s] : s \in subs}) \cap sessions

PurgeStart(v, p) ==
    /\ Administers(v)
    /\ purge = NoPurge
    /\ subsByProfile[p] # {}
    /\ purge' = [subs |-> subsByProfile[p], sids |-> {}, before |-> SessionsOfSubs(subsByProfile[p])]
    /\ Finish(v)
    /\ UNCHANGED <<requests, runtimeVars, identities, sessionVars, subsByProfile, faults, lost>>

(* Faulty variant of PurgeSub: only the first subject of the profile is purged. *)
PurgeFirstSub(s) ==
    /\ s \in purge.subs /\ purge.sids = {}
    /\ purge' = [purge EXCEPT !.subs = {}, !.sids = sessionsBySub[s]]
    /\ UNCHANGED <<requests, runtimeVars, identities, sessionVars, subsByProfile, request, faults, lost>>

PurgeSub(s) ==
    /\ s \in purge.subs /\ purge.sids = {}
    /\ purge' = [purge EXCEPT !.subs = @ \ {s}, !.sids = sessionsBySub[s]]
    /\ UNCHANGED <<requests, runtimeVars, identities, sessionVars, subsByProfile, request, faults, lost>>

PurgeSession(sid) ==
    /\ sid \in purge.sids
    /\ purge' = [purge EXCEPT !.sids = @ \ {sid}]
    /\ sessions' = sessions \ {sid}
    /\ sessionsBySub' = [sessionsBySub EXCEPT ![sessionOf[sid]] = @ \ {sid}]
    /\ UNCHANGED <<requests, runtimeVars, identities, sessionOf, subsByProfile, request, faults, lost>>

PurgeEnd ==
    /\ purge # NoPurge /\ purge.subs = {} /\ purge.sids = {}
    /\ purge' = NoPurge
    /\ UNCHANGED <<requests, runtimeVars, identities, sessionVars, subsByProfile, request, faults, lost>>

-----------------------------------------------------------------------------
(* The runtime answers before it saves (schedulePersistState), and starts    *)
(* again from what was saved.                                                *)
SaveRuntime ==
    /\ runtimeDisk # RuntimeState
    /\ runtimeDisk' = RuntimeState
    /\ UNCHANGED <<requests, profileCounter, subjectLinks, identities, sessionVars, subsByProfile, request,
                   purge, faults, lost>>

Restart(counter, links) == profileCounter' = counter /\ subjectLinks' = links

RestartRuntime ==
    /\ Fault
    /\ Restart(runtimeDisk.profileCounter, runtimeDisk.subjectLinks)
    /\ lost' = (lost \/ runtimeDisk # RuntimeState)
    /\ UNCHANGED <<requests, runtimeDisk, identities, sessionVars, subsByProfile, request, purge>>

AccessNext ==
    \/ \E v \in Request :
        \/ \E s \in Subject :
            \/ LocalSignIn(v, s) \/ EmailSignIn(v, s)
            \/ \E verified \in BOOLEAN : FirebaseSignIn(v, s, verified) \/ GoogleSignIn(v, s, verified)
        \/ \E sid \in Sid : Enter(v, sid)
        \/ \E up \in BOOLEAN :
            \/ Reconcile(v, up) \/ LookUp(v, up) \/ Provision(v, up)
            \/ AnswerPlayer(v, up) \/ AnswerBootstrap(v, up)
            \/ FundOwn(v, up) \/ WithdrawOwn(v, up) \/ TransferOwn(v, up) \/ EscrowHistory(v, up)
            \/ Activity(v, up) \/ WalletSummary(v, up) \/ OwnPresence(v, up) \/ ExportKey(v, up)
            \/ ConfigureOwnBot(v, up)
            \/ \E auto \in BOOLEAN : PrepareOwn(v, up, auto)
            \/ AdminUsers(v, up) \/ Teleport(v, up) \/ RecentChallenges(v, up) \/ RuntimeProxy(v, up)
            \/ \E p \in Profile : AdjustsWallet(v, p, up)
        \/ \E p \in Profile : PurgeStart(v, p)
        \/ PlayerMe(v) \/ Bootstrap(v) \/ IdentityWallet(v) \/ Refuse(v)
        \/ UpdateProfile(v) \/ ProxyCreateProfile(v)
        \/ ProvisionFails(v) \/ Store(v) \/ OpenSession(v) \/ IndexSession(v)
    \/ \E sid \in Sid : LogOut(sid) \/ SessionExpires(sid) \/ PurgeSession(sid)
    \/ \E s \in Subject : IdentityExpires(s) \/ PurgeSub(s)
    \/ PurgeEnd \/ SaveRuntime \/ RestartRuntime

AccessSpec == AccessInit /\ [][AccessNext]_accessVars

-----------------------------------------------------------------------------
(* The profiles a subject is taken for: by its stored identity, and by the   *)
(* requests under way, whose answer names the profile in a token.            *)
TakenFor(s) ==
    ({identities[s]} \cup {request[v].profile : v \in {u \in Request : request[u].sub = s}})
        \ {NoIdentity, NoProfile}

(* No two people are taken for one player, however their requests, failed    *)
(* lookups and lost answers interleave with restarts of the runtime.         *)
NoSharedProfile == \A s, t \in Subject : s # t => TakenFor(s) \cap TakenFor(t) = {}

(* As long as no crash has lost a profile, everybody has one profile of his  *)
(* own, the one of his link, on all servers and for good.                    *)
OneProfileEach ==
    lost \/ (NoSharedProfile /\ \A s \in Subject : TakenFor(s) \subseteq {subjectLinks[s]})

(* A purge ends all sessions its subjects had, complete, when it began.      *)
PurgeLogsOut == [][PurgeEnd => purge.before \cap sessions = {}]_accessVars
=============================================================================
